----------------------------- MODULE BlueprintForm -----------------------------
(***************************************************************************)
(* The canvas on which a blueprint's templates are wired                   *)
(* (useBlueprintForm.ts), inside the editor of the blueprint's page        *)
(* (BlueprintWiringEditor.tsx, BlueprintContent.tsx), and what the server   *)
(* keeps of a draft (blueprints/service.py, blueprints/crud.py).           *)
(*                                                                         *)
(* The ports and the parents of the templates on the canvas are fetched in *)
(* batches by an effect; adding a template also asks for the default wires *)
(* between those that are there.  No request is cancelled, and an answer   *)
(* is merged into whatever the draft has become.  An action is a handler   *)
(* with all the renders it causes.                                         *)
(***************************************************************************)
EXTENDS Integers, SequencesExt, Bags

CONSTANTS
    Template, Constant,
    First,          \* the templates the blueprint was created with, each once, in order
    ParentsOf,      \* the parents of a template; the hierarchy has no cycle
    References,     \* the default wires, pairs <<source, target>>
    MaxEdits,       \* bound on the changes, and on leaving without saving
    MaxFailures     \* bound on the saves that fail

ASSUME HierarchyAssumption == /\ First \in Seq(Template) \ {<< >>}
                              /\ IsInjective(First)
                              /\ ParentsOf \in [Template -> SUBSET Template]
                              /\ References \subseteq Template \X Template
                              /\ \A S \in (SUBSET Template) \ {{}} :
                                    \E t \in S : ParentsOf[t] \cap S = {}
ASSUME ConstantsAssumption == Template \cap Constant = {}
ASSUME BoundsAssumption == MaxEdits \in Nat /\ MaxFailures \in Nat

VARIABLES
    row,        \* the blueprint in the database
    open,       \* the editor is shown instead of the diagram
    draft,      \* what the editor would save, and the templates on its canvas
    ports,      \* templatePorts: "none", "empty" after an error, or "known"
    parents,    \* the templates that have an entry in templateParents
    requests,   \* requests in flight, a bag
    saves,      \* saves in flight
    edits, failures,
    late,       \* history: blocks that were removed while a request for the
                \* default wires between them was in flight
    stale       \* 0, or in turn 1 and 2 after requests that failed since the last
                \* answer: each error makes a new object of templatePorts

vars == <<row, open, draft, ports, parents, requests, saves, edits, failures, late, stale>>

-----------------------------------------------------------------------------
(* The canvas.                                                             *)

Blocks(d) == Range(d.selected) \cup d.externals \cup d.constants

\* buildEdges: a wire is shown when both its ends are.
Shown(d) == {w \in d.wiring : w[1] \in Blocks(d) /\ w[2] \in Range(d.selected)}

\* Mutant: a template stays in the list after it is added.
OfferedAll(d) == Template \ d.externals

\* The sidebar offers the templates that are not on the canvas, and the parents
\* the templates miss.
Offered(d) == Template \ (Range(d.selected) \cup d.externals)

MissingParents(d) ==
    (UNION {ParentsOf[t] : t \in Range(d.selected) \cap parents})
        \ (Range(d.selected) \cup d.externals)

\* Mutant: only one level of the hierarchy is considered.
Shallow(ids, known) ==
    LET child(t) == t \in known /\ ParentsOf[t] \cap Range(ids) # {}
    IN  SelectSeq(ids, LAMBDA t : ~child(t)) \o SelectSeq(ids, child)

\* sortByHierarchy: Kahn's algorithm, on the parents that are known.  A template
\* follows its last parent, and those that follow the same keep their order.
Hierarchical(ids, known) ==
    CHOOSE q \in SetToSeqs(Range(ids)) :
        LET last(t) == Max({0} \cup {i \in DOMAIN q : t \in known /\ q[i] \in ParentsOf[t]})
            index(t) == CHOOSE i \in DOMAIN ids : ids[i] = t
        IN  \A i, j \in DOMAIN q :
                i < j => \/ last(q[i]) < last(q[j])
                         \/ last(q[i]) = last(q[j]) /\ index(q[i]) < index(q[j])

\* Mutant: the form keeps the order in which the templates were added.
ReorderedView(d, ids) == [d EXCEPT !.selected = ids]

Reordered(d, ids) == [d EXCEPT !.selected = ids, !.ids = ids]

-----------------------------------------------------------------------------
(* Requests.                                                               *)

Request(ids, extra, wire) == [ids |-> ids, extra |-> extra, wire |-> wire]

\* Mutant: the effect looks at the ports only.
MissingPorts(d, p, known) == {t \in Range(d.selected) : p[t] = "none"}

\* The sync effect asks for the templates without ports or parents.
Missing(d, p, known) == {t \in Range(d.selected) : p[t] = "none" \/ t \notin known}

EmptyDraft == [selected |-> << >>, ids |-> << >>, externals |-> {}, constants |-> {}, wiring |-> {}]
NoPorts == [t \in Template |-> "none"]

\* The editor is gone, and answers have nowhere to go.
Unmount ==
    /\ open' = FALSE /\ draft' = EmptyDraft /\ ports' = NoPorts
    /\ parents' = {} /\ requests' = EmptyBag /\ stale' = 0

\* n renders, each of which runs the sync effect, after `others' was asked for.
Render(d, p, known, n, others) ==
    LET missing == Missing(d, p, known)
        sync == IF missing = {} THEN EmptyBag
                ELSE [q \in {Request(missing, {}, FALSE)} |-> n]
    IN  /\ draft' = d /\ ports' = p /\ parents' = known
        /\ requests' = others (+) sync

\* refreshAutoWiring.
AutoWire(d) ==
    IF Len(d.selected) >= 2 \/ (Len(d.selected) = 1 /\ d.externals # {})
    THEN requests (+) SetToBag({Request(Range(d.selected), d.externals, TRUE)})
    ELSE requests

\* Is a request for default wires in flight that names the block?
Wiring(t) == \E q \in BagToSet(requests) : q.wire /\ t \in q.ids \cup q.extra

-----------------------------------------------------------------------------
(* The user.                                                               *)

Edit == edits < MaxEdits /\ edits' = edits + 1
OnCanvas == open /\ Edit /\ UNCHANGED <<row, open, saves, failures, stale>>

\* The editor starts from the blueprint, asks for what it shows, and its effect
\* asks for the templates again.  The page shows the row: after a save it has no
\* content to open an editor in until it has fetched the blueprint again.
Open ==
    /\ ~open
    /\ open' = TRUE
    /\ Render([selected |-> row.ids, ids |-> row.ids, externals |-> row.externals,
               constants |-> row.constants, wiring |-> row.wiring \cup row.constantWires],
              NoPorts, {}, 1,
              SetToBag({Request(Range(row.ids), row.externals, FALSE)}))
    /\ stale' = 0
    /\ UNCHANGED <<row, saves, edits, failures, late>>

\* Cancel, or the button that shows the diagram: a save goes on without its
\* editor.
Close ==
    /\ open
    /\ Edit
    /\ Unmount
    /\ saves' = {[s EXCEPT !.mine = FALSE] : s \in saves}
    /\ UNCHANGED <<row, failures, late>>

AddTemplate(t) ==
    /\ OnCanvas
    /\ t \in Offered(draft)
    /\ LET d == Reordered(draft, Append(draft.selected, t))
       IN  Render(d, ports, parents, 1, AutoWire(d))
    /\ UNCHANGED late

\* Mutant: only the wires that leave the block go with it.
WithoutSource(d, t) ==
    [d EXCEPT !.selected = RemoveFirst(@, t), !.ids = RemoveFirst(@, t),
              !.wiring = {w \in @ : w[1] # t}]

\* A template, which is on the canvas once (TypeOK), goes with its wires.
Without(d, t) ==
    [d EXCEPT !.selected = RemoveFirst(@, t), !.ids = RemoveFirst(@, t),
              !.wiring = {w \in @ : w[1] # t /\ w[2] # t}]

RemoveTemplate(t) ==
    /\ OnCanvas
    /\ t \in Range(draft.selected)
    /\ Render(Without(draft, t), [ports EXCEPT ![t] = "none"], parents, 1, requests)
    /\ late' = IF Wiring(t) THEN late \cup {t} ELSE late

\* A parent that stays outside of the blueprint.
AddExternal(t) ==
    /\ OnCanvas
    /\ t \in MissingParents(draft)
    /\ draft' = [draft EXCEPT !.externals = @ \cup {t}]
    /\ requests' = AutoWire(draft')
    /\ UNCHANGED <<ports, parents, late>>

RemoveExternal(t) ==
    /\ OnCanvas
    /\ t \in draft.externals
    /\ draft' = [draft EXCEPT !.externals = @ \ {t}, !.wiring = {w \in @ : w[1] # t}]
    /\ late' = IF Wiring(t) THEN late \cup {t} ELSE late
    /\ UNCHANGED <<ports, parents, requests>>

\* A constant gets a fresh identifier.
AddConstant(c) ==
    /\ OnCanvas
    /\ c \notin draft.constants \cup row.constants
    /\ draft' = [draft EXCEPT !.constants = @ \cup {c}]
    /\ UNCHANGED <<ports, parents, requests, late>>

RemoveConstant(c) ==
    /\ OnCanvas
    /\ c \in draft.constants
    /\ draft' = [draft EXCEPT !.constants = @ \ {c}, !.wiring = {w \in @ : w[1] # c}]
    /\ UNCHANGED <<ports, parents, requests, late>>

\* A wire is drawn between two blocks whose ports are shown.
Connect(s, t) ==
    /\ OnCanvas
    /\ s \in Blocks(draft) /\ t \in Range(draft.selected) \ {s}
    /\ s \in Template => ports[s] = "known"
    /\ ports[t] = "known"
    /\ <<s, t>> \notin draft.wiring
    /\ draft' = [draft EXCEPT !.wiring = @ \cup {<<s, t>>}]
    /\ UNCHANGED <<ports, parents, requests, late>>

Disconnect(w) ==
    /\ OnCanvas
    /\ w \in Shown(draft)
    /\ draft' = [draft EXCEPT !.wiring = @ \ {w}]
    /\ UNCHANGED <<ports, parents, requests, late>>

\* The wires of constants are saved apart.
Payload(d) ==
    [ids |-> d.ids, externals |-> d.externals, constants |-> d.constants,
     wiring |-> {w \in d.wiring : w[1] \notin d.constants},
     constantWires |-> {w \in d.wiring : w[1] \in d.constants}]

Save ==
    /\ open
    /\ \A s \in saves : ~s.mine
    /\ saves' = saves \cup {[data |-> Payload(draft), mine |-> TRUE]}
    /\ UNCHANGED <<row, open, draft, ports, parents, requests, edits, failures, late, stale>>

-----------------------------------------------------------------------------
(* The server.                                                             *)

Fail == failures < MaxFailures /\ failures' = failures + 1

\* Mutant: the answer replaces the parents that are known.
OnlyParents(named) == named

WithParents(named) == parents \cup named

\* The server is taken to answer for every template it is asked about.
\* Ports and parents are merged, default wires added, and the parents sorted
\* before their children, which is another render.
Fetched(q) ==
    LET named == q.ids \cup q.extra
        known == WithParents(named)
        wires == {w \in References : q.wire /\ w[1] \in named /\ w[2] \in q.ids}
        wired == [draft EXCEPT !.wiring = @ \cup wires]
    IN  /\ \E order \in {Hierarchical(draft.selected, known)} :
            LET moved == order # draft.selected
            IN  Render(IF moved THEN Reordered(wired, order) ELSE wired,
                       [t \in Template |-> IF t \in named THEN "known" ELSE ports[t]],
                       known, IF moved THEN 2 ELSE 1, requests (-) SetToBag({q}))
        /\ stale' = 0
        /\ UNCHANGED failures

\* After an error the templates have no ports, and the effect asks again at once
\* for those without parents, as often as it takes.
NotFetched(q) ==
    /\ Render(draft, [t \in Template |-> IF t \in q.ids \cup q.extra THEN "empty" ELSE ports[t]],
              parents, 1, requests (-) SetToBag({q}))
    /\ stale' = IF stale = 1 THEN 2 ELSE 1
    /\ UNCHANGED failures

Answer ==
    /\ open
    /\ \E q \in BagToSet(requests) : Fetched(q) \/ NotFetched(q)
    /\ UNCHANGED <<row, open, saves, edits, late>>

\* Mutant: an empty list of wires is not written.
StoredUnlessEmpty(old, new) ==
    [new EXCEPT !.ids = IF @ = << >> THEN old.ids ELSE @,
                !.wiring = IF @ = {} THEN old.wiring ELSE @]

\* update_blueprint and crud.update: no templates means the templates that are
\* there, and a configuration without constants is the default, which is not
\* written.
Stored(old, new) ==
    [new EXCEPT !.ids = IF @ = << >> THEN old.ids ELSE @,
                !.constants = IF @ = {} THEN old.constants ELSE @,
                !.constantWires = IF new.constants = {} THEN old.constantWires ELSE @]

\* The key of blueprint_templates: a template is inside or outside.
Storable(new) == Range(new.ids) \cap new.externals = {}

\* The save that succeeds closes the editor, its own or the next, whose own save
\* goes on without it.
Saved ==
    \E s \in saves : LET new == Stored(row, s.data) IN
        /\ \/ /\ Storable(new) /\ row' = new /\ Unmount /\ UNCHANGED failures
              /\ saves' = {[x EXCEPT !.mine = FALSE] : x \in saves \ {s}}
           \/ /\ Fail \/ (~Storable(new) /\ UNCHANGED failures)
              /\ saves' = saves \ {s}
              /\ UNCHANGED <<row, open, draft, ports, parents, requests, stale>>
        /\ UNCHANGED <<edits, late>>

-----------------------------------------------------------------------------
\* A blueprint without wires.
Init ==
    /\ row = [ids |-> First, externals |-> {}, constants |-> {}, wiring |-> {},
              constantWires |-> {}]
    /\ open = FALSE
    /\ draft = EmptyDraft /\ ports = NoPorts /\ parents = {}
    /\ requests = EmptyBag /\ saves = {}
    /\ edits = 0 /\ failures = 0
    /\ late = {} /\ stale = 0

User ==
    \/ Open \/ Close \/ Save
    \/ \E t \in Template :
        AddTemplate(t) \/ RemoveTemplate(t) \/ AddExternal(t) \/ RemoveExternal(t)
    \/ \E c \in Constant : AddConstant(c) \/ RemoveConstant(c)
    \/ \E s \in Template \cup Constant, t \in Template : Connect(s, t)
    \/ \E w \in draft.wiring : Disconnect(w)

Next == User \/ Answer \/ Saved

\* Every request ends, with an answer or with an error.
Spec == Init /\ [][Next]_vars /\ WF_vars(Answer)

-----------------------------------------------------------------------------
(* What holds.                                                             *)

Wire == (Template \cup Constant) \X Template

\* Every part keeps its type, and no template is on the canvas twice.
TypeOK ==
    /\ row \in [ids : Seq(Template), externals : SUBSET Template,
                constants : SUBSET Constant, wiring : SUBSET Wire,
                constantWires : SUBSET Wire]
    /\ draft \in [selected : Seq(Template), ids : Seq(Template),
                  externals : SUBSET Template, constants : SUBSET Constant,
                  wiring : SUBSET Wire]
    /\ IsInjective(draft.selected)
    /\ Range(draft.selected) \cap draft.externals = {}
    /\ ports \in [Template -> {"none", "empty", "known"}]
    /\ parents \subseteq Template
    /\ IsABag(requests)
    /\ open \in BOOLEAN /\ stale \in {0, 1, 2}
    /\ edits \in 0 .. MaxEdits /\ failures \in 0 .. MaxFailures

\* "Remove wiring that references this external template": no wire outlives the
\* blocks it connects, except one that an answer brings after a block it names
\* was removed, and those of a constant whose removal the server did not store.
\* Such a wire is not shown, and saved.
WiresFit ==
    \A w \in draft.wiring :
        \/ w[1] \in Blocks(draft) /\ w[2] \in Range(draft.selected)
        \/ {w[1], w[2]} \cap late # {}
        \/ w \in row.constantWires

\* The templates that are saved are those on the canvas, in that order, however
\* additions, removals and sorting are interleaved.
IdsMatchSelection == draft.ids = draft.selected

\* Once everything is answered the parents come before their children, unless
\* the last answer was an error.
SortedWhenQuiet ==
    open /\ requests = EmptyBag /\ stale = 0 =>
        \A i, j \in DOMAIN draft.selected :
            i < j => draft.selected[j] \notin ParentsOf[draft.selected[i]]

\* Once everything is answered, the parents and the ports of every template on
\* the canvas were fetched, or an error said that there are no ports.
NothingForgotten ==
    open /\ requests = EmptyBag =>
        \A t \in Range(draft.selected) : t \in parents /\ ports[t] # "none"

\* The wires between templates that the server keeps are between templates it
\* keeps, even for drafts from which every template was removed.
RowFits ==
    \A w \in row.wiring :
        \/ w[1] \in Range(row.ids) \cup row.externals /\ w[2] \in Range(row.ids)
        \/ {w[1], w[2]} \cap late # {}

\* The effect asks at every render for what is missing, several times for the same
\* template if need be.  Yet it comes to rest, again and again, unless requests keep
\* failing: only errors can keep it asking.
Settles == []<>(requests = EmptyBag \/ stale # 0)
=============================================================================
