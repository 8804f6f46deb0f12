----------------------------- MODULE BlueprintUse -----------------------------
(***************************************************************************)
(* The page that starts a blueprint (BlueprintUse.tsx): the parents its    *)
(* templates lack, a version for each template, the variables of these     *)
(* versions, the constants, and the workflow they are sent to.             *)
(*                                                                         *)
(* Selecting all parents asks for the versions; selecting versions or      *)
(* parents asks for the variables of all of them at once.  Nothing orders  *)
(* or cancels the answers.  A handler and the effects of its render are    *)
(* one step.                                                               *)
(***************************************************************************)
EXTENDS Integers, SequencesExt, FiniteSetsExt

CONSTANTS
    Template,           \* templates of the blueprint
    External,           \* templates of the parents it does not provide
    Missing,            \* [Template -> SUBSET External]: missingParents
    Resource,           \* resources that can be such a parent
    Version,            \* source code versions, the disabled ones left out
    TemplateOf,         \* [Version -> Template]
    Latest,             \* the first version of each template, if it has any
    Var,                \* names of variables
    Default,            \* [Version -> SUBSET Var]: with a default
    Required,           \* [Version -> SUBSET Var]: required
    Wired,              \* [Template -> SUBSET Var]: wired to an output
    Constant,           \* blocks of constants
    Wire,               \* [Constant -> SUBSET (Template \X Var)]
    None, Absent, Blank, Spaces, Typed,
    MaxEdits,           \* bound on what the user does before sending
    MaxFailures         \* bound on the requests that fail

ASSUME UseAssumption ==
    /\ Missing \in [Template -> SUBSET External]
    /\ TemplateOf \in [Version -> Template]
    /\ Latest \in [Template -> Version \cup {None}]
    /\ \A t \in Template : Latest[t] # None => TemplateOf[Latest[t]] = t
    /\ Default \in [Version -> SUBSET Var] /\ Required \in [Version -> SUBSET Var]
    /\ Wired \in [Template -> SUBSET Var]
    /\ Wire \in [Constant -> SUBSET (Template \X Var)]
    /\ {MaxEdits, MaxFailures} \subseteq Nat

\* An empty selection is no version, a field that is not there no value.
ASSUME EmptyAssumption == /\ None \notin Version
                          /\ Absent # Typed /\ Blank # Typed /\ Blank # Spaces

VARIABLES
    form,       \* parents, selected, values, constants: the form's values
    listed,     \* the versions are in their selectors
    schemas,    \* variableSchemas: None, or the version and parents they are for
    listings,   \* requests for the versions in flight
    loads,      \* requests for the schemas in flight, oldest first
    sent,       \* the workflow being created, or None
    created,    \* it was: the page is left
    edits, failures,
    answered,   \* history: the newest request for schemas has its answer
    overtaken   \* history: the schemas are not those of the newest request

vars == <<form, listed, schemas, listings, loads, sent, created, edits, failures,
          answered, overtaken>>

-----------------------------------------------------------------------------
(* What the page computes from the form.                                   *)

AllParentsResolved(f) == \A t \in Template : \A p \in Missing[t] : f.parents[p] # {}

AllConstantsFilled(f) == \A c \in Constant : f.constants[c] = Typed

ConstantWired(t) == {x \in Var : \E c \in Constant : <<t, x>> \in Wire[c]}

\* A variable without an entry, or whose schema did not come, asks for nothing.
AllRequiredFilled(f, s) ==
    \A t \in Template : s[t].version # None =>
        \A x \in Required[s[t].version] \ (Wired[t] \cup ConstantWired(t)) :
            f.values[t][x] \notin {Absent, Blank, Spaces} \/ x \in Default[s[t].version]

HasAllVersions(f) == \A t \in Template : f.selected[t] # None

\* Mutant: the constants are not asked for.
CanSubmitUnfilled(f, s) ==
    AllParentsResolved(f) /\ HasAllVersions(f) /\ AllRequiredFilled(f, s)

CanSubmit(f, s) ==
    /\ AllParentsResolved(f) /\ HasAllVersions(f)
    /\ AllConstantsFilled(f) /\ AllRequiredFilled(f, s)

-----------------------------------------------------------------------------
(* Effects.                                                                *)

\* Mutant: only a selection of versions asks for the variables.
LoadsSelectedOnly(f, g) ==
    IF g.selected # f.selected /\ (\E t \in Template : g.selected[t] # None)
    THEN << [selected |-> g.selected, parents |-> g.parents] >> ELSE << >>

\* A render with new versions or parents asks for the variables, if any version
\* is selected.
Loads(f, g) ==
    IF \E t \in Template : g.selected[t] # None
    THEN << [selected |-> g.selected, parents |-> g.parents] >> ELSE << >>

Render(g) ==
    /\ form' = g
    /\ loads' = loads \o Loads(form, g)
    /\ answered' = (answered /\ Loads(form, g) = << >>)

\* The versions are asked for whenever the last missing parent is selected.
Listings(f, g) == IF ~AllParentsResolved(f) /\ AllParentsResolved(g) THEN 1 ELSE 0

-----------------------------------------------------------------------------
(* What the user does.                                                     *)

\* Also while a workflow is being created.
Editing == /\ ~created
           /\ edits < MaxEdits /\ edits' = edits + 1
           /\ UNCHANGED <<failures, sent, created, overtaken>>

SelectParents(p, R) ==
    /\ Editing
    /\ R # form.parents[p]
    /\ Render([form EXCEPT !.parents[p] = R])
    /\ listings' = listings + Listings(form, [form EXCEPT !.parents[p] = R])
    /\ UNCHANGED <<listed, schemas>>

NoValues == [x \in Var |-> Absent]

\* The values of the version before are dropped.
Picked(f, t, v) == [f EXCEPT !.selected[t] = v, !.values[t] = NoValues]

PickVersion(t, v) ==
    /\ Editing
    /\ listed /\ AllParentsResolved(form)
    /\ v # form.selected[t]
    /\ Render(Picked(form, t, v))
    /\ UNCHANGED <<listed, schemas, listings>>

\* The variables that have a field: a wired one shows where its value is from.
TypeValue(t, x, v) ==
    /\ Editing
    /\ AllParentsResolved(form) /\ schemas[t].version # None
    /\ x \in (Default[schemas[t].version] \cup Required[schemas[t].version])
             \ (Wired[t] \cup ConstantWired(t))
    /\ form.values[t][x] # v
    /\ form' = [form EXCEPT !.values[t][x] = v]
    /\ UNCHANGED <<listed, schemas, listings, loads, answered>>

TypeConstant(c, v) ==
    /\ Editing
    /\ form.constants[c] # v
    /\ form' = [form EXCEPT !.constants[c] = v]
    /\ UNCHANGED <<listed, schemas, listings, loads, answered>>

\* Mutant: a field that was emptied is sent empty.
OverridesBlank(f) ==
    [t \in Template |-> [x \in Var |->
        IF \E c \in Constant : <<t, x>> \in Wire[c] /\ f.constants[c] = Typed THEN Typed
        ELSE f.values[t][x]]]

\* What is neither absent nor empty is sent, spaces too, and the constants over it.
Overrides(f) ==
    [t \in Template |-> [x \in Var |->
        IF \E c \in Constant : <<t, x>> \in Wire[c] /\ f.constants[c] = Typed THEN Typed
        ELSE IF f.values[t][x] = Blank THEN Absent ELSE f.values[t][x]]]

Submit ==
    /\ ~created /\ sent = None
    /\ CanSubmit(form, schemas)
    /\ sent' = [versions |-> form.selected, parents |-> form.parents,
                overrides |-> Overrides(form)]
    /\ UNCHANGED <<form, listed, schemas, listings, loads,
                   created, edits, failures, answered, overtaken>>

-----------------------------------------------------------------------------
(* Answers.                                                                *)

Fails(n) == /\ failures + n <= MaxFailures
            /\ failures' = failures + n

\* The newest versions are selected, whatever was selected before.
Listed ==
    /\ ~created /\ listings > 0
    /\ listings' = listings - 1
    /\ listed' = TRUE
    /\ Render([form EXCEPT !.selected = Latest])
    /\ UNCHANGED <<schemas, sent, created, edits, failures, overtaken>>

ListingFails ==
    /\ ~created /\ listings > 0
    /\ Fails(1)
    /\ listings' = listings - 1
    /\ UNCHANGED <<form, listed, schemas, loads, sent, created, edits, answered, overtaken>>

NoParents == [p \in External |-> {}]

\* What a failed or unselected template has.
NoSchema(failed) == [version |-> None, parents |-> NoParents, failed |-> failed]

Answer(l, failed) ==
    [t \in Template |->
        IF l.selected[t] = None \/ t \in failed THEN NoSchema(t \in failed)
        ELSE [version |-> l.selected[t], parents |-> l.parents, failed |-> FALSE]]

\* A default replaces what is there, typed or not.
WithDefaults(values, s) ==
    [t \in Template |-> [x \in Var |->
        IF s[t].version # None /\ x \in Default[s[t].version]
        THEN [version |-> s[t].version, parents |-> s[t].parents] ELSE values[t][x]]]

\* Promise.all: the variables of all templates come together.
Loaded ==
    /\ ~created
    /\ \E i \in DOMAIN loads :
        /\ loads' = RemoveAt(loads, i)
        /\ overtaken' = (answered \/ i < Len(loads))
        /\ answered' = (answered \/ i = Len(loads))
        /\ \E failed \in SUBSET {t \in Template : loads[i].selected[t] # None} :
            /\ Fails(Cardinality(failed))
            /\ schemas' = Answer(loads[i], failed)
            /\ form' = [form EXCEPT !.values = WithDefaults(@, Answer(loads[i], failed))]
    /\ UNCHANGED <<listed, listings, sent, created, edits>>

Created ==
    /\ sent # None /\ ~created
    /\ created' = TRUE
    /\ UNCHANGED <<form, listed, schemas, listings, loads,
                   sent, edits, failures, answered, overtaken>>

CreationFails ==
    /\ sent # None /\ ~created
    /\ Fails(1)
    /\ sent' = None
    /\ UNCHANGED <<form, listed, schemas, listings, loads,
                   created, edits, answered, overtaken>>

-----------------------------------------------------------------------------
Init ==
    /\ form = [parents |-> NoParents, selected |-> [t \in Template |-> None],
               values |-> [t \in Template |-> NoValues],
               constants |-> [c \in Constant |-> Blank]]
    /\ listed = FALSE
    /\ schemas = [t \in Template |-> NoSchema(FALSE)]
    /\ listings = (IF \A t \in Template : Missing[t] = {} THEN 1 ELSE 0)
    /\ loads = << >> /\ sent = None /\ created = FALSE
    /\ edits = 0 /\ failures = 0 /\ answered = TRUE /\ overtaken = FALSE

Next ==
    \/ \E p \in External : \E R \in SUBSET Resource : SelectParents(p, R)
    \/ \E t \in Template : \E v \in {w \in Version : TemplateOf[w] = t} \cup {None} :
            PickVersion(t, v)
    \/ \E t \in Template : \E x \in Var : \E v \in {Typed, Blank, Spaces} : TypeValue(t, x, v)
    \/ \E c \in Constant : \E v \in {Typed, Blank} : TypeConstant(c, v)
    \/ Submit
    \/ Listed \/ ListingFails \/ Loaded \/ Created \/ CreationFails

Spec == Init /\ [][Next]_vars

-----------------------------------------------------------------------------
(* What holds.                                                             *)

Parents == [External -> SUBSET Resource]
FromSchema == [version : Version, parents : Parents]

\* Every part keeps its type; no empty value is ever sent.
TypeOK ==
    /\ form.parents \in Parents
    /\ form.selected \in [Template -> Version \cup {None}]
    /\ form.values \in [Template -> [Var -> {Absent, Blank, Spaces, Typed} \cup FromSchema]]
    /\ form.constants \in [Constant -> {Blank, Typed}]
    /\ schemas \in [Template -> [version : Version \cup {None}, parents : Parents,
                                 failed : BOOLEAN]]
    /\ listings \in Nat /\ listed \in BOOLEAN /\ created \in BOOLEAN
    /\ sent # None =>
        sent.overrides \in [Template -> [Var -> {Absent, Spaces, Typed} \cup FromSchema]]

\* BlueprintService._validate_constants: a constant has a value at each of its
\* targets.
Accepted(overrides) ==
    \A c \in Constant : \A w \in Wire[c] : overrides[w[1]][w[2]] # Absent

\* Whatever was selected, dropped and selected again before: the workflow that
\* is created has a version of each template and a resource for each parent the
\* blueprint lacks, and its constants pass the check of the server.
SentIsComplete ==
    sent # None =>
        /\ \A t \in Template : sent.versions[t] # None /\ TemplateOf[sent.versions[t]] = t
        /\ \A t \in Template : \A p \in Missing[t] : sent.parents[p] # {}
        /\ Accepted(sent.overrides)

\* Once the schemas have come, none of them after those of a later request and
\* none failed, the fields are those of the selected versions, with the defaults
\* that the selected parents give them or with what the user typed since.
PageFitsChoice ==
    loads = << >> /\ ~overtaken =>
        \A t \in Template : form.selected[t] # None /\ ~schemas[t].failed =>
            LET s == [version |-> form.selected[t], parents |-> form.parents]
            IN  /\ schemas[t].version = s.version /\ schemas[t].parents = s.parents
                /\ \A x \in Default[s.version] : form.values[t][x] \in {Blank, Spaces, Typed, s}
=============================================================================
