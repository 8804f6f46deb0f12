----------------------------- MODULE ResourceForm -----------------------------
(***************************************************************************)
(* The page that creates a resource (ResourceCreate.tsx) and the two       *)
(* inputs it is made of (ReferenceInput.tsx, ArrayReferenceInput.tsx).     *)
(*                                                                         *)
(* Fields depend on each other through React effects: choosing a template  *)
(* resets the version and the parents, a parent and a project fill in what *)
(* they imply, and the version, the parents and the project determine the  *)
(* variables, which the server is asked for.  Nothing cancels a request    *)
(* and answers arrive in any order.  An action of the model is a handler   *)
(* with all the renders it causes, until no effect has anything to change. *)
(***************************************************************************)
EXTENDS Integers, SequencesExt, Bags

CONSTANTS
    Template, Version, Resource, Project, Workspace,
    None,               \* an empty field
    Abstract,           \* templates without code, whose resources have no version
    Active,             \* versions whose lifecycle state is active
    TemplateOf,         \* the template of a version or of a resource
    ParentsOf,          \* the templates of the parents of a template's resources
    ProjectOf,          \* the project of a resource, or None
    WorkspaceOf,        \* the workspace of a resource or of a project, or None
    InRange,            \* the projects among the first that a list query returns
    Rank,               \* the place of a resource in the order of names
    MaxEdits,           \* bound on what the user does
    MaxFailures         \* bound on the requests that fail

ASSUME TemplatesAssumption ==
    /\ Abstract \subseteq Template
    /\ Active \subseteq Version
    /\ TemplateOf \in [Version \cup Resource -> Template]
    /\ ParentsOf \in [Template -> SUBSET Template]
ASSUME InheritanceAssumption ==
    /\ ProjectOf \in [Resource -> Project \cup {None}]
    /\ WorkspaceOf \in [Resource \cup Project -> Workspace \cup {None}]
    /\ InRange \subseteq Project
ASSUME NamesAssumption ==
    /\ Rank \in [Resource -> Nat]
    /\ \A r, s \in Resource : Rank[r] = Rank[s] => r = s
ASSUME NoneAssumption ==
    None \notin Template \cup Version \cup Resource \cup Project \cup Workspace
ASSUME BoundsAssumption == MaxEdits \in Nat /\ MaxFailures \in Nat

VARIABLES
    form,       \* the fields, and the refs of the effects that fill them
    options,    \* buffer["source_code_versions"], shown by the version field
    listed,     \* buffer["projects"]: the projects the server has listed
    named,      \* and those added by a parent, with a name and nothing else
    rules,      \* the template the validation rules were asked for
    loading,    \* isLoading, the spinner below the variables
    saving,     \* saves in flight
    requests,   \* requests in flight, a bag
    left,       \* the page was left for the new resource
    edits, failures,
    raced       \* history: the variables were asked for, or cleared, while
                \* another answer was still to come, or an answer was an error

vars == <<form, options, listed, named, rules, loading, saving, requests, left,
          edits, failures, raced>>

-----------------------------------------------------------------------------
(* Fields.                                                                 *)

\* picks is parentSelections: pairs of a parent template and what was selected
\* for it, in the order in which the keys were added.
Pick == Template \X Seq(Resource)

Selected(f) == FlattenSeq([i \in DOMAIN f.picks |-> f.picks[i][2]])

\* What the variables are computed from.
SchemaKey(f) == [version |-> f.version, parents |-> Selected(f), project |-> f.project]

\* filter_template: the options of the version field, once loaded.
VersionsOf(t) == {v \in Version : TemplateOf[v] = t}

Request(kind, key) == [kind |-> kind, key |-> key]

InFlight(kind) == \E q \in BagToSet(requests) : q.kind = kind

Concrete(t) == t # None /\ t \notin Abstract

\* Which of its two project fields the page shows for the template t, if any.
ProjectField(t) ==
    IF Concrete(t) THEN "concrete"
    ELSE IF t # None /\ ParentsOf[t] # {} THEN "abstract" ELSE "none"

\* The workspace of a project, if the project is one of those listed.
Known(p, projects) == IF p \in projects THEN WorkspaceOf[p] ELSE None

-----------------------------------------------------------------------------
(* Effects.                                                                *)

\* Mutant: the effect that follows the template forgets the parents.
WithoutVersion(f, t) == [f EXCEPT !.template = t, !.version = None]

\* A template that changes takes the version and the parents with it.
WithTemplate(f, t) ==
    [f EXCEPT !.template = t, !.version = None, !.picks = << >>]

\* An empty version becomes an active one of the options at hand.
AutoSelected(f, offered) ==
    {[f EXCEPT !.version = v] :
        v \in IF f.template = None \/ f.version # None \/ offered \cap Active = {}
              THEN {f.version} ELSE offered \cap Active}

ParentOf(f) == IF Selected(f) = << >> THEN None ELSE Last(Selected(f))

Or(value, old) == IF value = None THEN old ELSE value

\* The last parent fills in its workspace and its project, once.
Inherited(f) ==
    LET r == ParentOf(f)
    IN  IF r = None THEN [f EXCEPT !.lastParent = None]
        ELSE IF r = f.lastParent THEN f
        ELSE [f EXCEPT !.lastParent = r,
                       !.workspace = Or(WorkspaceOf[r], @),
                       !.project = Or(ProjectOf[r], @)]

\* A project that a parent brings is named, unless the buffer has it.
Named(f) ==
    LET r == ParentOf(f)
    IN  IF r \in {None, f.lastParent} \/ ProjectOf[r] \in {None} \cup listed
        THEN named ELSE named \cup {ProjectOf[r]}

ParentFills(f) == ParentOf(f) # None /\ WorkspaceOf[ParentOf(f)] # None

\* Mutant: a project only replaces the workspace of the project before.
FilledAgain(f, h, projects) ==
    LET w == Known(f.project, projects)
    IN  IF w = None \/ h.lastWorkspace = None \/ f.workspace # h.lastWorkspace
        THEN h
        ELSE [h EXCEPT !.workspace = w, !.lastWorkspace = w]

\* The project fills in its workspace, unless a parent does, when the field is
\* empty or holds what a project filled in last.  The effect looks at the
\* render f it belongs to, and changes h, what the effects before it have left.
Filled(f, h, projects) ==
    LET w == Known(f.project, projects)
    IN  IF ParentFills(f) \/ w = None THEN [h EXCEPT !.lastWorkspace = None]
        ELSE IF f.workspace \in {None, h.lastWorkspace}
        THEN [h EXCEPT !.workspace = w, !.lastWorkspace = w]
        ELSE h

\* Mutant: the variables are asked for without a version.
SchemaRequestsAlways(f, g, again) ==
    {Request("schema", SchemaKey(x)) :
        x \in {y \in {f, g} : again \/ SchemaKey(y) # SchemaKey(form)}}

\* Mutant: the project does not count.
SchemaRequestsOnce(f, g, again) ==
    {Request("schema", SchemaKey(x)) :
        x \in {y \in {g} : /\ y.version # None
                           /\ again \/ Selected(y) # Selected(form) \/ y.version # form.version}}

\* The requests for the variables of f, then g, where g is what the form is one
\* render after f: each render asks for the variables of what has changed.
SchemaRequests(f, g, again) ==
    {Request("schema", SchemaKey(x)) :
        x \in {y \in {f, g} : /\ y.version # None
                              /\ again \/ SchemaKey(y) # SchemaKey(form)}}

\* The renders that follow a change: `again' says that the version was empty in
\* between, which cleared the variables; `others' is what else is asked for.
Settle(f, again, others) ==
    LET h == Filled(f, Inherited(f), listed)
        g == Filled(h, h, listed)
        ask == again \/ SchemaKey(g) # SchemaKey(form)
        sent == SchemaRequests(f, g, again)
    IN  /\ form' = [g EXCEPT !.variables =
                IF again \/ (ask /\ g.version = None) THEN None ELSE @]
        /\ named' = Named(f)
        /\ requests' = requests (+) SetToBag(sent \cup others)
        /\ loading' = (loading \/ sent # {})
        /\ raced' = IF ask THEN InFlight("schema") \/ Cardinality(sent) > 1 ELSE raced

-----------------------------------------------------------------------------
(* The user.                                                               *)

ProjectsAsked(old, new) ==
    IF ProjectField(new) \in {"none", ProjectField(old)} THEN {}
    ELSE {Request("projects", None)}

Edit == /\ ~left
        /\ edits < MaxEdits
        /\ edits' = edits + 1

\* The version field, shown for a template with code, asks for its options, and
\* a project field that was not there for its own; the rules of no template are
\* empty.
SelectTemplate(t) ==
    /\ Edit
    /\ t # form.template
    /\ rules' = IF t = None THEN None ELSE rules
    /\ \E f \in AutoSelected(WithTemplate(form, t), options) :
          Settle(f, TRUE,
                 {Request(kind, t) : kind \in
                     (IF t = None THEN {} ELSE {"rules"})
                     \cup (IF Concrete(t) THEN {"versions"} ELSE {})}
                 \cup ProjectsAsked(form.template, t))
    /\ UNCHANGED <<options, listed, saving, left, failures>>

\* A version that is cleared is selected again if there is an active one.
SelectVersion(v) ==
    /\ Edit
    /\ Concrete(form.template)
    /\ v \in options \cup {None}
    /\ v # form.version
    /\ \E f \in AutoSelected([form EXCEPT !.version = v], options) :
          Settle(f, v = None, {})
    /\ UNCHANGED <<options, listed, rules, saving, left, failures>>

\* The input shows what is selected in the order of its options, by name.
Shown(s) == {q \in [DOMAIN s -> Range(s)] :
                \A i, j \in DOMAIN s : i < j => Rank[q[i]] < Rank[q[j]]}

\* An option that is selected is taken out, at its index; another comes last.
Toggled(s, r) == IF Contains(s, r)
                 THEN RemoveAt(s, CHOOSE i \in DOMAIN s : s[i] = r)
                 ELSE Append(s, r)

\* The input of a parent template adds to its selection or takes from it.
Repicked(picks, t, r) ==
    IF \E i \in DOMAIN picks : picks[i][1] = t
    THEN {[i \in DOMAIN picks |->
                IF picks[i][1] # t THEN picks[i] ELSE <<t, Toggled(q, r)>>] :
            q \in UNION {Shown(picks[i][2]) :
                            i \in {j \in DOMAIN picks : picks[j][1] = t}}}
    ELSE {Append(picks, <<t, <<r>> >>)}

SelectParent(r) ==
    /\ Edit
    /\ form.template # None
    /\ TemplateOf[r] \in ParentsOf[form.template]
    /\ \E picks \in Repicked(form.picks, TemplateOf[r], r) :
          Settle([form EXCEPT !.picks = picks], FALSE, {})
    /\ UNCHANGED <<options, listed, rules, saving, left, failures>>

SelectProject(p) ==
    /\ Edit
    /\ ProjectField(form.template) # "none"
    /\ p \in listed \cup named \cup {None}
    /\ p # form.project
    /\ Settle([form EXCEPT !.project = p], FALSE, {})
    /\ UNCHANGED <<options, listed, rules, saving, left, failures>>

SelectWorkspace(w) ==
    /\ Edit
    /\ Concrete(form.template) /\ w # form.workspace
    /\ Settle([form EXCEPT !.workspace = w], FALSE, {})
    /\ UNCHANGED <<options, listed, rules, saving, left, failures>>

\* Save is offered whatever is in flight, a save included.
Save ==
    /\ Edit
    /\ form.template # None
    /\ ParentsOf[form.template] # {} => Selected(form) # << >>
    /\ Concrete(form.template) => form.version # None
    /\ saving' = saving + 1
    /\ UNCHANGED <<form, options, listed, named, rules, loading, requests, left,
                   failures, raced>>

-----------------------------------------------------------------------------
(* The server.                                                             *)

Fail == failures < MaxFailures /\ failures' = failures + 1

\* Created or refused.
Saved ==
    /\ saving > 0
    /\ saving' = saving - 1
    /\ \/ left' = TRUE /\ UNCHANGED failures
       \/ Fail /\ UNCHANGED left
    /\ UNCHANGED <<form, options, listed, named, rules, loading, requests, edits, raced>>

\* The options of a template replace those that were there.
AnswerVersions(q) ==
    /\ q.kind = "versions"
    /\ options' = VersionsOf(q.key)
    /\ \E f \in AutoSelected(form, VersionsOf(q.key)) :
        LET sent == SchemaRequests(f, f, FALSE)
        IN  /\ form' = f
            /\ requests' = (requests (-) SetToBag({q})) (+) SetToBag(sent)
            /\ loading' = (loading \/ sent # {})
            /\ raced' = IF sent # {} THEN InFlight("schema") ELSE raced
    /\ UNCHANGED <<listed, named, rules, failures>>

\* The projects listed replace those in the buffer, and may tell the workspace
\* of the one selected.
AnswerProjects(q) ==
    /\ q.kind = "projects"
    /\ listed' = InRange
    /\ named' = {}
    /\ form' = Filled(form, form, InRange)
    /\ requests' = requests (-) SetToBag({q})
    /\ UNCHANGED <<options, rules, loading, failures, raced>>

AnswerRules(q) ==
    /\ q.kind = "rules"
    /\ rules' = q.key
    /\ requests' = requests (-) SetToBag({q})
    /\ UNCHANGED <<form, options, listed, named, loading, failures, raced>>

AnswerSchema(q) ==
    /\ q.kind = "schema"
    /\ form' = [form EXCEPT !.variables = q.key]
    /\ requests' = requests (-) SetToBag({q})
    /\ loading' = FALSE
    /\ UNCHANGED <<options, listed, named, rules, failures, raced>>

\* Mutant: the spinner is only stopped by a good answer.
AnswerErrorSpinning(q) ==
    /\ Fail
    /\ requests' = requests (-) SetToBag({q})
    /\ raced' = (raced \/ q.kind = "schema")
    /\ UNCHANGED <<form, options, listed, named, rules, loading>>

\* The error is shown and the form stays as it is.
AnswerError(q) ==
    /\ Fail
    /\ requests' = requests (-) SetToBag({q})
    /\ loading' = (loading /\ q.kind # "schema")
    /\ raced' = (raced \/ q.kind = "schema")
    /\ UNCHANGED <<form, options, listed, named, rules>>

Answer ==
    /\ ~left
    /\ \E q \in BagToSet(requests) :
        \/ AnswerVersions(q) \/ AnswerProjects(q) \/ AnswerRules(q)
        \/ AnswerSchema(q) \/ AnswerError(q)
    /\ UNCHANGED <<saving, left, edits>>

-----------------------------------------------------------------------------
Init ==
    /\ form = [template |-> None, version |-> None, picks |-> << >>, project |-> None,
               workspace |-> None, variables |-> None,
               lastParent |-> None, lastWorkspace |-> None]
    /\ options = {} /\ listed = {} /\ named = {} /\ rules = None
    /\ loading = FALSE /\ saving = 0
    /\ requests = EmptyBag
    /\ left = FALSE
    /\ edits = 0 /\ failures = 0
    /\ raced = FALSE

User == \/ \E t \in Template \cup {None} : SelectTemplate(t)
        \/ \E v \in Version \cup {None} : SelectVersion(v)
        \/ \E r \in Resource : SelectParent(r)
        \/ \E p \in Project \cup {None} : SelectProject(p)
        \/ \E w \in Workspace \cup {None} : SelectWorkspace(w)
        \/ Save

Next == User \/ Saved \/ Answer

Spec == Init /\ [][Next]_vars

-----------------------------------------------------------------------------
(* What holds.                                                             *)

Keys == [version : Version \cup {None}, parents : Seq(Resource), project : Project \cup {None}]

\* Every field keeps its type, and a request asks for what it can ask for.
TypeOK ==
    /\ form \in [template : Template \cup {None}, version : Version \cup {None},
                 picks : Seq(Pick), project : Project \cup {None},
                 workspace : Workspace \cup {None}, variables : Keys \cup {None},
                 lastParent : Resource \cup {None}, lastWorkspace : Workspace \cup {None}]
    /\ options \subseteq Version
    /\ listed \subseteq Project /\ named \subseteq Project \ listed
    /\ rules \in Template \cup {None}
    /\ loading \in BOOLEAN /\ left \in BOOLEAN /\ raced \in BOOLEAN
    /\ saving \in Nat /\ edits \in 0 .. MaxEdits /\ failures \in 0 .. MaxFailures
    /\ \A q \in BagToSet(requests) :
            \/ q.kind \in {"versions", "rules"} /\ q.key \in Template
            \/ q = Request("projects", None)
            \/ q.kind = "schema" /\ q.key \in Keys /\ q.key.version # None

Wanted == IF form.version = None THEN None ELSE SchemaKey(form)

\* Once answered, the variables are those of the version, the parents and the
\* project that are selected; only a request or a reset that overtook the
\* answer to another, or an error, can leave others in the form.
VariablesFit == ~InFlight("schema") /\ ~raced => form.variables = Wanted

\* The spinner never stays when nothing is in flight, and is missing while
\* variables are being loaded only if two requests for them overlapped.
LoadingIsHonest == /\ loading => InFlight("schema")
                   /\ InFlight("schema") /\ ~raced => loading

\* Parents selected for one template are never sent with another.
ParentsFit ==
    \A r \in Range(Selected(form)) :
        form.template # None /\ TemplateOf[r] \in ParentsOf[form.template]

\* A project that the page has listed fills in its workspace where no parent
\* does, in whatever order the parents, the project and the workspace were set
\* and cleared, before or after the list came.
ProjectFillsWorkspace ==
    /\ form.project \in listed
    /\ WorkspaceOf[form.project] # None
    /\ ~ParentFills(form)
    => form.workspace # None
=============================================================================
