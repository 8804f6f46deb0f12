------------------------- MODULE ResourceForm_proofs -------------------------
(***************************************************************************)
(* Theorems about ResourceForm, for every set of templates, versions and   *)
(* resources, every number of requests in flight and every bound.          *)
(***************************************************************************)
EXTENDS ResourceForm, Induction, FiniteSetTheorems, SequenceTheorems, TLAPS

-----------------------------------------------------------------------------
(* Sequences and bags.                                                     *)

\* The concatenation of sequences over a set is a sequence over it.
LEMMA FlattenType ==
    ASSUME NEW S, NEW seqs \in Seq(Seq(S))
    PROVE  /\ FlattenSeq(seqs) \in Seq(S)
           /\ seqs = << >> => FlattenSeq(seqs) = << >>
<1> DEFINE n == Len(seqs)
           Rounds(g) == g = [i \in 1 .. n |->
                                IF i = 1 THEN seqs[i] ELSE g[i - 1] \o seqs[i]]
<1>1. n \in Nat /\ \A i \in 1 .. n : seqs[i] \in Seq(S)
  BY LenProperties, ElementOfSeq
<1>2. CASE n = 0
  BY <1>2 DEF FlattenSeq
<1>3. CASE n # 0
  <2> DEFINE V == Seq(S)
             F == [x \in Nat \X V |-> IF x[1] + 1 \in 1 .. n THEN x[2] \o seqs[x[1] + 1]
                                     ELSE x[2]]
  <2>1. 1 \in 1 .. n /\ seqs[1] \in V
    BY <1>1, <1>3
  <2>2. Steps(F, V)
    <3> SUFFICES ASSUME NEW i \in Nat, NEW x \in V PROVE F[<<i, x>>] \in V
      BY DEF Steps
    <3>1. CASE i + 1 \in 1 .. n
      BY <1>1, <3>1, ConcatProperties
    <3>2. CASE i + 1 \notin 1 .. n
      BY <3>2
    <3> QED
      BY <3>1, <3>2
  <2>3. \A i \in 1 .. n - 1, x \in V : F[<<i, x>>] = x \o seqs[i + 1]
    <3> SUFFICES ASSUME NEW i \in 1 .. n - 1, NEW x \in V PROVE F[<<i, x>>] = x \o seqs[i + 1]
      OBVIOUS
    <3>1. i \in Nat /\ i + 1 \in 1 .. n
      BY <1>1
    <3> QED
      BY <3>1
  <2> HIDE DEF F, V
  <2>4. PICK h \in [Nat -> V] : Recursive(h, seqs[1], F)
    BY <2>1, <2>2, NatRecursion
  <2>5. h[0] = seqs[1] /\ \A i \in 1 .. n - 1 : h[i] = h[i - 1] \o seqs[i + 1]
    <3> SUFFICES ASSUME NEW i \in 1 .. n - 1 PROVE h[i] = h[i - 1] \o seqs[i + 1]
      BY <2>4 DEF Recursive
    <3>1. i \in Nat \ {0} /\ h[i - 1] \in V
      BY <1>1, <2>4
    <3> QED
      BY <2>3, <2>4, <3>1 DEF Recursive
  <2>6. \E g : Rounds(g)
    <3> DEFINE g == [i \in 1 .. n |-> h[i - 1]]
    <3>1. ASSUME NEW i \in 1 .. n
          PROVE  g[i] = IF i = 1 THEN seqs[i] ELSE g[i - 1] \o seqs[i]
      <4>1. CASE i = 1
        BY <2>5, <4>1
      <4>2. CASE i # 1
        <5>1. i - 1 \in 1 .. n - 1 /\ i - 1 \in 1 .. n /\ (i - 1) + 1 = i
          BY <1>1, <4>2
        <5>2. h[i - 1] = h[(i - 1) - 1] \o seqs[(i - 1) + 1]
          BY <2>5, <5>1
        <5> QED
          BY <4>2, <5>1, <5>2
      <4> QED
        BY <4>1, <4>2
    <3>2. Rounds(g)
      BY <3>1
    <3> QED
      BY <3>2
  <2>7. PICK g : g = CHOOSE x : Rounds(x)
    OBVIOUS
  <2>8. FlattenSeq(seqs) = g[n]
    BY <1>3, <2>7 DEF FlattenSeq
  <2>9. Rounds(g)
    BY <2>6, <2>7, Zenon
  <2> DEFINE T == {i \in Nat : i + 1 \in 1 .. n => g[i + 1] \in Seq(S)}
  <2>10. 0 \in T
    BY <2>1, <2>9 DEF V
  <2>11. ASSUME NEW i \in T PROVE i + 1 \in T
    <3> SUFFICES ASSUME (i + 1) + 1 \in 1 .. n PROVE g[(i + 1) + 1] \in Seq(S)
      OBVIOUS
    <3>1. i \in Nat /\ i + 1 \in 1 .. n /\ g[i + 1] \in Seq(S)
      BY <1>1
    <3>2. PICK j \in 1 .. n : j = (i + 1) + 1
      OBVIOUS
    <3>3. j # 1 /\ j - 1 = i + 1
      BY <3>1, <3>2
    <3>4. g[j] = g[j - 1] \o seqs[j]
      BY <2>9, <3>3
    <3> QED
      BY <1>1, <3>1, <3>2, <3>3, <3>4, ConcatProperties
  <2>12. T \in SUBSET Nat
    OBVIOUS
  <2> HIDE DEF T
  <2>13. T = Nat
    BY <2>10, <2>11, <2>12, SetInduction
  <2>14. n - 1 \in T /\ (n - 1) + 1 = n
    BY <1>1, <1>3, <2>13
  <2>15. g[n] \in Seq(S)
    BY <1>1, <1>3, <2>14 DEF T
  <2> QED
    BY <1>3, <2>8, <2>15
<1> QED
  BY <1>2, <1>3

\* Requests that are sent, and one that is answered.
LEMMA BagAddAll ==
    ASSUME NEW B, IsABag(B), NEW S
    PROVE  /\ IsABag(B (+) SetToBag(S))
           /\ BagToSet(B (+) SetToBag(S)) = BagToSet(B) \cup S
           /\ \A e \in S \ BagToSet(B) : (B (+) SetToBag(S))[e] = 1
           /\ \A e \in BagToSet(B) \ S : (B (+) SetToBag(S))[e] = B[e]
  BY DEF BagToSet, SetToBag, (+), IsABag

LEMMA BagTakeOne ==
    ASSUME NEW B, IsABag(B), NEW x
    PROVE  /\ IsABag(B (-) SetToBag({x}))
           /\ BagToSet(B (-) SetToBag({x})) \subseteq BagToSet(B)
           /\ \A e \in BagToSet(B) \ {x} :
                e \in BagToSet(B (-) SetToBag({x})) /\ (B (-) SetToBag({x}))[e] = B[e]
           /\ x \in BagToSet(B) /\ B[x] = 1 => x \notin BagToSet(B (-) SetToBag({x}))
  BY DEF BagToSet, SetToBag, (-), IsABag

-----------------------------------------------------------------------------
(* The invariant.                                                          *)

Forms == [template : Template \cup {None}, version : Version \cup {None},
          picks : Seq(Pick), project : Project \cup {None},
          workspace : Workspace \cup {None}, variables : Keys \cup {None},
          lastParent : Resource \cup {None}, lastWorkspace : Workspace \cup {None}]

\* The resources that may be parents of a resource of the template t.
Fitting(t) == IF t = None THEN {} ELSE {r \in Resource : TemplateOf[r] \in ParentsOf[t]}

PicksFit(f) == f.picks \in Seq(Template \X Seq(Fitting(f.template)))

\* The fields: between two steps of the user every effect has run.
FormOk ==
    /\ form \in Forms
    /\ PicksFit(form)
    /\ form.lastParent = ParentOf(form)
    /\ ProjectFillsWorkspace

Others == [kind : {"versions", "rules"}, key : Template] \cup {Request("projects", None)}
Schemas == [kind : {"schema"}, key : {k \in Keys : k.version # None}]

\* While nothing is raced there is at most one request for variables, and it
\* asks for those of the form.
RequestsOk ==
    /\ IsABag(requests) /\ BagToSet(requests) \subseteq Others \cup Schemas
    /\ loading \in BOOLEAN /\ raced \in BOOLEAN
    /\ loading => InFlight("schema")
    /\ ~ raced =>
        IF InFlight("schema")
        THEN /\ loading
             /\ \A q \in BagToSet(requests) :
                    q.kind = "schema" => /\ q = Request("schema", SchemaKey(form))
                                         /\ requests[q] = 1
        ELSE form.variables = Wanted

RestOk ==
    /\ options \subseteq Version
    /\ listed \subseteq Project /\ named \subseteq Project \ listed
    /\ rules \in Template \cup {None}
    /\ left \in BOOLEAN
    /\ saving \in Nat /\ edits \in 0 .. MaxEdits /\ failures \in 0 .. MaxFailures

FormInv == FormOk /\ RequestsOk /\ RestOk

-----------------------------------------------------------------------------
(* What the effects make of a form.                                        *)

\* What is selected is a sequence over what was picked.
LEMMA SelectedType ==
    ASSUME NEW f, NEW S, f.picks \in Seq(Template \X Seq(S))
    PROVE  /\ Selected(f) \in Seq(S)
           /\ f.picks = << >> => Selected(f) = << >>
<1>1. PICK n \in Nat : DOMAIN f.picks = 1 .. n /\ \A i \in 1 .. n : f.picks[i] \in Template \X Seq(S)
  <2>1. Len(f.picks) \in Nat /\ DOMAIN f.picks = 1 .. Len(f.picks)
    BY LenProperties
  <2> QED
    BY <2>1, ElementOfSeq
<1>2. PICK seqs : seqs = [i \in 1 .. n |-> f.picks[i][2]]
  OBVIOUS
<1>3. \A i \in 1 .. n : seqs[i] \in Seq(S)
  BY <1>1, <1>2
<1>4. seqs \in Seq(Seq(S))
  BY <1>2, <1>3, IsASeq
<1>5. f.picks = << >> => seqs = << >>
  BY <1>1, <1>2
<1> QED
  BY <1>1, <1>2, <1>4, <1>5, FlattenType DEF Selected

LEMMA PicksType ==
    ASSUME NEW f \in Forms, PicksFit(f)
    PROVE  /\ Selected(f) \in Seq(Fitting(f.template)) /\ Selected(f) \in Seq(Resource)
           /\ ParentOf(f) \in Resource \cup {None}
           /\ SchemaKey(f) \in Keys
           /\ f.picks = << >> => Selected(f) = << >>
<1>1. /\ Selected(f) \in Seq(Fitting(f.template))
      /\ f.picks = << >> => Selected(f) = << >>
  BY SelectedType DEF PicksFit
<1>2. f.picks \in Seq(Template \X Seq(Resource))
  BY DEF Forms, Pick
<1>3. Selected(f) \in Seq(Resource)
  BY <1>2, SelectedType
<1>4. ParentOf(f) \in Resource \cup {None}
  <2>1. CASE Selected(f) = << >>
    BY <2>1 DEF ParentOf
  <2>2. CASE Selected(f) # << >>
    <3>1. Len(Selected(f)) \in 1 .. Len(Selected(f))
      BY <1>3, <2>2, LenProperties, EmptySeq
    <3>2. Selected(f)[Len(Selected(f))] \in Resource
      BY <1>3, <3>1, ElementOfSeq
    <3> QED
      BY <2>2, <3>2 DEF ParentOf, Last
  <2> QED
    BY <2>1, <2>2
<1>5. SchemaKey(f) \in Keys
  BY <1>3 DEF SchemaKey, Keys, Forms
<1> QED
  BY <1>1, <1>3, <1>4, <1>5

\* The last parent fills in what it implies, and only when it is a new one.
LEMMA InheritedForm ==
    ASSUME NEW f \in Forms, PicksFit(f), NEW h, h = Inherited(f)
    PROVE  /\ h \in Forms /\ h.lastParent = ParentOf(f)
           /\ h.template = f.template /\ h.version = f.version /\ h.picks = f.picks
           /\ h.variables = f.variables
           /\ ParentOf(f) = f.lastParent => h.project = f.project
           /\ ParentOf(f) = None => h.project = f.project
<1>1. ParentOf(f) \in Resource \cup {None} /\ None \notin Resource
  BY PicksType, NoneAssumption
<1>2. CASE ParentOf(f) = None
  BY <1>2 DEF Inherited, Forms
<1>3. CASE ParentOf(f) # None /\ ParentOf(f) = f.lastParent
  BY <1>3 DEF Inherited
<1>4. CASE ParentOf(f) # None /\ ParentOf(f) # f.lastParent
  <2>1. PICK r \in Resource : r = ParentOf(f)
    BY <1>1, <1>4
  <2>2. PICK p, w : p = Or(ProjectOf[r], f.project) /\ w = Or(WorkspaceOf[r], f.workspace)
    OBVIOUS
  <2>3. p \in Project \cup {None} /\ w \in Workspace \cup {None}
    BY <2>2, InheritanceAssumption DEF Or, Forms
  <2>4. h = [f EXCEPT !.lastParent = r, !.workspace = w, !.project = p]
    BY <1>4, <2>1, <2>2 DEF Inherited, Forms
  <2> QED
    BY <1>4, <2>1, <2>3, <2>4 DEF Forms
<1> QED
  BY <1>2, <1>3, <1>4

\* The project of the render f fills in its workspace, in what the effects
\* before have made of the form; where these have done nothing, the form ends
\* with a workspace.
LEMMA FilledForm ==
    ASSUME NEW f \in Forms, NEW h \in Forms, NEW projects \in SUBSET Project,
           NEW g, g = Filled(f, h, projects)
    PROVE  /\ g \in Forms
           /\ g.template = h.template /\ g.version = h.version /\ g.picks = h.picks
           /\ g.project = h.project /\ g.variables = h.variables
           /\ g.lastParent = h.lastParent
           /\ f = h /\ g.project \in projects /\ WorkspaceOf[g.project] # None
              /\ ~ ParentFills(h)
              => g.workspace # None
<1>1. PICK w : w = Known(f.project, projects)
  OBVIOUS
<1>2. /\ w \in Workspace \cup {None}
      /\ f.project \in projects => w = WorkspaceOf[f.project]
  BY <1>1, InheritanceAssumption DEF Known
<1>3. CASE ParentFills(f) \/ w = None
  <2>1. g = [h EXCEPT !.lastWorkspace = None]
    BY <1>1, <1>3 DEF Filled
  <2> QED
    BY <1>2, <1>3, <2>1 DEF Forms
<1>4. CASE ~ ParentFills(f) /\ w # None /\ f.workspace \in {None, h.lastWorkspace}
  <2>1. g = [h EXCEPT !.workspace = w, !.lastWorkspace = w]
    BY <1>1, <1>4 DEF Filled
  <2> QED
    BY <1>2, <1>4, <2>1 DEF Forms
<1>5. CASE ~ ParentFills(f) /\ w # None /\ f.workspace \notin {None, h.lastWorkspace}
  <2>1. g = h
    BY <1>1, <1>5 DEF Filled
  <2> QED
    BY <1>5, <2>1 DEF Forms
<1> QED
  BY <1>3, <1>4, <1>5

\* What a parent names is a project that is not listed.
LEMMA NamedType ==
    ASSUME RestOk, NEW f \in Forms, PicksFit(f)
    PROVE  Named(f) \subseteq Project \ listed
<1>1. ParentOf(f) \in Resource \cup {None}
  BY PicksType
<1>2. CASE ParentOf(f) \in {None, f.lastParent} \/ ProjectOf[ParentOf(f)] \in {None} \cup listed
  BY <1>2 DEF Named, RestOk
<1>3. CASE ~ (ParentOf(f) \in {None, f.lastParent}
                \/ ProjectOf[ParentOf(f)] \in {None} \cup listed)
  <2>1. ProjectOf[ParentOf(f)] \in Project \ listed
    BY <1>1, <1>3, InheritanceAssumption
  <2> QED
    BY <1>3, <2>1 DEF Named, RestOk
<1> QED
  BY <1>2, <1>3

\* Two forms with the same fields of interest.
LEMMA SameKey ==
    ASSUME NEW f, NEW g, g.picks = f.picks, g.version = f.version
    PROVE  /\ Selected(g) = Selected(f) /\ ParentOf(g) = ParentOf(f)
           /\ g.project = f.project => SchemaKey(g) = SchemaKey(f)
  BY DEF Selected, ParentOf, SchemaKey

\* What a change sends: nothing that the server has been asked for, and, unless
\* two requests are sent, one for the variables of the form as it settles.
LEMMA SentRequests ==
    ASSUME FormOk, NEW f \in Forms, PicksFit(f), f.lastParent = form.lastParent,
           NEW g \in Forms, PicksFit(g), g.picks = f.picks, g.version = f.version,
           ParentOf(f) \in {None, f.lastParent} => g.project = f.project,
           NEW again \in BOOLEAN,
           NEW ask, ask = (again \/ SchemaKey(g) # SchemaKey(form)),
           NEW sent, sent = SchemaRequests(f, g, again)
    PROVE  /\ sent \subseteq Schemas
           /\ ~ ask => sent = {}
           /\ g.version = None => sent = {}
           /\ ask /\ g.version # None => Request("schema", SchemaKey(g)) \in sent
           /\ ask /\ ~ (Cardinality(sent) > 1) =>
                sent \subseteq {Request("schema", SchemaKey(g))}
<1>1. PICK a, b : a = Request("schema", SchemaKey(f)) /\ b = Request("schema", SchemaKey(g))
  OBVIOUS
<1>2. sent \subseteq {a, b}
  BY <1>1 DEF SchemaRequests
<1>3. g.version = None => sent = {}
  BY DEF SchemaRequests
<1>4. g.version # None => a \in Schemas /\ b \in Schemas
  BY <1>1, PicksType DEF Schemas, Request, SchemaKey
<1>5. ask /\ g.version # None => b \in sent
  BY <1>1 DEF SchemaRequests
<1>6. ~ ask => sent = {}
  <2> SUFFICES ASSUME ~ ask PROVE SchemaKey(f) = SchemaKey(form)
    BY DEF SchemaRequests
  <2>1. SchemaKey(g) = SchemaKey(form)
    OBVIOUS
  <2>2. Selected(g) = Selected(form)
    BY <2>1 DEF SchemaKey
  <2>3. ParentOf(f) = ParentOf(form)
    BY <2>2, SameKey DEF ParentOf
  <2>4. g.project = f.project
    BY <2>3 DEF FormOk
  <2> QED
    BY <2>1, <2>4, SameKey
<1>7. ASSUME a # b, a \in sent, b \in sent PROVE Cardinality(sent) > 1
  <2>1. sent = {a, b}
    BY <1>2, <1>7
  <2>2. IsFiniteSet({a}) /\ Cardinality({a}) = 1
    BY FS_Singleton
  <2>3. Cardinality({a} \cup {b}) = Cardinality({a}) + 1
    BY <1>7, <2>2, FS_AddElement
  <2>4. {a, b} = {a} \cup {b}
    OBVIOUS
  <2> QED
    BY <2>1, <2>2, <2>3, <2>4
<1>8. ask /\ ~ (Cardinality(sent) > 1) => sent \subseteq {b}
  BY <1>2, <1>3, <1>5, <1>7
<1> QED
  BY <1>1, <1>2, <1>3, <1>4, <1>5, <1>6, <1>8

\* New requests: the ones there were, and those for variables that were sent.
LEMMA SentInFlight ==
    ASSUME RequestsOk, NEW sent \in SUBSET Schemas, NEW others \in SUBSET Others,
           requests' = requests (+) SetToBag(sent \cup others)
    PROVE  /\ IsABag(requests') /\ BagToSet(requests') \subseteq Others \cup Schemas
           /\ InFlight("schema")' <=> InFlight("schema") \/ sent # {}
           /\ \A q \in BagToSet(requests') : q.kind = "schema" =>
                IF q \in sent
                THEN InFlight("schema") \/ requests'[q] = 1
                ELSE q \in BagToSet(requests) /\ requests'[q] = requests[q]
<1>1. PICK S : S = sent \cup others
  OBVIOUS
<1>2. /\ IsABag(requests') /\ BagToSet(requests') = BagToSet(requests) \cup S
      /\ \A e \in S \ BagToSet(requests) : requests'[e] = 1
      /\ \A e \in BagToSet(requests) \ S : requests'[e] = requests[e]
  BY <1>1, BagAddAll DEF RequestsOk
<1>3. /\ \A q \in sent : q.kind = "schema"
      /\ \A q \in others : q.kind # "schema"
  BY DEF Schemas, Others, Request
<1>4. InFlight("schema")' <=> InFlight("schema") \/ sent # {}
  BY <1>1, <1>2, <1>3 DEF InFlight
<1> QED
  BY <1>1, <1>2, <1>3, <1>4 DEF InFlight, RequestsOk

\* A handler changes a field, and the effects run until nothing changes.
LEMMA SettleOk ==
    ASSUME FormInv, NEW f \in Forms, PicksFit(f), f.lastParent = form.lastParent,
           f.variables = form.variables, NEW again \in BOOLEAN,
           NEW others \in SUBSET Others, Settle(f, again, others), listed' = listed
    PROVE  FormOk' /\ RequestsOk' /\ named' \subseteq Project \ listed
<1>1. PICK i, h : i = Inherited(f) /\ h = Filled(f, i, listed)
  OBVIOUS
<1>2. PICK g : g = Filled(h, h, listed)
  OBVIOUS
<1>0. listed \in SUBSET Project
  BY DEF FormInv, RestOk
<1>3. /\ h \in Forms /\ h.lastParent = ParentOf(f)
      /\ h.template = f.template /\ h.version = f.version /\ h.picks = f.picks
      /\ h.variables = f.variables
      /\ ParentOf(f) \in {None, f.lastParent} => h.project = f.project
  <2>1. /\ i \in Forms /\ i.lastParent = ParentOf(f)
        /\ i.template = f.template /\ i.version = f.version /\ i.picks = f.picks
        /\ i.variables = f.variables
        /\ ParentOf(f) \in {None, f.lastParent} => i.project = f.project
    BY <1>1, InheritedForm
  <2>2. /\ h \in Forms /\ h.lastParent = i.lastParent
        /\ h.template = i.template /\ h.version = i.version /\ h.picks = i.picks
        /\ h.variables = i.variables /\ h.project = i.project
    BY <1>0, <1>1, <2>1, FilledForm
  <2> QED
    BY <2>1, <2>2
<1>4. PicksFit(h) /\ ParentOf(h) = ParentOf(f)
  BY <1>3, SameKey DEF PicksFit
<1>5. /\ g \in Forms
      /\ g.template = h.template /\ g.version = h.version /\ g.picks = h.picks
      /\ g.project = h.project /\ g.variables = h.variables
      /\ g.lastParent = h.lastParent
      /\ g.project \in listed /\ WorkspaceOf[g.project] # None /\ ~ ParentFills(h)
         => g.workspace # None
  BY <1>0, <1>2, <1>3, FilledForm
<1>6. PicksFit(g) /\ ParentOf(g) = ParentOf(f)
  BY <1>3, <1>4, <1>5, SameKey DEF PicksFit
<1>7. PICK ask : ask = (again \/ SchemaKey(g) # SchemaKey(form))
  OBVIOUS
<1>8. PICK sent : sent = SchemaRequests(f, g, again)
  OBVIOUS
<1>9. PICK v : v = IF again \/ (ask /\ g.version = None) THEN None ELSE g.variables
  OBVIOUS
<1>10. /\ form' = [g EXCEPT !.variables = v]
       /\ requests' = requests (+) SetToBag(sent \cup others)
       /\ loading' = (loading \/ sent # {})
       /\ raced' = IF ask THEN InFlight("schema") \/ Cardinality(sent) > 1 ELSE raced
  BY <1>1, <1>2, <1>7, <1>8, <1>9 DEF Settle, Forms
<1>11. /\ form' \in Forms /\ form'.variables = v
       /\ form'.template = g.template /\ form'.version = g.version /\ form'.picks = g.picks
       /\ form'.project = g.project /\ form'.workspace = g.workspace
       /\ form'.lastParent = g.lastParent
  BY <1>5, <1>9, <1>10 DEF Forms
<1>12. /\ Selected(form') = Selected(g) /\ ParentOf(form') = ParentOf(g)
       /\ SchemaKey(form') = SchemaKey(g) /\ PicksFit(form')
  BY <1>6, <1>11, SameKey DEF PicksFit
<1>13. FormOk'
  <2>1. ParentFills(h) = ParentFills(form')
    BY <1>4, <1>6, <1>12 DEF ParentFills
  <2>2. ProjectFillsWorkspace'
    BY <1>5, <1>11, <2>1 DEF ProjectFillsWorkspace, ParentFills
  <2> QED
    BY <1>3, <1>5, <1>6, <1>11, <1>12, <2>2 DEF FormOk
<1>14. /\ sent \subseteq Schemas
       /\ ~ ask => sent = {}
       /\ g.version = None => sent = {}
       /\ ask /\ g.version # None => Request("schema", SchemaKey(g)) \in sent
       /\ ask /\ ~ (Cardinality(sent) > 1) =>
            sent \subseteq {Request("schema", SchemaKey(g))}
  BY <1>3, <1>5, <1>6, <1>7, <1>8, SentRequests DEF FormInv
<1>15. /\ IsABag(requests') /\ BagToSet(requests') \subseteq Others \cup Schemas
       /\ InFlight("schema")' <=> InFlight("schema") \/ sent # {}
       /\ \A q \in BagToSet(requests') : q.kind = "schema" =>
            IF q \in sent
            THEN InFlight("schema") \/ requests'[q] = 1
            ELSE q \in BagToSet(requests) /\ requests'[q] = requests[q]
  BY <1>10, <1>14, SentInFlight DEF FormInv
<1>16. loading' \in BOOLEAN /\ raced' \in BOOLEAN /\ (loading' => InFlight("schema")')
  BY <1>7, <1>10, <1>15 DEF FormInv, RequestsOk, InFlight
<1>17. ASSUME ~ raced', InFlight("schema")'
       PROVE  /\ loading'
              /\ \A q \in BagToSet(requests') :
                    q.kind = "schema" => /\ q = Request("schema", SchemaKey(form'))
                                         /\ requests'[q] = 1
  <2>1. CASE ask
    BY <1>10, <1>12, <1>14, <1>15, <1>17, <2>1 DEF InFlight
  <2>2. CASE ~ ask
    BY <1>7, <1>10, <1>12, <1>14, <1>15, <1>17, <2>2 DEF FormInv, RequestsOk
  <2> QED
    BY <2>1, <2>2
<1>18. ASSUME ~ raced', ~ InFlight("schema")' PROVE form'.variables = Wanted'
  <2>1. sent = {} /\ ~ InFlight("schema")
    BY <1>15, <1>18
  <2>2. CASE ask
    <3>1. g.version = None
      BY <1>14, <2>1, <2>2
    <3> QED
      BY <1>9, <1>11, <2>2, <3>1 DEF Wanted
  <2>3. CASE ~ ask
    <3>1. form.variables = Wanted /\ SchemaKey(g) = SchemaKey(form) /\ ~ again
      BY <1>7, <1>10, <1>18, <2>1, <2>3 DEF FormInv, RequestsOk
    <3>2. g.version = form.version
      BY <3>1 DEF SchemaKey
    <3>3. v = form.variables
      BY <1>3, <1>5, <1>9, <2>3, <3>1
    <3> QED
      BY <1>11, <1>12, <3>1, <3>2, <3>3 DEF Wanted
  <2> QED
    BY <2>2, <2>3
<1>19. RequestsOk'
  BY <1>15, <1>16, <1>17, <1>18 DEF RequestsOk, InFlight
<1>20. named' \subseteq Project \ listed
  BY NamedType DEF Settle, FormInv
<1> QED
  BY <1>13, <1>19, <1>20

-----------------------------------------------------------------------------
(* The handlers of the page.                                               *)

\* An empty version becomes an active one, and nothing else changes.
LEMMA AutoSelectedForm ==
    ASSUME NEW f \in Forms, PicksFit(f), NEW offered, NEW h \in AutoSelected(f, offered)
    PROVE  /\ h \in Forms /\ PicksFit(h)
           /\ h.template = f.template /\ h.picks = f.picks /\ h.project = f.project
           /\ h.workspace = f.workspace /\ h.variables = f.variables
           /\ h.lastParent = f.lastParent
           /\ h = f \/ (f.version = None /\ h.version # None)
<1>1. PICK v \in IF f.template = None \/ f.version # None \/ offered \cap Active = {}
                 THEN {f.version} ELSE offered \cap Active :
          h = [f EXCEPT !.version = v]
  BY DEF AutoSelected
<1>2. v = f.version \/ (f.version = None /\ v \in Version)
  BY <1>1, TemplatesAssumption
<1>3. None \notin Version
  BY NoneAssumption
<1> QED
  BY <1>1, <1>2, <1>3 DEF Forms, PicksFit

\* What an input makes of the selection of its parent template.
LEMMA ToggledType ==
    ASSUME NEW S, NEW s \in Seq(S), NEW r \in S
    PROVE  Toggled(s, r) \in Seq(S)
<1>1. CASE Contains(s, r)
  <2>1. PICK i : i = CHOOSE j \in DOMAIN s : s[j] = r
    OBVIOUS
  <2>2. \E j \in DOMAIN s : s[j] = r
    BY <1>1, LenProperties DEF Contains
  <2>3. i \in 1 .. Len(s)
    BY <2>1, <2>2, LenProperties
  <2>4. RemoveAt(s, i) \in Seq(S)
    BY <2>3, RemoveAtElements
  <2> QED
    BY <1>1, <2>1, <2>4 DEF Toggled
<1>2. CASE ~ Contains(s, r)
  BY <1>2, AppendProperties DEF Toggled
<1> QED
  BY <1>1, <1>2

\* The order of the options changes nothing of that.
LEMMA ShownType ==
    ASSUME NEW S, NEW s \in Seq(S), NEW q \in Shown(s)
    PROVE  q \in Seq(S)
<1>1. Len(s) \in Nat /\ DOMAIN s = 1 .. Len(s) /\ \A i \in 1 .. Len(s) : s[i] \in S
  BY LenProperties, ElementOfSeq
<1>2. q \in [1 .. Len(s) -> Range(s)]
  BY <1>1 DEF Shown
<1>3. Range(s) \subseteq S
  BY <1>1 DEF Range
<1>4. \A i \in 1 .. Len(s) : q[i] \in S
  BY <1>2, <1>3
<1>5. q = [i \in 1 .. Len(s) |-> q[i]]
  BY <1>2
<1> QED
  BY <1>1, <1>4, <1>5, IsASeq

LEMMA RepickedType ==
    ASSUME NEW S, NEW picks \in Seq(Template \X Seq(S)), NEW t \in Template, NEW r \in S,
           NEW new \in Repicked(picks, t, r)
    PROVE  new \in Seq(Template \X Seq(S))
<1>1. PICK n \in Nat : n = Len(picks) /\ DOMAIN picks = 1 .. n
  BY LenProperties
<1>2. \A i \in 1 .. n : picks[i] \in Template \X Seq(S)
  BY <1>1, ElementOfSeq
<1>3. CASE \E i \in DOMAIN picks : picks[i][1] = t
  <2>0. PICK q \in UNION {Shown(picks[j][2]) :
                                j \in {k \in DOMAIN picks : picks[k][1] = t}} :
            new = [j \in DOMAIN picks |->
                        IF picks[j][1] # t THEN picks[j] ELSE <<t, Toggled(q, r)>>]
    BY <1>3 DEF Repicked
  <2>1. PICK i \in 1 .. n : q \in Shown(picks[i][2])
    BY <1>1, <2>0
  <2>2. picks[i][2] \in Seq(S)
    BY <1>2
  <2>3. Toggled(q, r) \in Seq(S)
    BY <2>1, <2>2, ShownType, ToggledType
  <2>4. PICK P : P = Template \X Seq(S)
    OBVIOUS
  <2>5. \A j \in 1 .. n : new[j] \in P
    BY <1>1, <1>2, <2>0, <2>3, <2>4
  <2>6. new = [j \in 1 .. n |-> new[j]]
    BY <1>1, <2>0
  <2>7. new \in Seq(P)
    BY <1>1, <2>5, <2>6, IsASeq
  <2> QED
    BY <2>4, <2>7
<1>4. CASE ~ \E i \in DOMAIN picks : picks[i][1] = t
  <2>1. <<r>> \in Seq(S)
    OBVIOUS
  <2>2. <<t, <<r>> >> \in Template \X Seq(S)
    BY <2>1
  <2>3. Append(picks, <<t, <<r>> >>) \in Seq(Template \X Seq(S))
    BY <2>2, AppendProperties
  <2> QED
    BY <1>4, <2>3 DEF Repicked
<1> QED
  BY <1>3, <1>4

LEMMA UserKeeps ==
    ASSUME FormInv, User
    PROVE  FormInv'
<1>0. form \in Forms /\ PicksFit(form)
  BY DEF FormInv, FormOk
<1>1. ASSUME NEW t \in Template \cup {None}, SelectTemplate(t) PROVE FormInv'
  <2>1. PICK f : f = WithTemplate(form, t)
    OBVIOUS
  <2>2. << >> \in Seq(Pick) /\ << >> \in Seq(Template \X Seq(Fitting(t)))
    OBVIOUS
  <2>3. /\ f \in Forms /\ PicksFit(f)
        /\ f.lastParent = form.lastParent /\ f.variables = form.variables
    BY <1>0, <2>1, <2>2 DEF WithTemplate, Forms, PicksFit
  <2>4. PICK others : others = {Request(kind, t) : kind \in
                     (IF t = None THEN {} ELSE {"rules"})
                     \cup (IF Concrete(t) THEN {"versions"} ELSE {})}
                            \cup ProjectsAsked(form.template, t)
    OBVIOUS
  <2>5. others \in SUBSET Others
    <3>1. ProjectsAsked(form.template, t) \subseteq Others
      BY DEF ProjectsAsked, Others
    <3> QED
      BY <2>4, <3>1 DEF Others, Request, Concrete
  <2>6. PICK h \in AutoSelected(f, options) : Settle(h, TRUE, others)
    BY <1>1, <2>1, <2>4 DEF SelectTemplate
  <2>7. /\ h \in Forms /\ PicksFit(h)
        /\ h.lastParent = form.lastParent /\ h.variables = form.variables
    BY <2>3, <2>6, AutoSelectedForm
  <2>8. FormOk' /\ RequestsOk' /\ named' \subseteq Project \ listed
    BY <1>1, <2>5, <2>6, <2>7, SettleOk DEF SelectTemplate
  <2> QED
    BY <1>1, <2>8, BoundsAssumption DEF SelectTemplate, Edit, FormInv, RestOk
<1>2. ASSUME NEW v \in Version \cup {None}, SelectVersion(v) PROVE FormInv'
  <2>1. PICK f : f = [form EXCEPT !.version = v]
    OBVIOUS
  <2>2. /\ f \in Forms /\ PicksFit(f)
        /\ f.lastParent = form.lastParent /\ f.variables = form.variables
    BY <1>0, <2>1 DEF Forms, PicksFit
  <2>3. PICK again \in BOOLEAN : again <=> (v = None)
    OBVIOUS
  <2>4. PICK h \in AutoSelected(f, options) : Settle(h, v = None, {})
    BY <1>2, <2>1 DEF SelectVersion
  <2>5. Settle(h, again, {})
    BY <2>3, <2>4 DEF Settle, SchemaRequests
  <2>6. /\ h \in Forms /\ PicksFit(h)
        /\ h.lastParent = form.lastParent /\ h.variables = form.variables
    BY <2>2, <2>4, AutoSelectedForm
  <2>7. FormOk' /\ RequestsOk' /\ named' \subseteq Project \ listed
    BY <1>2, <2>5, <2>6, SettleOk DEF SelectVersion
  <2> QED
    BY <1>2, <2>7, BoundsAssumption DEF SelectVersion, Edit, FormInv, RestOk
<1>3. ASSUME NEW r \in Resource, SelectParent(r) PROVE FormInv'
  <2>1. r \in Fitting(form.template) /\ TemplateOf[r] \in Template
    BY <1>3, TemplatesAssumption DEF SelectParent, Fitting
  <2>2. PICK picks \in Repicked(form.picks, TemplateOf[r], r) :
            Settle([form EXCEPT !.picks = picks], FALSE, {})
    BY <1>3 DEF SelectParent
  <2>3. picks \in Seq(Template \X Seq(Fitting(form.template)))
    BY <1>0, <2>1, <2>2, RepickedType DEF PicksFit
  <2>4. picks \in Seq(Pick)
    BY <1>0, <2>1, <2>2, RepickedType DEF Forms, Pick
  <2>5. PICK f : f = [form EXCEPT !.picks = picks]
    OBVIOUS
  <2>6. /\ f \in Forms /\ PicksFit(f)
        /\ f.lastParent = form.lastParent /\ f.variables = form.variables
    BY <1>0, <2>3, <2>4, <2>5 DEF Forms, PicksFit
  <2>7. Settle(f, FALSE, {})
    BY <2>2, <2>5
  <2>8. FormOk' /\ RequestsOk' /\ named' \subseteq Project \ listed
    BY <1>3, <2>6, <2>7, SettleOk DEF SelectParent
  <2> QED
    BY <1>3, <2>8, BoundsAssumption DEF SelectParent, Edit, FormInv, RestOk
<1>4. ASSUME NEW p \in Project \cup {None}, SelectProject(p) PROVE FormInv'
  <2>1. PICK f : f = [form EXCEPT !.project = p]
    OBVIOUS
  <2>2. /\ f \in Forms /\ PicksFit(f)
        /\ f.lastParent = form.lastParent /\ f.variables = form.variables
    BY <1>0, <2>1 DEF Forms, PicksFit
  <2>3. FormOk' /\ RequestsOk' /\ named' \subseteq Project \ listed
    BY <1>4, <2>1, <2>2, SettleOk DEF SelectProject
  <2> QED
    BY <1>4, <2>3, BoundsAssumption DEF SelectProject, Edit, FormInv, RestOk
<1>5. ASSUME NEW w \in Workspace \cup {None}, SelectWorkspace(w) PROVE FormInv'
  <2>1. PICK f : f = [form EXCEPT !.workspace = w]
    OBVIOUS
  <2>2. /\ f \in Forms /\ PicksFit(f)
        /\ f.lastParent = form.lastParent /\ f.variables = form.variables
    BY <1>0, <2>1 DEF Forms, PicksFit
  <2>3. FormOk' /\ RequestsOk' /\ named' \subseteq Project \ listed
    BY <1>5, <2>1, <2>2, SettleOk DEF SelectWorkspace
  <2> QED
    BY <1>5, <2>3, BoundsAssumption DEF SelectWorkspace, Edit, FormInv, RestOk
<1>6. CASE Save
  <2>1. UNCHANGED <<form, options, listed, named, rules, loading, requests, left,
                    failures, raced>>
    BY <1>6 DEF Save
  <2>2. FormOk' /\ RequestsOk'
    BY <2>1 DEF FormInv, FormOk, RequestsOk, InFlight, Wanted, ProjectFillsWorkspace, ParentFills
  <2> QED
    BY <1>6, <2>1, <2>2, BoundsAssumption DEF Save, Edit, FormInv, RestOk
<1> QED
  BY <1>1, <1>2, <1>3, <1>4, <1>5, <1>6 DEF User

-----------------------------------------------------------------------------
(* The answers of the server.                                              *)

\* Taking an answer leaves the other requests as they were.
LEMMA Answered ==
    ASSUME FormInv, NEW q \in BagToSet(requests), NEW rest, rest = requests (-) SetToBag({q})
    PROVE  /\ IsABag(rest) /\ BagToSet(rest) \subseteq BagToSet(requests)
           /\ \A e \in BagToSet(requests) \ {q} : e \in BagToSet(rest) /\ rest[e] = requests[e]
           /\ requests[q] = 1 => q \notin BagToSet(rest)
  BY BagTakeOne DEF FormInv, RequestsOk

\* An answer about anything else than the variables.
LEMMA OtherAnswered ==
    ASSUME FormInv, NEW q \in BagToSet(requests), q.kind # "schema",
           requests' = requests (-) SetToBag({q}),
           UNCHANGED <<form, listed, loading>>, raced' = raced
    PROVE  FormOk' /\ RequestsOk'
<1>1. /\ IsABag(requests') /\ BagToSet(requests') \subseteq BagToSet(requests)
      /\ \A e \in BagToSet(requests) \ {q} :
            e \in BagToSet(requests') /\ requests'[e] = requests[e]
  BY Answered
<1>2. InFlight("schema")' <=> InFlight("schema")
  BY <1>1 DEF InFlight
<1>3. FormOk'
  BY DEF FormInv, FormOk, ProjectFillsWorkspace, ParentFills
<1>4. RequestsOk'
  BY <1>1, <1>2 DEF FormInv, RequestsOk, Wanted
<1> QED
  BY <1>3, <1>4

\* The options of a template, from which an empty version is filled.
LEMMA VersionsAnswered ==
    ASSUME FormInv, NEW q \in BagToSet(requests), AnswerVersions(q)
    PROVE  FormOk' /\ RequestsOk' /\ options' \subseteq Version
<1>1. PICK f \in AutoSelected(form, VersionsOf(q.key)) :
        /\ form' = f
        /\ requests' = (requests (-) SetToBag({q}))
                            (+) SetToBag(SchemaRequests(f, f, FALSE))
        /\ loading' = (loading \/ SchemaRequests(f, f, FALSE) # {})
        /\ raced' = IF SchemaRequests(f, f, FALSE) # {} THEN InFlight("schema") ELSE raced
  BY DEF AnswerVersions
<1>2. form \in Forms /\ PicksFit(form) /\ form.lastParent = ParentOf(form)
  BY DEF FormInv, FormOk
<1>3. /\ f \in Forms /\ PicksFit(f)
      /\ f.template = form.template /\ f.picks = form.picks /\ f.project = form.project
      /\ f.workspace = form.workspace /\ f.variables = form.variables
      /\ f.lastParent = form.lastParent
      /\ f = form \/ (form.version = None /\ f.version # None)
  BY <1>1, <1>2, AutoSelectedForm
<1>4. Selected(f) = Selected(form) /\ ParentOf(f) = ParentOf(form)
  BY <1>3 DEF Selected, ParentOf
<1>5. FormOk'
  BY <1>1, <1>2, <1>3, <1>4 DEF FormInv, FormOk, ProjectFillsWorkspace, ParentFills,
                                AnswerVersions
<1>6. PICK sent : sent = SchemaRequests(f, f, FALSE)
  OBVIOUS
<1>7. sent \subseteq {Request("schema", SchemaKey(f))}
  BY <1>6 DEF SchemaRequests
<1>8. sent \subseteq Schemas
  <2>1. SchemaKey(f) \in Keys /\ SchemaKey(f).version = f.version
    BY <1>3, PicksType DEF SchemaKey
  <2>2. sent # {} => f.version # None
    BY <1>6 DEF SchemaRequests
  <2> QED
    BY <1>7, <2>1, <2>2 DEF Schemas, Request
<1>9. sent = {} => f = form
  <2> SUFFICES ASSUME f # form PROVE sent # {}
    OBVIOUS
  <2>1. f.version # None /\ f.version # form.version
    BY <1>3
  <2>2. SchemaKey(f) # SchemaKey(form)
    BY <2>1 DEF SchemaKey
  <2> QED
    BY <1>6, <2>1, <2>2 DEF SchemaRequests
<1>10. PICK rest : rest = requests (-) SetToBag({q})
  OBVIOUS
<1>11. /\ IsABag(rest) /\ BagToSet(rest) \subseteq BagToSet(requests)
       /\ \A e \in BagToSet(requests) \ {q} : e \in BagToSet(rest) /\ rest[e] = requests[e]
  BY <1>10, Answered
<1>12. requests' = rest (+) SetToBag(sent)
  BY <1>1, <1>6, <1>10
<1>13. /\ IsABag(requests') /\ BagToSet(requests') = BagToSet(rest) \cup sent
       /\ \A e \in sent \ BagToSet(rest) : requests'[e] = 1
       /\ \A e \in BagToSet(rest) \ sent : requests'[e] = rest[e]
  BY <1>11, <1>12, BagAddAll
<1>14. q.kind # "schema" /\ \A e \in sent : e.kind = "schema"
  BY <1>8 DEF AnswerVersions, Schemas
<1>15. InFlight("schema")' <=> InFlight("schema") \/ sent # {}
  BY <1>11, <1>13, <1>14 DEF InFlight
<1>16. /\ loading' = (loading \/ sent # {})
       /\ raced' = IF sent # {} THEN InFlight("schema") ELSE raced
  BY <1>1, <1>6
<1>17. BagToSet(requests') \subseteq Others \cup Schemas
  BY <1>8, <1>11, <1>13 DEF FormInv, RequestsOk
<1>18. CASE sent = {}
  <2>1. form' = form /\ loading' = loading /\ raced' = raced
    BY <1>1, <1>9, <1>16, <1>18 DEF FormInv, RequestsOk
  <2>2. Wanted' = Wanted
    BY <2>1 DEF Wanted
  <2>3. \A e \in BagToSet(requests') : e.kind = "schema" =>
            e \in BagToSet(requests) /\ requests'[e] = requests[e]
    BY <1>11, <1>13, <1>14, <1>18
  <2> QED
    BY <1>5, <1>13, <1>15, <1>17, <1>18, <2>1, <2>2, <2>3
       DEF FormInv, RequestsOk, AnswerVersions, VersionsOf
<1>19. CASE sent # {}
  <2>1. loading' = TRUE /\ raced' = InFlight("schema") /\ InFlight("schema")'
    BY <1>15, <1>16, <1>19 DEF FormInv, RequestsOk
  <2>2. InFlight("schema") \in BOOLEAN
    BY DEF InFlight
  <2>3. ASSUME ~ InFlight("schema"), NEW e \in BagToSet(requests'), e.kind = "schema"
        PROVE  e = Request("schema", SchemaKey(f)) /\ requests'[e] = 1
    BY <1>7, <1>11, <1>13, <2>3 DEF InFlight
  <2>4. RequestsOk'
    BY <1>1, <1>13, <1>17, <2>1, <2>2, <2>3 DEF RequestsOk
  <2> QED
    BY <1>5, <2>4 DEF AnswerVersions, VersionsOf
<1> QED
  BY <1>18, <1>19

\* The variables: those of the form, unless something overtook the answer.
LEMMA SchemaAnswered ==
    ASSUME FormInv, NEW q \in BagToSet(requests), AnswerSchema(q)
    PROVE  FormOk' /\ RequestsOk'
<1>1. /\ IsABag(requests') /\ BagToSet(requests') \subseteq BagToSet(requests)
      /\ requests[q] = 1 => q \notin BagToSet(requests')
  BY Answered DEF AnswerSchema
<1>2. q.kind = "schema" /\ q.key \in Keys /\ q.key.version # None
  BY DEF AnswerSchema, FormInv, RequestsOk, Others, Schemas, Request
<1>3. /\ form' = [form EXCEPT !.variables = q.key]
      /\ loading' = FALSE /\ raced' = raced
  BY DEF AnswerSchema
<1>4. form \in Forms
  BY DEF FormInv, FormOk
<1>5. /\ form' \in Forms /\ form'.variables = q.key
      /\ form'.template = form.template /\ form'.version = form.version
      /\ form'.picks = form.picks /\ form'.project = form.project
      /\ form'.workspace = form.workspace /\ form'.lastParent = form.lastParent
  BY <1>2, <1>3, <1>4 DEF Forms
<1>6. /\ Selected(form') = Selected(form) /\ ParentOf(form') = ParentOf(form)
      /\ SchemaKey(form') = SchemaKey(form)
  BY <1>5, SameKey
<1>7. FormOk'
  BY <1>5, <1>6 DEF FormInv, FormOk, PicksFit, ProjectFillsWorkspace, ParentFills, AnswerSchema
<1>8. ASSUME ~ raced PROVE ~ InFlight("schema")' /\ form'.variables = Wanted'
  <2>1. InFlight("schema")
    BY <1>2 DEF InFlight
  <2>2. \A e \in BagToSet(requests) : e.kind = "schema" =>
            e = Request("schema", SchemaKey(form)) /\ requests[e] = 1
    BY <1>8, <2>1 DEF FormInv, RequestsOk
  <2>3. q = Request("schema", SchemaKey(form)) /\ q \notin BagToSet(requests')
    BY <1>1, <1>2, <2>2
  <2>4. ~ InFlight("schema")'
    BY <1>1, <2>2, <2>3 DEF InFlight
  <2>5. q.key = SchemaKey(form) /\ form.version # None
    BY <1>2, <2>3 DEF Request, SchemaKey
  <2> QED
    BY <1>5, <1>6, <2>4, <2>5 DEF Wanted
<1>9. RequestsOk'
  BY <1>1, <1>3, <1>8 DEF FormInv, RequestsOk
<1> QED
  BY <1>7, <1>9

\* An error takes the request away, and nothing else.
LEMMA ErrorAnswered ==
    ASSUME FormInv, NEW q \in BagToSet(requests), AnswerError(q)
    PROVE  FormOk' /\ RequestsOk'
<1>1. CASE q.kind # "schema"
  <2>1. loading' = loading /\ raced' = raced /\ form' = form
    BY <1>1 DEF AnswerError, FormInv, RequestsOk
  <2> QED
    BY <1>1, <2>1, OtherAnswered DEF AnswerError
<1>2. CASE q.kind = "schema"
  <2>1. IsABag(requests') /\ BagToSet(requests') \subseteq BagToSet(requests)
    BY Answered DEF AnswerError
  <2>2. loading' = FALSE /\ raced' = TRUE /\ form' = form
    BY <1>2 DEF AnswerError
  <2>3. FormOk'
    BY <2>2 DEF FormInv, FormOk, ProjectFillsWorkspace, ParentFills, AnswerError
  <2>4. RequestsOk'
    BY <2>1, <2>2 DEF FormInv, RequestsOk
  <2> QED
    BY <2>3, <2>4
<1> QED
  BY <1>1, <1>2

\* The projects: the one selected may be among them.
LEMMA ProjectsAnswered ==
    ASSUME FormInv, NEW q \in BagToSet(requests), AnswerProjects(q)
    PROVE  FormOk' /\ RequestsOk'
<1>1. /\ IsABag(requests') /\ BagToSet(requests') \subseteq BagToSet(requests)
      /\ \A e \in BagToSet(requests) \ {q} :
            e \in BagToSet(requests') /\ requests'[e] = requests[e]
  BY Answered DEF AnswerProjects
<1>2. form \in Forms /\ PicksFit(form) /\ InRange \in SUBSET Project
  BY InheritanceAssumption DEF FormInv, FormOk
<1>3. PICK f : f = form
  OBVIOUS
<1>4. PICK g : g = Filled(f, f, InRange)
  OBVIOUS
<1>5. /\ g \in Forms
      /\ g.template = f.template /\ g.version = f.version /\ g.picks = f.picks
      /\ g.project = f.project /\ g.variables = f.variables
      /\ g.lastParent = f.lastParent
      /\ g.project \in InRange /\ WorkspaceOf[g.project] # None /\ ~ ParentFills(f)
         => g.workspace # None
  BY <1>2, <1>3, <1>4, FilledForm
<1>6. form' = g /\ listed' = InRange /\ loading' = loading /\ raced' = raced
  BY <1>3, <1>4 DEF AnswerProjects
<1>7. Selected(g) = Selected(f) /\ ParentOf(g) = ParentOf(f) /\ SchemaKey(g) = SchemaKey(f)
  BY <1>5, SameKey
<1>8. ParentFills(g) = ParentFills(f)
  BY <1>7 DEF ParentFills
<1>9. FormOk'
  BY <1>2, <1>3, <1>5, <1>6, <1>7, <1>8
     DEF FormInv, FormOk, PicksFit, ProjectFillsWorkspace, ParentFills
<1>10. q.kind # "schema"
  BY DEF AnswerProjects
<1>11. InFlight("schema")' <=> InFlight("schema")
  BY <1>1, <1>10 DEF InFlight
<1>12. Wanted' = Wanted
  BY <1>3, <1>5, <1>6, <1>7 DEF Wanted
<1>13. RequestsOk'
  BY <1>1, <1>3, <1>5, <1>6, <1>7, <1>10, <1>11, <1>12 DEF FormInv, RequestsOk
<1> QED
  BY <1>9, <1>13

LEMMA AnswerKeeps ==
    ASSUME FormInv, Answer
    PROVE  FormInv'
<1>1. PICK q \in BagToSet(requests) :
        \/ AnswerVersions(q) \/ AnswerProjects(q) \/ AnswerRules(q)
        \/ AnswerSchema(q) \/ AnswerError(q)
  BY DEF Answer
<1>2. UNCHANGED <<saving, left, edits>>
  BY DEF Answer
<1>3. CASE AnswerVersions(q)
  <2>1. UNCHANGED <<listed, named, rules, failures>>
    BY <1>3 DEF AnswerVersions
  <2> QED
    BY <1>2, <1>3, <2>1, VersionsAnswered DEF FormInv, RestOk
<1>4. CASE AnswerRules(q)
  <2>1. q.kind = "rules" /\ q.key \in Template
    BY <1>4 DEF AnswerRules, FormInv, RequestsOk, Others, Schemas, Request
  <2>2. FormOk' /\ RequestsOk'
    BY <1>4, <2>1, OtherAnswered DEF AnswerRules
  <2> QED
    BY <1>2, <1>4, <2>1, <2>2 DEF AnswerRules, FormInv, RestOk
<1>5. CASE AnswerSchema(q)
  BY <1>2, <1>5, SchemaAnswered DEF AnswerSchema, FormInv, RestOk
<1>6. CASE AnswerError(q)
  BY <1>2, <1>6, ErrorAnswered, BoundsAssumption DEF AnswerError, Fail, FormInv, RestOk
<1>7. CASE AnswerProjects(q)
  <2>1. listed' \subseteq Project /\ named' \subseteq Project \ listed'
    BY <1>7, InheritanceAssumption DEF AnswerProjects
  <2> QED
    BY <1>2, <1>7, <2>1, ProjectsAnswered DEF AnswerProjects, FormInv, RestOk
<1> QED
  BY <1>1, <1>3, <1>4, <1>5, <1>6, <1>7

-----------------------------------------------------------------------------
(* The theorems.                                                           *)

LEMMA FormStart == Init => FormInv
<1> SUFFICES ASSUME Init PROVE FormInv
  OBVIOUS
<1>1. form \in Forms /\ form.picks = << >> /\ form.template = None
  BY DEF Init, Forms
<1>2. PicksFit(form)
  BY <1>1 DEF PicksFit
<1>3. Selected(form) = << >>
  BY <1>1, <1>2, PicksType
<1>4. FormOk
  BY <1>1, <1>2, <1>3 DEF Init, FormOk, ParentOf, ProjectFillsWorkspace, ParentFills
<1>5. IsABag(requests) /\ BagToSet(requests) = {}
  BY DEF Init, EmptyBag, SetToBag, IsABag, BagToSet
<1>6. RequestsOk
  BY <1>5 DEF Init, RequestsOk, InFlight, Wanted
<1>7. RestOk
  <2>1. /\ options = {} /\ listed = {} /\ named = {} /\ rules = None /\ saving = 0
        /\ left = FALSE /\ edits = 0 /\ failures = 0
    BY DEF Init
  <2>2. edits \in 0 .. MaxEdits /\ failures \in 0 .. MaxFailures
    BY <2>1, BoundsAssumption
  <2> QED
    BY <2>1, <2>2 DEF RestOk
<1> QED
  BY <1>4, <1>6, <1>7 DEF FormInv

LEMMA FormKept == FormInv /\ [Next]_vars => FormInv'
<1> SUFFICES ASSUME FormInv, [Next]_vars PROVE FormInv'
  OBVIOUS
<1>1. CASE User
  BY <1>1, UserKeeps
<1>2. CASE Saved
  <2>1. UNCHANGED <<form, options, listed, named, rules, loading, requests, edits, raced>>
    BY <1>2 DEF Saved
  <2>2. FormOk' /\ RequestsOk'
    BY <2>1 DEF FormInv, FormOk, RequestsOk, InFlight, Wanted, ProjectFillsWorkspace, ParentFills
  <2>3. failures' \in 0 .. MaxFailures /\ left' \in BOOLEAN /\ saving' \in Nat
    <3>1. failures \in 0 .. MaxFailures /\ left \in BOOLEAN /\ saving \in Nat
      BY DEF FormInv, RestOk
    <3>2. saving > 0 /\ saving' = saving - 1
      BY <1>2 DEF Saved
    <3>3. left' \in BOOLEAN
      BY <1>2, <3>1 DEF Saved
    <3>4. failures' \in 0 .. MaxFailures
      BY <1>2, <3>1, BoundsAssumption DEF Saved, Fail
    <3> QED
      BY <3>1, <3>2, <3>3, <3>4
  <2>4. RestOk'
    BY <2>1, <2>3 DEF FormInv, RestOk
  <2> QED
    BY <2>2, <2>4 DEF FormInv
<1>3. CASE Answer
  BY <1>3, AnswerKeeps
<1>4. CASE UNCHANGED vars
  BY <1>4 DEF vars, FormInv, FormOk, RequestsOk, RestOk, InFlight, Wanted,
              ProjectFillsWorkspace, ParentFills
<1> QED
  BY <1>1, <1>2, <1>3, <1>4 DEF Next

LEMMA FormAlways == Spec => []FormInv
  BY FormStart, FormKept, PTL DEF Spec

\* Every field of the page keeps its type, and a request asks for what it can
\* ask for, whatever the user does and in whatever order the answers come.
THEOREM TypeCorrect == Spec => []TypeOK
<1>1. FormInv => TypeOK
  BY DEF FormInv, FormOk, RequestsOk, RestOk, TypeOK, Forms, Others, Schemas
<1> QED
  BY <1>1, FormAlways, PTL

\* Once answered, the variables of the form are those of the version, the
\* parents and the project selected, for any number of requests in flight.
THEOREM VariablesFollow == Spec => []VariablesFit
<1>1. FormInv => VariablesFit
  BY DEF FormInv, RequestsOk, VariablesFit
<1> QED
  BY <1>1, FormAlways, PTL

\* The spinner turns exactly while variables are awaited, unless two requests
\* for them overlapped, and then it may only be missing.
THEOREM SpinnerIsHonest == Spec => []LoadingIsHonest
<1>1. FormInv => LoadingIsHonest
  BY DEF FormInv, RequestsOk, LoadingIsHonest
<1> QED
  BY <1>1, FormAlways, PTL

\* What is selected as a parent is always of a template the form's template
\* allows: no parent of another template is ever sent.
THEOREM ParentsFollow == Spec => []ParentsFit
<1>1. FormInv => ParentsFit
  <2> SUFFICES ASSUME FormInv, NEW r \in Range(Selected(form))
               PROVE  form.template # None /\ TemplateOf[r] \in ParentsOf[form.template]
    BY DEF ParentsFit
  <2>1. Selected(form) \in Seq(Fitting(form.template))
    BY PicksType DEF FormInv, FormOk
  <2>2. PICK i \in DOMAIN Selected(form) : r = Selected(form)[i]
    BY DEF Range
  <2>3. r \in Fitting(form.template)
    BY <2>1, <2>2, ElementOfSeq, LenProperties
  <2> QED
    BY <2>3 DEF Fitting
<1> QED
  BY <1>1, FormAlways, PTL

\* A project that the page has listed, and that has a workspace, always fills it
\* in where no parent does, whenever the list came and whatever was selected
\* before.
THEOREM WorkspaceFollows == Spec => []ProjectFillsWorkspace
<1>1. FormInv => ProjectFillsWorkspace
  BY DEF FormInv, FormOk
<1> QED
  BY <1>1, FormAlways, PTL
=============================================================================
