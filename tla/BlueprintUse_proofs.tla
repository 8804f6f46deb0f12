-------------------------- MODULE BlueprintUse_proofs --------------------------
(***************************************************************************)
(* Theorems about BlueprintUse, for every blueprint, every set of versions *)
(* and resources, and every bound.                                         *)
(***************************************************************************)
EXTENDS BlueprintUse, Induction, SequenceTheorems, TLAPS

-----------------------------------------------------------------------------
(* Type correctness.                                                       *)

Choice == [Template -> Version \cup {None}]
Value == {Absent, Blank, Spaces, Typed} \cup FromSchema
Values == [Template -> [Var -> Value]]
Load == [selected : Choice, parents : Parents]

FormType ==
    form \in [parents : Parents, selected : Choice, values : Values,
              constants : [Constant -> {Blank, Typed}]]

\* A version is only selected for the template it is of.
OwnVersions == \A t \in Template : form.selected[t] # None => TemplateOf[form.selected[t]] = t

PageType ==
    /\ FormType /\ OwnVersions
    /\ schemas \in [Template -> [version : Version \cup {None}, parents : Parents,
                                 failed : BOOLEAN]]
    /\ loads \in Seq(Load)
    /\ listings \in Nat /\ listed \in BOOLEAN /\ created \in BOOLEAN
    /\ answered \in BOOLEAN /\ overtaken \in BOOLEAN

SentType ==
    sent # None => sent.overrides \in [Template -> [Var -> {Absent, Spaces, Typed} \cup FromSchema]]

TypeInv == PageType /\ SentType

\* The page opens well typed.
LEMMA InitTypeInv == Init => TypeInv
<1> SUFFICES ASSUME Init PROVE TypeInv
  OBVIOUS
<1>1. NoParents \in Parents /\ NoValues \in [Var -> Value]
  BY DEF NoParents, Parents, NoValues, Value
<1>2. FormType
  BY <1>1, Zenon DEF Init, FormType, Choice, Values
<1>3. OwnVersions
  BY DEF Init, OwnVersions
<1>4. schemas \in [Template -> [version : Version \cup {None}, parents : Parents,
                                failed : BOOLEAN]]
  BY <1>1 DEF Init, NoSchema
<1>5. listings \in Nat /\ listed \in BOOLEAN /\ created \in BOOLEAN
  BY DEF Init
<1>6. loads \in Seq(Load) /\ sent = None
  BY DEF Init
<1>7. answered \in BOOLEAN /\ overtaken \in BOOLEAN
  BY Zenon DEF Init
<1> QED
  BY <1>2, <1>3, <1>4, <1>5, <1>6, <1>7 DEF TypeInv, PageType, SentType

\* A render asks for the variables of what is selected; with nothing selected
\* it asks for nothing.
LEMMA RenderAsks ==
    ASSUME PageType, NEW g, Render(g), g.selected \in Choice, g.parents \in Parents
    PROVE  /\ loads' \in Seq(Load) /\ answered' \in BOOLEAN
           /\ IF \E t \in Template : g.selected[t] # None
              THEN /\ Len(loads') = Len(loads) + 1 /\ ~answered'
                   /\ loads'[Len(loads')] = [selected |-> g.selected, parents |-> g.parents]
              ELSE UNCHANGED <<loads, answered>>
<1> DEFINE l == [selected |-> g.selected, parents |-> g.parents]
<1>1. loads \in Seq(Load) /\ answered \in BOOLEAN
  BY DEF PageType
<1>2. loads' = loads \o Loads(form, g) /\ answered' = (answered /\ Loads(form, g) = << >>)
  BY DEF Render
<1>3. CASE \E t \in Template : g.selected[t] # None
  <2>1. Loads(form, g) = << l >>
    BY <1>3 DEF Loads
  <2>2. l \in Load
    BY DEF Load
  <2> HIDE DEF l
  <2>3. << l >> # << >>
    OBVIOUS
  <2>4. answered' = FALSE
    BY <1>2, <2>1, <2>3, Zenon
  <2>5. /\ loads' \in Seq(Load) /\ Len(loads') = Len(loads) + 1
        /\ loads'[Len(loads) + 1] = l
    BY <1>1, <1>2, <2>1, <2>2, AppendElements
  <2> QED
    BY <1>3, <2>4, <2>5 DEF l
<1>4. CASE ~(\E t \in Template : g.selected[t] # None)
  <2>1. Loads(form, g) = << >>
    BY <1>4, Zenon DEF Loads
  <2>2. loads' = loads
    BY <1>1, <1>2, <2>1, ConcatEmptySeq
  <2>3. answered' = answered
    BY <1>1, <1>2, <2>1
  <2> QED
    BY <1>1, <1>4, <2>2, <2>3
<1> QED
  BY <1>3, <1>4

\* What the user changes in the form.
LEMMA EditType ==
    ASSUME PageType,
           \/ \E p \in External : \E R \in SUBSET Resource : SelectParents(p, R)
           \/ \E t \in Template : \E v \in {w \in Version : TemplateOf[w] = t} \cup {None} :
                PickVersion(t, v)
           \/ \E t \in Template : \E x \in Var : \E v \in {Typed, Blank, Spaces} : TypeValue(t, x, v)
           \/ \E c \in Constant : \E v \in {Typed, Blank} : TypeConstant(c, v)
    PROVE  PageType'
<1>1. ASSUME NEW p \in External, NEW R \in SUBSET Resource, SelectParents(p, R) PROVE PageType'
  <2> DEFINE g == [form EXCEPT !.parents[p] = R]
  <2>1. /\ Render(g) /\ form' = g
        /\ listings' = listings + Listings(form, g)
        /\ UNCHANGED <<listed, schemas, created, overtaken>>
    BY <1>1 DEF SelectParents, Render, Editing
  <2>2. /\ g \in [parents : Parents, selected : Choice, values : Values,
                  constants : [Constant -> {Blank, Typed}]]
        /\ g.selected = form.selected
    BY DEF PageType, FormType, Parents
  <2>3. listings' \in Nat
    BY <2>1 DEF PageType, Listings
  <2> HIDE DEF g
  <2>4. loads' \in Seq(Load) /\ answered' \in BOOLEAN
    BY <2>1, <2>2, RenderAsks
  <2> QED
    BY <2>1, <2>2, <2>3, <2>4 DEF PageType, FormType, OwnVersions
<1>2. ASSUME NEW t \in Template, NEW v \in {w \in Version : TemplateOf[w] = t} \cup {None},
             PickVersion(t, v)
      PROVE  PageType'
  <2> DEFINE g == Picked(form, t, v)
  <2>1. Render(g) /\ form' = g /\ UNCHANGED <<listed, schemas, listings, created, overtaken>>
    BY <1>2 DEF PickVersion, Render, Editing
  <2>2. NoValues \in [Var -> Value]
    BY DEF NoValues, Value
  <2>3. /\ g \in [parents : Parents, selected : Choice, values : Values,
                  constants : [Constant -> {Blank, Typed}]]
        /\ g.selected = [form.selected EXCEPT ![t] = v]
    BY <2>2 DEF PageType, FormType, Picked, Choice, Values
  <2>4. \A u \in Template : g.selected[u] # None => TemplateOf[g.selected[u]] = u
    BY <2>3 DEF PageType, FormType, OwnVersions, Choice
  <2> HIDE DEF g
  <2>5. loads' \in Seq(Load) /\ answered' \in BOOLEAN
    BY <2>1, <2>3, RenderAsks
  <2> QED
    BY <2>1, <2>3, <2>4, <2>5 DEF PageType, FormType, OwnVersions
<1>3. ASSUME NEW t \in Template, NEW x \in Var, NEW v \in {Typed, Blank, Spaces}, TypeValue(t, x, v)
      PROVE  PageType'
  <2>1. /\ form' = [form EXCEPT !.values[t][x] = v]
        /\ UNCHANGED <<listed, schemas, listings, loads, answered, created, overtaken>>
    BY <1>3 DEF TypeValue, Editing
  <2>2. FormType' /\ form'.selected = form.selected
    BY <2>1 DEF PageType, FormType, Values, Value
  <2> QED
    BY <2>1, <2>2 DEF PageType, OwnVersions
<1>4. ASSUME NEW c \in Constant, NEW v \in {Typed, Blank}, TypeConstant(c, v) PROVE PageType'
  <2>1. /\ form' = [form EXCEPT !.constants[c] = v]
        /\ UNCHANGED <<listed, schemas, listings, loads, answered, created, overtaken>>
    BY <1>4 DEF TypeConstant, Editing
  <2>2. FormType' /\ form'.selected = form.selected
    BY <2>1 DEF PageType, FormType
  <2> QED
    BY <2>1, <2>2 DEF PageType, OwnVersions
<1> QED
  BY <1>1, <1>2, <1>3, <1>4

\* The schemas of an answer, and the defaults they bring.
LEMMA AnswerType ==
    ASSUME NEW l \in Load, NEW failed \in SUBSET Template, NEW values \in Values
    PROVE  /\ Answer(l, failed) \in [Template -> [version : Version \cup {None},
                                                  parents : Parents, failed : BOOLEAN]]
           /\ WithDefaults(values, Answer(l, failed)) \in Values
<1> DEFINE a == Answer(l, failed)
<1>1. NoParents \in Parents
  BY DEF NoParents, Parents
<1>2. a \in [Template -> [version : Version \cup {None}, parents : Parents, failed : BOOLEAN]]
  BY <1>1 DEF Answer, NoSchema, Load, Choice
<1> HIDE DEF a
<1>3. \A t \in Template : a[t].version # None =>
        [version |-> a[t].version, parents |-> a[t].parents] \in Value
  BY <1>2 DEF Value, FromSchema
<1>4. \A t \in Template : \A x \in Var : values[t][x] \in Value
  BY DEF Values
<1>5. WithDefaults(values, a) \in Values
  BY <1>3, <1>4, Zenon DEF WithDefaults, Values
<1> QED
  BY <1>2, <1>5 DEF a

\* Answers of the server.
LEMMA AnswerStepType ==
    ASSUME PageType, Listed \/ ListingFails \/ Loaded
    PROVE  PageType'
<1>1. CASE Listed
  <2> DEFINE g == [form EXCEPT !.selected = Latest]
  <2>1. /\ Render(g) /\ form' = g /\ listings' = listings - 1 /\ listings > 0 /\ listed' = TRUE
        /\ UNCHANGED <<schemas, created, overtaken>>
    BY <1>1 DEF Listed, Render
  <2>2. /\ Latest \in Choice
        /\ \A t \in Template : Latest[t] # None => TemplateOf[Latest[t]] = t
    BY UseAssumption DEF Choice
  <2>3. /\ g \in [parents : Parents, selected : Choice, values : Values,
                  constants : [Constant -> {Blank, Typed}]]
        /\ g.selected = Latest
    BY <2>2 DEF PageType, FormType
  <2>4. listings' \in Nat
    BY <2>1 DEF PageType
  <2> HIDE DEF g
  <2>5. loads' \in Seq(Load) /\ answered' \in BOOLEAN
    BY <2>1, <2>3, RenderAsks
  <2> QED
    BY <2>1, <2>2, <2>3, <2>4, <2>5 DEF PageType, FormType, OwnVersions
<1>2. CASE ListingFails
  <2>1. listings' \in Nat
    BY <1>2 DEF ListingFails, PageType
  <2> QED
    BY <1>2, <2>1 DEF ListingFails, PageType, FormType, OwnVersions
<1>3. CASE Loaded
  <2>1. PICK i \in DOMAIN loads :
          /\ loads' = RemoveAt(loads, i)
          /\ overtaken' = (answered \/ i < Len(loads))
          /\ answered' = (answered \/ i = Len(loads))
          /\ \E failed \in SUBSET {t \in Template : loads[i].selected[t] # None} :
                /\ schemas' = Answer(loads[i], failed)
                /\ form' = [form EXCEPT !.values = WithDefaults(@, Answer(loads[i], failed))]
          /\ UNCHANGED <<listed, listings, created>>
    BY <1>3 DEF Loaded
  <2>2. i \in 1 .. Len(loads) /\ loads[i] \in Load /\ loads \in Seq(Load)
    BY DEF PageType
  <2>3. PICK failed \in SUBSET Template :
          /\ schemas' = Answer(loads[i], failed)
          /\ form' = [form EXCEPT !.values = WithDefaults(form.values, Answer(loads[i], failed))]
    BY <2>1
  <2>4. form.values \in Values
    BY DEF PageType, FormType
  <2>5. /\ schemas' \in [Template -> [version : Version \cup {None}, parents : Parents,
                                      failed : BOOLEAN]]
        /\ WithDefaults(form.values, Answer(loads[i], failed)) \in Values
    BY <2>2, <2>3, <2>4, AnswerType
  <2>6. FormType' /\ form'.selected = form.selected
    BY <2>3, <2>5 DEF PageType, FormType
  <2>7. loads' \in Seq(Load)
    BY <2>1, <2>2, RemoveAtElements
  <2>8. answered' \in BOOLEAN /\ overtaken' \in BOOLEAN
    BY <2>1 DEF PageType
  <2> QED
    BY <2>1, <2>5, <2>6, <2>7, <2>8 DEF PageType, OwnVersions
<1> QED
  BY <1>1, <1>2, <1>3

\* What is sent: neither a field that was emptied nor anything of another type.
LEMMA OverridesType ==
    ASSUME NEW f, f.values \in Values
    PROVE  Overrides(f) \in [Template -> [Var -> {Absent, Spaces, Typed} \cup FromSchema]]
<1> SUFFICES ASSUME NEW t \in Template, NEW x \in Var
             PROVE  (IF \E c \in Constant : <<t, x>> \in Wire[c] /\ f.constants[c] = Typed
                     THEN Typed
                     ELSE IF f.values[t][x] = Blank THEN Absent ELSE f.values[t][x])
                       \in {Absent, Spaces, Typed} \cup FromSchema
  BY Zenon DEF Overrides
<1>1. f.values[t][x] \in {Absent, Blank, Spaces, Typed} \cup FromSchema
  BY DEF Values, Value
<1> QED
  BY <1>1

\* Every step keeps the types.
LEMMA NextTypeInv == TypeInv /\ [Next]_vars => TypeInv'
<1> SUFFICES ASSUME TypeInv, [Next]_vars PROVE TypeInv'
  OBVIOUS
<1>1. PageType /\ SentType
  BY DEF TypeInv
<1>2. CASE \/ \E p \in External : \E R \in SUBSET Resource : SelectParents(p, R)
           \/ \E t \in Template : \E v \in {w \in Version : TemplateOf[w] = t} \cup {None} :
                PickVersion(t, v)
           \/ \E t \in Template : \E x \in Var : \E v \in {Typed, Blank, Spaces} : TypeValue(t, x, v)
           \/ \E c \in Constant : \E v \in {Typed, Blank} : TypeConstant(c, v)
  <2>1. PageType'
    BY <1>1, <1>2, EditType
  <2>2. UNCHANGED sent
    BY <1>2 DEF SelectParents, PickVersion, TypeValue, TypeConstant, Editing
  <2> QED
    BY <1>1, <2>1, <2>2 DEF TypeInv, SentType
<1>3. CASE Listed \/ ListingFails \/ Loaded
  <2>1. PageType'
    BY <1>1, <1>3, AnswerStepType
  <2>2. UNCHANGED sent
    BY <1>3 DEF Listed, ListingFails, Loaded
  <2> QED
    BY <1>1, <2>1, <2>2 DEF TypeInv, SentType
<1>4. CASE Submit
  <2>1. PageType'
    BY <1>1, <1>4 DEF Submit, PageType, FormType, OwnVersions
  <2>2. form.values \in Values
    BY <1>1 DEF PageType, FormType
  <2>3. sent'.overrides = Overrides(form)
    BY <1>4 DEF Submit
  <2>4. SentType'
    BY <2>2, <2>3, OverridesType DEF SentType
  <2> QED
    BY <2>1, <2>4 DEF TypeInv
<1>5. CASE Created \/ CreationFails
  <2>1. created' \in BOOLEAN /\ (sent' = sent \/ sent' = None)
    BY <1>1, <1>5 DEF Created, CreationFails, PageType
  <2>2. UNCHANGED <<form, listed, schemas, listings, loads, answered, overtaken>>
    BY <1>5 DEF Created, CreationFails
  <2> QED
    BY <1>1, <2>1, <2>2 DEF TypeInv, PageType, FormType, OwnVersions, SentType
<1>6. CASE UNCHANGED vars
  BY <1>1, <1>6 DEF TypeInv, PageType, FormType, OwnVersions, SentType, vars
<1> QED
  BY <1>2, <1>3, <1>4, <1>5, <1>6 DEF Next

\* Every part of the page keeps its type, and nothing empty is sent.
THEOREM TypeCorrect == Spec => []TypeOK
<1>1. TypeInv => TypeOK
  BY DEF TypeInv, PageType, SentType, FormType, Choice, Values, Value, TypeOK
<1> QED
  BY <1>1, InitTypeInv, NextTypeInv, PTL DEF Spec

-----------------------------------------------------------------------------
(* What is sent.                                                           *)

\* What the guard of the button promises of what is sent.
LEMMA SubmitComplete == TypeInv /\ Submit => SentIsComplete'
<1> SUFFICES ASSUME TypeInv, Submit PROVE SentIsComplete'
  OBVIOUS
<1>1. /\ sent'.versions = form.selected /\ sent'.parents = form.parents
      /\ sent'.overrides = Overrides(form)
  BY DEF Submit
<1>2. /\ AllParentsResolved(form) /\ HasAllVersions(form) /\ AllConstantsFilled(form)
  BY DEF Submit, CanSubmit
<1>3. \A t \in Template : form.selected[t] # None /\ TemplateOf[form.selected[t]] = t
  BY <1>2 DEF HasAllVersions, TypeInv, PageType, OwnVersions
<1>4. \A t \in Template : \A p \in Missing[t] : form.parents[p] # {}
  BY <1>2 DEF AllParentsResolved
<1>5. Accepted(Overrides(form))
  <2> SUFFICES ASSUME NEW c \in Constant, NEW w \in Wire[c]
               PROVE  Overrides(form)[w[1]][w[2]] # Absent
    BY DEF Accepted
  <2>1. w[1] \in Template /\ w[2] \in Var /\ <<w[1], w[2]>> = w
    BY UseAssumption
  <2>2. \E d \in Constant : <<w[1], w[2]>> \in Wire[d] /\ form.constants[d] = Typed
    BY <1>2, <2>1 DEF AllConstantsFilled
  <2>3. Overrides(form)[w[1]][w[2]] = Typed
    BY <2>1, <2>2 DEF Overrides
  <2> QED
    BY <2>3, EmptyAssumption
<1> QED
  BY <1>1, <1>3, <1>4, <1>5 DEF SentIsComplete

\* Whatever was selected before, what is sent is complete and the server's check
\* of the constants accepts it (BlueprintService._validate_constants).
THEOREM OnlyCompleteIsSent == Spec => []SentIsComplete
<1>1. Init => SentIsComplete
  BY DEF Init, SentIsComplete
<1>2. TypeInv /\ SentIsComplete /\ [Next]_vars => SentIsComplete'
  <2> SUFFICES ASSUME TypeInv, SentIsComplete, [Next]_vars PROVE SentIsComplete'
    OBVIOUS
  <2>1. Submit \/ sent' = sent \/ sent' = None
    BY DEF Next, vars, SelectParents, PickVersion, TypeValue, TypeConstant, Editing, Listed,
           ListingFails, Loaded, Created, CreationFails
  <2>2. CASE sent' = sent \/ sent' = None
    BY <2>2 DEF SentIsComplete, Accepted
  <2> QED
    BY <2>1, <2>2, SubmitComplete
<1> QED
  BY <1>1, <1>2, InitTypeInv, NextTypeInv, PTL DEF Spec

-----------------------------------------------------------------------------
(* The fields and the choice.                                              *)

Chosen == \E t \in Template : form.selected[t] # None

Request == [selected |-> form.selected, parents |-> form.parents]

\* The fields of one template are those of its version and the parents.
FitsAt(t) ==
    LET s == [version |-> form.selected[t], parents |-> form.parents]
    IN  /\ schemas[t].version = s.version /\ schemas[t].parents = s.parents
        /\ \A x \in Default[s.version] : form.values[t][x] \in {Blank, Spaces, Typed, s}

Fits == \A t \in Template : form.selected[t] # None /\ ~schemas[t].failed => FitsAt(t)

\* The request that has no answer yet is in flight, behind the others, and asks
\* for what the form shows.
NewestInFlight ==
    ~answered => /\ loads # << >>
                 /\ Chosen => loads[Len(loads)] = Request

\* Once it is answered the page shows its answer, or that of an older one.
AnswerShown == answered => overtaken \/ Fits

FitInv == NewestInFlight /\ AnswerShown

\* A render that changes versions or parents asks again, or shows nothing.
LEMMA RenderFits ==
    ASSUME PageType, FitInv, NEW g, Render(g), UNCHANGED <<schemas, overtaken>>,
           g.selected \in Choice, g.parents \in Parents
    PROVE  FitInv'
<1>1. form' = g
  BY DEF Render
<1>2. IF Chosen'
      THEN /\ Len(loads') = Len(loads) + 1 /\ ~answered'
           /\ loads'[Len(loads')] = [selected |-> g.selected, parents |-> g.parents]
      ELSE UNCHANGED <<loads, answered>>
  BY <1>1, RenderAsks DEF Chosen
<1>3. Len(loads) \in Nat
  BY DEF PageType
<1>4. CASE Chosen'
  <2>1. loads' # << >>
    BY <1>2, <1>3, <1>4
  <2> QED
    BY <1>1, <1>2, <1>4, <2>1 DEF FitInv, NewestInFlight, AnswerShown, Request
<1>5. CASE ~Chosen'
  <2>1. Fits'
    BY <1>5 DEF Fits, Chosen
  <2> QED
    BY <1>2, <1>5, <2>1 DEF FitInv, NewestInFlight, AnswerShown
<1> QED
  BY <1>4, <1>5

\* The answer to a request, at a template it did not fail for.
LEMMA AnswerFits ==
    ASSUME NEW l \in Load, NEW failed \in SUBSET Template, NEW values \in Values,
           NEW t \in Template, l.selected[t] # None, ~Answer(l, failed)[t].failed
    PROVE  LET s == [version |-> l.selected[t], parents |-> l.parents]
           IN  /\ Answer(l, failed)[t].version = s.version
               /\ Answer(l, failed)[t].parents = s.parents
               /\ \A x \in Default[s.version] : WithDefaults(values, Answer(l, failed))[t][x] = s
<1> DEFINE a == Answer(l, failed)
           s == [version |-> l.selected[t], parents |-> l.parents]
<1>1. t \notin failed
  BY DEF Answer, NoSchema
<1>2. a[t] = [version |-> l.selected[t], parents |-> l.parents, failed |-> FALSE]
  BY <1>1, Zenon DEF Answer
<1>3. a[t].version = l.selected[t] /\ a[t].parents = l.parents
  BY <1>2
<1>4. l.selected[t] \in Version
  BY DEF Load, Choice
<1>5. Default[l.selected[t]] \subseteq Var
  BY <1>4, UseAssumption
<1> HIDE DEF a
<1>6. \A x \in Default[l.selected[t]] : WithDefaults(values, a)[t][x] = s
  <2> SUFFICES ASSUME NEW x \in Default[l.selected[t]]
               PROVE  WithDefaults(values, a)[t][x] = s
    OBVIOUS
  <2>1. x \in Var
    BY <1>5
  <2>2. WithDefaults(values, a)[t][x] =
          IF a[t].version # None /\ x \in Default[a[t].version]
          THEN [version |-> a[t].version, parents |-> a[t].parents] ELSE values[t][x]
    BY <2>1, Zenon DEF WithDefaults
  <2> QED
    BY <1>3, <2>2
<1> QED
  BY <1>3, <1>6 DEF a

\* An answer: the newest one fits, the others leave the newest behind them.
LEMMA LoadedFits ==
    ASSUME PageType, FitInv, Loaded
    PROVE  FitInv'
<1>1. PICK i \in DOMAIN loads :
        /\ loads' = RemoveAt(loads, i)
        /\ overtaken' = (answered \/ i < Len(loads))
        /\ answered' = (answered \/ i = Len(loads))
        /\ \E failed \in SUBSET {t \in Template : loads[i].selected[t] # None} :
              /\ schemas' = Answer(loads[i], failed)
              /\ form' = [form EXCEPT !.values = WithDefaults(@, Answer(loads[i], failed))]
  BY DEF Loaded
<1>2. i \in 1 .. Len(loads) /\ loads[i] \in Load /\ loads \in Seq(Load) /\ Len(loads) \in Nat
  BY DEF PageType
<1>3. PICK failed \in SUBSET Template :
        /\ schemas' = Answer(loads[i], failed)
        /\ form' = [form EXCEPT !.values = WithDefaults(form.values, Answer(loads[i], failed))]
  BY <1>1
<1>4. /\ form.values \in Values
      /\ form'.selected = form.selected /\ form'.parents = form.parents
      /\ form'.values = WithDefaults(form.values, Answer(loads[i], failed))
  BY <1>3 DEF PageType, FormType
<1>5. CASE answered
  <2>1. answered' /\ overtaken'
    BY <1>1, <1>5, Zenon
  <2> QED
    BY <2>1 DEF FitInv, NewestInFlight, AnswerShown
<1>6. CASE ~answered /\ i < Len(loads)
  <2>1. ~answered'
    <3>1. i # Len(loads)
      BY <1>2, <1>6
    <3> QED
      BY <1>1, <1>6, <3>1, Zenon
  <2>2. /\ RemoveAt(loads, i) \in Seq(Load) /\ Len(RemoveAt(loads, i)) = Len(loads) - 1
        /\ \A j \in 1 .. Len(loads) - 1 :
              RemoveAt(loads, i)[j] = IF j < i THEN loads[j] ELSE loads[j + 1]
    BY <1>2, RemoveAtElements
  <2>3. Len(loads) - 1 \in 1 .. Len(loads) - 1 /\ ~(Len(loads) - 1 < i)
        /\ (Len(loads) - 1) + 1 = Len(loads)
    BY <1>2, <1>6
  <2>4. Len(loads') = Len(loads) - 1 /\ loads'[Len(loads')] = loads[Len(loads)]
    BY <1>1, <2>2, <2>3
  <2>5. loads' # << >>
    BY <2>3, <2>4, <1>2, <1>6
  <2>6. Chosen' = Chosen /\ Request' = Request
    BY <1>4 DEF Chosen, Request
  <2> QED
    BY <1>6, <2>1, <2>4, <2>5, <2>6 DEF FitInv, NewestInFlight, AnswerShown
<1>7. CASE ~answered /\ i = Len(loads)
  <2>1. answered'
    BY <1>1, <1>7, Zenon
  <2>2. Fits'
    <3> SUFFICES ASSUME NEW t \in Template, form'.selected[t] # None, ~schemas'[t].failed
                 PROVE  FitsAt(t)'
      BY DEF Fits
    <3>1. loads[i] = Request
      BY <1>4, <1>7 DEF FitInv, NewestInFlight, Chosen
    <3>2. loads[i].selected = form.selected /\ loads[i].parents = form.parents
      BY <3>1 DEF Request
    <3>3. LET s == [version |-> loads[i].selected[t], parents |-> loads[i].parents]
          IN  /\ Answer(loads[i], failed)[t].version = s.version
              /\ Answer(loads[i], failed)[t].parents = s.parents
              /\ \A x \in Default[s.version] :
                    WithDefaults(form.values, Answer(loads[i], failed))[t][x] = s
      BY <1>2, <1>3, <1>4, <3>2, AnswerFits
    <3> QED
      BY <1>3, <1>4, <3>2, <3>3 DEF FitsAt
  <2> QED
    BY <2>1, <2>2 DEF FitInv, NewestInFlight, AnswerShown
<1> QED
  BY <1>2, <1>5, <1>6, <1>7

\* Every step keeps what the page shows in step with what it asked for.
LEMMA NextFitInv == TypeInv /\ FitInv /\ [Next]_vars => FitInv'
<1> SUFFICES ASSUME TypeInv, FitInv, [Next]_vars PROVE FitInv'
  OBVIOUS
<1>0. PageType
  BY DEF TypeInv
<1>1. ASSUME NEW p \in External, NEW R \in SUBSET Resource, SelectParents(p, R) PROVE FitInv'
  <2> DEFINE g == [form EXCEPT !.parents[p] = R]
  <2>1. Render(g) /\ UNCHANGED <<schemas, overtaken>>
    BY <1>1 DEF SelectParents, Editing
  <2>2. g.selected \in Choice /\ g.parents \in Parents
    BY <1>0 DEF PageType, FormType, Parents
  <2> HIDE DEF g
  <2> QED
    BY <1>0, <2>1, <2>2, RenderFits
<1>2. ASSUME NEW t \in Template, NEW v \in {w \in Version : TemplateOf[w] = t} \cup {None},
             PickVersion(t, v)
      PROVE  FitInv'
  <2> DEFINE g == Picked(form, t, v)
  <2>1. Render(g) /\ UNCHANGED <<schemas, overtaken>>
    BY <1>2 DEF PickVersion, Editing
  <2>2. g.selected \in Choice /\ g.parents \in Parents
    BY <1>0 DEF PageType, FormType, Picked, Choice
  <2> HIDE DEF g
  <2> QED
    BY <1>0, <2>1, <2>2, RenderFits
<1>3. ASSUME NEW t \in Template, NEW x \in Var, NEW v \in {Typed, Blank, Spaces}, TypeValue(t, x, v)
      PROVE  FitInv'
  <2>1. /\ form' = [form EXCEPT !.values[t][x] = v]
        /\ UNCHANGED <<schemas, loads, answered, overtaken>>
    BY <1>3 DEF TypeValue, Editing
  <2>2. /\ form'.selected = form.selected /\ form'.parents = form.parents
        /\ form'.values = [form.values EXCEPT ![t][x] = v] /\ form.values \in Values
    BY <1>0, <2>1 DEF PageType, FormType
  <2>3. ASSUME NEW u \in Template, FitsAt(u) PROVE FitsAt(u)'
    <3>1. \A y \in Default[form.selected[u]] :
            form'.values[u][y] = form.values[u][y] \/ form'.values[u][y] \in {Blank, Spaces, Typed}
      BY <2>2 DEF Values
    <3> QED
      BY <2>1, <2>2, <2>3, <3>1 DEF FitsAt
  <2>4. Fits => Fits'
    BY <2>1, <2>2, <2>3 DEF Fits
  <2>5. Request' = Request /\ Chosen' = Chosen
    BY <2>2 DEF Request, Chosen
  <2> QED
    BY <2>1, <2>4, <2>5 DEF FitInv, NewestInFlight, AnswerShown
<1>4. CASE \/ \E c \in Constant : \E v \in {Typed, Blank} : TypeConstant(c, v)
           \/ Submit \/ ListingFails \/ Created \/ CreationFails \/ UNCHANGED vars
  <2>1. /\ form'.selected = form.selected /\ form'.parents = form.parents
        /\ form'.values = form.values
        /\ UNCHANGED <<schemas, loads, answered, overtaken>>
    BY <1>0, <1>4 DEF TypeConstant, Editing, Submit, ListingFails, Created, CreationFails, vars,
                      PageType, FormType
  <2>2. Fits => Fits'
    BY <2>1 DEF Fits, FitsAt
  <2>3. Request' = Request /\ Chosen' = Chosen
    BY <2>1 DEF Request, Chosen
  <2> QED
    BY <2>1, <2>2, <2>3 DEF FitInv, NewestInFlight, AnswerShown
<1>5. CASE Listed
  <2> DEFINE g == [form EXCEPT !.selected = Latest]
  <2>1. Render(g) /\ UNCHANGED <<schemas, overtaken>>
    BY <1>5 DEF Listed
  <2>2. g.selected \in Choice /\ g.parents \in Parents
    BY <1>0, UseAssumption DEF PageType, FormType, Choice
  <2> HIDE DEF g
  <2> QED
    BY <1>0, <2>1, <2>2, RenderFits
<1>6. CASE Loaded
  BY <1>0, <1>6, LoadedFits
<1> QED
  BY <1>1, <1>2, <1>3, <1>4, <1>5, <1>6 DEF Next

\* Whatever the order of the answers: once the last one has come and none of an
\* older request came after it, the fields are those of the selected versions,
\* with the defaults the selected parents give them (BlueprintUse.tsx, the effect
\* that loads the schemas).
THEOREM FieldsFitChoice == Spec => []PageFitsChoice
<1>1. Init => FitInv
  BY DEF Init, FitInv, NewestInFlight, AnswerShown, Fits
<1>2. FitInv => PageFitsChoice
  BY DEF FitInv, NewestInFlight, AnswerShown, Fits, FitsAt, PageFitsChoice
<1> QED
  BY <1>1, <1>2, InitTypeInv, NextTypeInv, NextFitInv, PTL DEF Spec
=============================================================================
