---------------------------- MODULE Workflow_proofs ----------------------------
(***************************************************************************)
(* Theorems about Workflow, for every blueprint and every cascade, every   *)
(* number of steps and every bound.                                        *)
(***************************************************************************)
EXTENDS Workflow, Induction, FiniteSetTheorems, SequenceTheorems, TLAPS

-----------------------------------------------------------------------------
(* Positions: a step comes after all that it has to wait for.              *)

\* The parents a resource is created with; the children destroyed before it.
Before(s) == IF action = "create" THEN needs[s] ELSE {c \in Step : s \in needs[c]}

GraphOK == needs \in Graph /\ Acyclic(needs) /\ action \in {"create", "destroy"}

\* Kahn's rounds, from one to the next.
LEMMA ReachedRounds ==
    ASSUME GraphOK
    PROVE  /\ Reached \in [Nat -> SUBSET Step]
           /\ Reached[0] = {}
           /\ \A n \in Nat : Reached[n + 1] = {s \in Step : needs[s] \subseteq Reached[n]}
<1> DEFINE Sets == SUBSET Step
           next == [x \in Nat \X Sets |-> {s \in Step : needs[s] \subseteq x[2]}]
<1>1. {} \in Sets /\ Steps(next, Sets)
  BY DEF Steps
<1>2. PICK h \in [Nat -> Sets] : Recursive(h, {}, next)
  <2> HIDE DEF Sets, next
  <2> QED
    BY <1>1, NatRecursion
<1>3. ASSUME NEW n \in Nat \ {0} PROVE h[n] = {s \in Step : needs[s] \subseteq h[n - 1]}
  <2>1. n - 1 \in Nat
    OBVIOUS
  <2> QED
    BY <1>2, <2>1 DEF Recursive
<1>4. h = [n \in Nat |-> IF n = 0 THEN {} ELSE {s \in Step : needs[s] \subseteq h[n - 1]}]
  BY <1>2, <1>3 DEF Recursive
<1>5. Reached = [n \in Nat |-> IF n = 0 THEN {}
                               ELSE {s \in Step : needs[s] \subseteq Reached[n - 1]}]
  BY <1>4 DEF Reached
<1>6. Reached \in [Nat -> SUBSET Step] /\ Reached[0] = {}
  BY <1>5
<1>7. ASSUME NEW n \in Nat PROVE Reached[n + 1] = {s \in Step : needs[s] \subseteq Reached[n]}
  <2>1. n + 1 \in Nat /\ n + 1 # 0 /\ (n + 1) - 1 = n
    OBVIOUS
  <2>2. Reached[n + 1] = IF n + 1 = 0 THEN {}
                         ELSE {s \in Step : needs[s] \subseteq Reached[(n + 1) - 1]}
    BY <1>5, <2>1, Zenon
  <2> QED
    BY <2>1, <2>2
<1> QED
  BY <1>6, <1>7

\* A round adds to the rounds before.
LEMMA RoundsGrow ==
    ASSUME GraphOK
    PROVE  \A n \in Nat : Reached[n] \subseteq Reached[n + 1]
<1> DEFINE S == {n \in Nat : Reached[n] \subseteq Reached[n + 1]}
<1>1. 0 \in S
  BY ReachedRounds
<1>2. ASSUME NEW n \in S PROVE n + 1 \in S
  <2>1. n \in Nat /\ n + 1 \in Nat
    OBVIOUS
  <2>2. /\ Reached[n + 1] = {s \in Step : needs[s] \subseteq Reached[n]}
        /\ Reached[(n + 1) + 1] = {s \in Step : needs[s] \subseteq Reached[n + 1]}
    BY <2>1, ReachedRounds
  <2> QED
    BY <2>1, <2>2
<1> HIDE DEF S
<1>3. S = Nat
  <2>1. S \in SUBSET Nat
    BY DEF S
  <2> QED
    BY <1>1, <1>2, <2>1, SetInduction
<1> QED
  BY <1>3 DEF S

\* As many rounds as there are steps reach every step.
LEMMA AllReached ==
    ASSUME GraphOK
    PROVE  Reached[Cardinality(Step)] = Step
<1> DEFINE c == Cardinality(Step)
           S == {n \in Nat : Reached[n] = Step \/ Cardinality(Reached[n]) >= n}
<1>0. c \in Nat /\ IsFiniteSet(Step)
  BY InstanceAssumption, FS_CardinalityType
<1>1. \A n \in Nat : Reached[n] \in SUBSET Step /\ IsFiniteSet(Reached[n])
                     /\ Cardinality(Reached[n]) \in Nat
  <2> SUFFICES ASSUME NEW n \in Nat
               PROVE  Reached[n] \in SUBSET Step /\ IsFiniteSet(Reached[n])
                      /\ Cardinality(Reached[n]) \in Nat
    OBVIOUS
  <2>1. Reached[n] \in SUBSET Step
    BY ReachedRounds
  <2>2. IsFiniteSet(Reached[n])
    BY <1>0, <2>1, FS_Subset
  <2> QED
    BY <2>1, <2>2, FS_CardinalityType
<1>2. 0 \in S
  BY <1>1
<1>3. ASSUME NEW n \in S PROVE n + 1 \in S
  <2>1. n \in Nat /\ n + 1 \in Nat
    OBVIOUS
  <2>2. Reached[n] \subseteq Reached[n + 1]
    BY <2>1, RoundsGrow
  <2>3. CASE Reached[n + 1] = Reached[n]
    <3>1. \A s \in Step \ Reached[n] : needs[s] \cap (Step \ Reached[n]) # {}
      BY <2>1, <2>3, ReachedRounds DEF GraphOK, Graph
    <3>2. Step \ Reached[n] = {}
      BY <3>1 DEF GraphOK, Acyclic
    <3>3. Reached[n + 1] = Step
      BY <1>1, <2>1, <2>3, <3>2
    <3> QED
      BY <2>1, <3>3
  <2>4. CASE Reached[n + 1] # Reached[n]
    <3>1. Reached[n] # Step
      BY <1>1, <2>1, <2>2, <2>4
    <3>2. Cardinality(Reached[n]) >= n
      BY <3>1
    <3>3. /\ Cardinality(Reached[n]) <= Cardinality(Reached[n + 1])
          /\ Cardinality(Reached[n]) # Cardinality(Reached[n + 1])
      <4>1. Reached[n] \in SUBSET Reached[n + 1] /\ IsFiniteSet(Reached[n + 1])
        BY <1>1, <2>1, <2>2
      <4> QED
        BY <2>4, <4>1, FS_Subset
    <3>4. Cardinality(Reached[n + 1]) >= n + 1
      BY <1>1, <2>1, <3>2, <3>3
    <3> QED
      BY <2>1, <3>4
  <2> QED
    BY <2>3, <2>4
<1> HIDE DEF S
<1>4. S = Nat
  <2>1. S \in SUBSET Nat
    BY DEF S
  <2> QED
    BY <1>2, <1>3, <2>1, SetInduction
<1>5. Reached[c] = Step \/ Cardinality(Reached[c]) >= c
  BY <1>0, <1>4 DEF S
<1>6. CASE Cardinality(Reached[c]) >= c
  <2>1. Reached[c] \in SUBSET Step /\ Cardinality(Reached[c]) \in Nat
    BY <1>0, <1>1
  <2>2. Cardinality(Reached[c]) <= c /\ (Cardinality(Reached[c]) = c => Reached[c] = Step)
    BY <1>0, <2>1, FS_Subset
  <2> QED
    BY <1>0, <1>6, <2>1, <2>2
<1> QED
  BY <1>5, <1>6 DEF c

\* A template comes after those its own is wired to (_topological_sort).
LEMMA BlueprintOrder ==
    ASSUME GraphOK
    PROVE  \A s \in Step : /\ BlueprintPosition(s) \in Nat
                           /\ \A p \in needs[s] : BlueprintPosition(p) < BlueprintPosition(s)
<1> DEFINE rounds(s) == {n \in 0 .. Cardinality(Step) : s \in Reached[n + 1]}
<1>0. Cardinality(Step) \in Nat
  BY InstanceAssumption, FS_CardinalityType
<1>1. ASSUME NEW s \in Step
      PROVE  /\ BlueprintPosition(s) \in rounds(s)
             /\ \A n \in rounds(s) : BlueprintPosition(s) <= n
  <2>1. Cardinality(Step) \in rounds(s)
    BY <1>0, AllReached, RoundsGrow
  <2>2. rounds(s) \in SUBSET Nat /\ rounds(s) # {}
    BY <2>1
  <2>3. BlueprintPosition(s) = Min(rounds(s))
    BY DEF BlueprintPosition
  <2> HIDE DEF rounds
  <2> QED
    BY <2>2, <2>3, LeastNatural
<1>2. ASSUME NEW s \in Step, NEW p \in needs[s]
      PROVE  BlueprintPosition(p) < BlueprintPosition(s)
  <2> DEFINE m == BlueprintPosition(s)
  <2>1. m \in 0 .. Cardinality(Step) /\ s \in Reached[m + 1] /\ m \in Nat
    BY <1>0, <1>1
  <2>2. p \in Reached[m] /\ p \in Step
    BY <2>1, ReachedRounds DEF GraphOK, Graph
  <2>3. m # 0
    BY <2>2, ReachedRounds
  <2>4. m - 1 \in 0 .. Cardinality(Step) /\ (m - 1) + 1 = m
    BY <1>0, <2>1, <2>3
  <2>5. BlueprintPosition(p) <= m - 1 /\ BlueprintPosition(p) \in 0 .. Cardinality(Step)
    BY <1>1, <2>2, <2>4
  <2> QED
    BY <1>0, <2>1, <2>5
<1> QED
  BY <1>0, <1>1, <1>2

\* f is the depth of the steps of D, which has the parents of its steps.
DepthOn(f, D) ==
    /\ f \in [D -> Nat] /\ \A s \in D : needs[s] \subseteq D
    /\ \A s \in D : f[s] = IF needs[s] = {} THEN 0 ELSE 1 + Max({f[p] : p \in needs[s]})

\* One more step, all of whose parents have their depth.
LEMMA DepthExtends ==
    ASSUME GraphOK, NEW D \in SUBSET Step, NEW f, DepthOn(f, D),
           NEW s \in Step \ D, needs[s] \subseteq D
    PROVE  \E g : DepthOn(g, D \cup {s})
<1> DEFINE d == IF needs[s] = {} THEN 0 ELSE 1 + Max({f[p] : p \in needs[s]})
           g == [x \in D \cup {s} |-> IF x = s THEN d ELSE f[x]]
<1>1. f \in [D -> Nat]
  BY DEF DepthOn
<1>2. d \in Nat
  <2>1. CASE needs[s] # {}
    <3> DEFINE below == [p \in needs[s] |-> f[p]]
               S == {below[p] : p \in needs[s]}
    <3>1. S \in SUBSET Nat /\ S # {}
      BY <1>1, <2>1
    <3>2. IsFiniteSet(S)
      <4>1. IsFiniteSet(needs[s]) /\ DOMAIN below = needs[s]
        BY InstanceAssumption, FS_Subset
      <4> HIDE DEF below
      <4> QED
        BY <4>1, FiniteImage
    <3>3. S = {f[p] : p \in needs[s]}
      OBVIOUS
    <3> HIDE DEF S
    <3>4. Max(S) \in Nat
      BY <3>1, <3>2, GreatestNatural
    <3> QED
      BY <2>1, <3>3, <3>4
  <2> QED
    BY <2>1
<1> HIDE DEF d
<1>3. g \in [D \cup {s} -> Nat] /\ \A x \in D \cup {s} : needs[x] \subseteq D \cup {s}
  BY <1>1, <1>2 DEF DepthOn
<1>4. ASSUME NEW x \in D \cup {s}
      PROVE  g[x] = IF needs[x] = {} THEN 0 ELSE 1 + Max({g[p] : p \in needs[x]})
  <2>1. needs[x] \subseteq D
    BY DEF DepthOn
  <2>2. {g[p] : p \in needs[x]} = {f[p] : p \in needs[x]}
    BY <2>1
  <2>3. g[x] = IF needs[x] = {} THEN 0 ELSE 1 + Max({f[p] : p \in needs[x]})
    BY DEF DepthOn, d
  <2> QED
    BY <2>2, <2>3
<1>5. DepthOn(g, D \cup {s})
  BY <1>3, <1>4 DEF DepthOn
<1> QED
  BY <1>5

\* Every step has a depth: there is no cycle.
LEMMA DepthExists == ASSUME GraphOK PROVE DepthOn(Depth, Step)
<1> DEFINE Rests == {R \in SUBSET Step : \E f : DepthOn(f, Step \ R)}
<1>1. PICK R \in Rests : \A Q \in Rests : Q \subseteq R => Q = R
  <2>1. DepthOn([s \in {} |-> 0], Step \ Step)
    BY DEF DepthOn
  <2>2. Rests # {}
    BY <2>1
  <2>3. \A Q \in Rests : Q \subseteq Step
    OBVIOUS
  <2> HIDE DEF Rests
  <2> QED
    BY <2>2, <2>3, InstanceAssumption, MinimalSubset
<1>2. R = {}
  <2> SUFFICES ASSUME R # {} PROVE FALSE
    OBVIOUS
  <2>1. PICK s \in R : needs[s] \cap R = {}
    BY DEF GraphOK, Acyclic
  <2>2. PICK f : DepthOn(f, Step \ R)
    OBVIOUS
  <2>3. needs[s] \subseteq Step \ R /\ s \in Step \ (Step \ R)
    BY <2>1 DEF GraphOK, Graph
  <2>4. \E g : DepthOn(g, (Step \ R) \cup {s})
    BY <2>2, <2>3, DepthExtends
  <2>5. (Step \ R) \cup {s} = Step \ (R \ {s})
    OBVIOUS
  <2>6. R \ {s} \in Rests
    BY <2>4, <2>5
  <2> QED
    BY <1>1, <2>6
<1>3. PICK f : DepthOn(f, Step)
  BY <1>2
<1>4. f = [s \in Step |-> IF needs[s] = {} THEN 0 ELSE 1 + Max({f[p] : p \in needs[s]})]
  BY <1>3 DEF DepthOn
<1>5. Depth = [s \in Step |-> IF needs[s] = {} THEN 0
                              ELSE 1 + Max({Depth[p] : p \in needs[s]})]
  BY <1>4 DEF Depth
<1>6. \A s \in Step : Depth[s] = f[s]
  <2> DEFINE S == {s \in Step : Depth[s] # f[s]}
  <2> SUFFICES ASSUME S # {} PROVE FALSE
    OBVIOUS
  <2>1. PICK s \in S : needs[s] \cap S = {}
    BY DEF GraphOK, Acyclic
  <2>2. \A p \in needs[s] : Depth[p] = f[p]
    BY <2>1 DEF GraphOK, Graph
  <2>3. {Depth[p] : p \in needs[s]} = {f[p] : p \in needs[s]}
    BY <2>2
  <2>4. Depth[s] = f[s]
    BY <1>4, <1>5, <2>3
  <2> QED
    BY <2>4
<1>7. Depth = f
  BY <1>4, <1>5, <1>6
<1> QED
  BY <1>3, <1>7

\* A resource of a cascade comes after those that hang from it
\* (_collect_descendants_post_order).
LEMMA CascadeOrder ==
    ASSUME GraphOK
    PROVE  \A s \in Step : /\ CascadePosition(s) \in Nat
                           /\ \A p \in needs[s] : CascadePosition(s) < CascadePosition(p)
<1> DEFINE S == {Depth[t] : t \in Step}
<1>1. /\ Depth \in [Step -> Nat]
      /\ \A s \in Step : needs[s] \subseteq Step
      /\ \A s \in Step : Depth[s] = IF needs[s] = {} THEN 0
                                    ELSE 1 + Max({Depth[p] : p \in needs[s]})
  BY DepthExists DEF DepthOn
<1>2. Max(S) \in Nat /\ \A t \in Step : Max(S) >= Depth[t]
  <2>1. S \in SUBSET Nat /\ S # {}
    BY <1>1, InstanceAssumption
  <2>2. IsFiniteSet(S)
    BY <1>1, InstanceAssumption, FiniteImage
  <2>3. \A t \in Step : Depth[t] \in S
    OBVIOUS
  <2> HIDE DEF S
  <2> QED
    BY <2>1, <2>2, <2>3, GreatestNatural
<1>3. \A s \in Step : CascadePosition(s) = Max(S) - Depth[s]
  BY DEF CascadePosition
<1> HIDE DEF S
<1>4. ASSUME NEW s \in Step, NEW p \in needs[s] PROVE Depth[p] < Depth[s]
  <2> DEFINE below == [x \in needs[s] |-> Depth[x]]
             T == {below[x] : x \in needs[s]}
  <2>1. T \in SUBSET Nat /\ T # {}
    BY <1>1
  <2>2. IsFiniteSet(T)
    <3>1. IsFiniteSet(needs[s]) /\ DOMAIN below = needs[s]
      BY <1>1, InstanceAssumption, FS_Subset
    <3> HIDE DEF below
    <3> QED
      BY <3>1, FiniteImage
  <2>3. T = {Depth[x] : x \in needs[s]} /\ Depth[p] \in T
    OBVIOUS
  <2> HIDE DEF T
  <2>4. Max(T) \in Nat /\ Max(T) >= Depth[p]
    BY <2>1, <2>2, <2>3, GreatestNatural
  <2>5. Depth[s] = 1 + Max(T)
    BY <1>1, <2>3
  <2> QED
    BY <1>1, <2>4, <2>5
<1>5. ASSUME NEW s \in Step PROVE CascadePosition(s) \in Nat
  <2>1. Depth[s] \in Nat
    BY <1>1
  <2> QED
    BY <1>2, <1>3, <2>1
<1>6. ASSUME NEW s \in Step, NEW p \in needs[s] PROVE CascadePosition(s) < CascadePosition(p)
  <2>1. Depth[s] \in Nat /\ Depth[p] \in Nat /\ p \in Step
    BY <1>1
  <2> QED
    BY <1>2, <1>3, <1>4, <2>1
<1> QED
  BY <1>5, <1>6

\* Either way, what a step waits for has a lower position.
LEMMA PositionOrder ==
    ASSUME GraphOK
    PROVE  \A s \in Step : /\ Position(s) \in Nat
                           /\ Before(s) \subseteq Step
                           /\ \A d \in Before(s) : Position(d) < Position(s)
<1>1. CASE action = "create"
  BY <1>1, BlueprintOrder DEF Position, Before, GraphOK, Graph
<1>2. CASE action = "destroy"
  BY <1>2, CascadeOrder DEF Position, Before
<1> QED
  BY <1>1, <1>2 DEF GraphOK

-----------------------------------------------------------------------------
(* Where a handler goes next.                                              *)

\* What a handler decides next leaves what it knows alone.
Keeps(c, k) ==
    /\ c \in Busy
    /\ c.msg = k.msg /\ c.target = k.target /\ c.cur = k.cur /\ c.bad = k.bad
    /\ c.view = k.view /\ c.early = k.early /\ c.out = k.out

Waited(k, L) == \A s \in L : \A d \in Before(s) : k.view.step[d] = "done"

\* A new level: all its steps wait for is DONE.
LEMMA LaunchResult ==
    ASSUME GraphOK, NEW k \in Busy
    PROVE  /\ Keeps(Launch(k), k)
           /\ \/ Launch(k).pc = "complete" /\ AllDone(k, Step)
              \/ /\ Launch(k).pc = "end"
                 /\ \E s \in Step : k.view.step[s] = "in_progress"
              \/ /\ Launch(k).pc = "steps"
                 /\ Launch(k).todo = Launch(k).level
                 /\ Waited(k, Launch(k).level)
                 /\ \E s \in Launch(k).level : k.view.step[s] \notin {"done", "in_progress"}
<1>1. CASE AllDone(k, Step)
  BY <1>1 DEF Launch, Keeps, Busy
<1>2. CASE ~AllDone(k, Step)
  <2> DEFINE open == {t \in Step : k.view.step[t] # "done"}
             S == {Position(s) : s \in open}
             level == {s \in Step : Position(s) = Min(S)}
  <2>1. S \in SUBSET Nat /\ S # {}
    BY <1>2, PositionOrder DEF AllDone
  <2>2. Min(S) \in S /\ \A x \in S : Min(S) <= x
    <3> HIDE DEF S
    <3> QED
      BY <2>1, LeastNatural
  <2>3. Launch(k) = IF \A s \in level : k.view.step[s] \in {"done", "in_progress"}
                    THEN [k EXCEPT !.pc = "end"]
                    ELSE [k EXCEPT !.pc = "steps", !.level = level, !.todo = level]
    BY <1>2 DEF Launch
  <2>4. \E s \in level : k.view.step[s] # "done"
    BY <2>2
  <2>5. Waited(k, level)
    <3> SUFFICES ASSUME NEW s \in level, NEW d \in Before(s), k.view.step[d] # "done"
                 PROVE  FALSE
      BY DEF Waited
    <3>1. d \in Step /\ Position(d) < Position(s) /\ Position(d) \in Nat /\ Position(s) \in Nat
      BY PositionOrder
    <3>2. Position(d) \in S /\ Position(s) = Min(S)
      BY <3>1
    <3> HIDE DEF S
    <3>3. Min(S) <= Position(d)
      BY <2>2, <3>2
    <3> QED
      BY <3>1, <3>2, <3>3
  <2>6. level \subseteq Step
    OBVIOUS
  <2> HIDE DEF level, S, open
  <2>7. CASE \A s \in level : k.view.step[s] \in {"done", "in_progress"}
    <3>1. Launch(k) = [k EXCEPT !.pc = "end"]
      BY <2>3, <2>7
    <3>2. \E s \in Step : k.view.step[s] = "in_progress"
      BY <2>4, <2>6, <2>7
    <3> QED
      BY <3>1, <3>2 DEF Keeps, Busy
  <2>8. CASE \E s \in level : k.view.step[s] \notin {"done", "in_progress"}
    <3>1. Launch(k) = [k EXCEPT !.pc = "steps", !.level = level, !.todo = level]
      BY <2>3, <2>8
    <3>2. /\ Keeps(Launch(k), k)
          /\ Launch(k).pc = "steps" /\ Launch(k).level = level /\ Launch(k).todo = level
      BY <2>6, <3>1 DEF Keeps, Busy
    <3> QED
      BY <2>5, <2>8, <3>2
  <2> QED
    BY <2>7, <2>8
<1> QED
  BY <1>1, <1>2

\* After a step: the rest of the level, an end, or a new level.
LEMMA ContinueResult ==
    ASSUME GraphOK, NEW k \in Busy
    PROVE  /\ Keeps(Continue(k), k)
           /\ \/ Continue(k).pc = "complete" /\ AllDone(k, Step)
              \/ Continue(k).pc = "fail"
              \/ /\ Continue(k).pc = "end"
                 /\ \/ \E s \in Step : k.view.step[s] = "in_progress"
                    \/ /\ \E s \in k.level : k.view.step[s] # "done"
                       /\ Remaining(k) = {} /\ ~k.bad
              \/ /\ Continue(k).pc = "steps"
                 /\ \/ Continue(k).todo = k.todo /\ Continue(k).level = k.level
                    \/ /\ Continue(k).todo = Continue(k).level
                       /\ Waited(k, Continue(k).level)
                       /\ \E s \in Continue(k).level : k.view.step[s] \notin {"done", "in_progress"}
<1>1. CASE Remaining(k) # {}
  BY <1>1 DEF Continue, Keeps, Busy
<1>2. CASE Remaining(k) = {} /\ k.bad
  BY <1>2 DEF Continue, Keeps, Busy
<1>3. CASE Remaining(k) = {} /\ ~k.bad /\ AllDone(k, k.level)
  <2>1. Continue(k) = Launch(k)
    BY <1>3 DEF Continue
  <2> QED
    BY <2>1, LaunchResult
<1>4. CASE Remaining(k) = {} /\ ~k.bad /\ ~AllDone(k, k.level)
  <2>1. Continue(k) = [k EXCEPT !.pc = "end"]
    BY <1>4 DEF Continue
  <2> QED
    BY <1>4, <2>1 DEF Keeps, Busy, AllDone
<1> QED
  BY <1>1, <1>2, <1>3, <1>4

-----------------------------------------------------------------------------
(* Types, whatever the number of workers.                                  *)

\* A row a session remembers is there, under the link it remembers.
Known(v, rs) == \A s \in Step : v.row[s] # Absent =>
                                    v.link[s] \in Numbers /\ rs[<<s, v.link[s]>>] # Absent

ViewsKnown == \A w \in Worker : worker[w] # Idle => Known(worker[w].view, row)

TasksKnown == \A r \in Res : run[r] > 0 => row[r] # Absent

TypeInv == TypeOK /\ GraphOK /\ ViewsKnown /\ TasksKnown

\* No commit removes a row.
Stays == row' \in [Res -> Row \cup {Absent}]
         /\ \A r \in Res : row[r] # Absent => row'[r] # Absent

LEMMA AbsentIsNoRow == Absent \notin Row
BY DEF Absent, Row, ModelStatus

LEMMA BusyIsNotIdle == \A k \in Busy : k # Idle
BY DEF Busy, Idle

LEMMA WorkerIsBusy ==
    ASSUME TypeInv, NEW w \in Worker, worker[w] # Idle
    PROVE  worker[w] \in Busy /\ Known(worker[w].view, row)
BY DEF TypeInv, TypeOK, ViewsKnown

LEMMA PcIsBusy ==
    ASSUME TypeInv, NEW w \in Worker, worker[w].pc # "idle"
    PROVE  worker[w] \in Busy /\ worker[w] # Idle /\ Known(worker[w].view, row)
BY WorkerIsBusy DEF Idle

\* What a worker holds after a commit.
LEMMA NewWorker ==
    ASSUME TypeInv, NEW w \in Worker, NEW c \in {Idle} \cup Busy,
           worker' = [worker EXCEPT ![w] = c], Stays,
           c # Idle => Known(c.view, row')
    PROVE  worker' \in [Worker -> {Idle} \cup Busy] /\ ViewsKnown'
<1>1. worker' \in [Worker -> {Idle} \cup Busy]
  BY DEF TypeInv, TypeOK
<1>2. ASSUME NEW v \in Worker, worker'[v] # Idle PROVE Known(worker'[v].view, row')
  <2>1. CASE v = w
    BY <1>2, <2>1 DEF TypeInv, TypeOK
  <2>2. CASE v # w
    <3>1. worker'[v] = worker[v] /\ worker[v] \in Busy /\ Known(worker[v].view, row)
      BY <1>2, <2>2, WorkerIsBusy DEF TypeInv, TypeOK
    <3>2. \A s \in Step : worker[v].view.link[s] \in Numbers
                          => <<s, worker[v].view.link[s]>> \in Res
      BY DEF Res
    <3> QED
      BY <3>1, <3>2 DEF Known, Stays
  <2> QED
    BY <2>1, <2>2
<1> QED
  BY <1>1, <1>2 DEF ViewsKnown

LEMMA FlushType ==
    ASSUME TypeInv, NEW w \in Worker, worker[w] \in Busy,
           NEW calls \in SUBSET Res, Flush(w, calls)
    PROVE  /\ msgs' \in Seq(Message) /\ Len(msgs') <= MaxQueue
           /\ task' \in [Res -> 0 .. MaxQueue]
<1>1. msgs \in Seq(Message) /\ worker[w].out \in Seq(Message)
  BY DEF TypeInv, TypeOK, Busy
<1>2. msgs' \in Seq(Message) /\ Len(msgs') = Len(msgs) + Len(worker[w].out)
  BY <1>1, ConcatProperties DEF Flush, Publish
<1>3. task' \in [Res -> 0 .. MaxQueue]
  <2>1. ASSUME NEW r \in Res PROVE task'[r] \in 0 .. MaxQueue
    BY BoundsAssumption DEF TypeInv, TypeOK, Flush
  <2>2. DOMAIN task' = Res /\ task' = [r \in Res |-> task'[r]]
    BY DEF Flush
  <2> QED
    BY <2>1, <2>2
<1> QED
  BY <1>2, <1>3 DEF Flush, Publish

LEMMA MergedRow ==
    ASSUME NEW current \in Row, NEW old \in Row, NEW new \in Row
    PROVE  Merged(current, old, new) \in Row
BY DEF Merged, Row

LEMMA EffectRow ==
    ASSUME NEW r \in Row, NEW call \in {"approve", "execute", "destroy"}, gated \in BOOLEAN
    PROVE  Effect(r, call) \in Row
BY DEF Effect, ApproveEntity, ExecuteEntity, DestroyEntity, Gate, At, Row, ModelStatus, ModelState

\* The status of a step, of what the session remembers of it.
LEMMA CommitStepType ==
    ASSUME TypeInv, NEW w \in Worker, NEW s \in Step, NEW status \in StepStatus,
           CommitStep(w, s, status)
    PROVE  step' \in [Step -> StepStatus]
BY DEF TypeInv, TypeOK, CommitStep, Changed

LEMMA MessageTypes ==
    ASSUME NEW s \in Step
    PROVE  << <<s>> >> \in Seq(Message) /\ << >> \in Seq(Message)
BY DEF Message

\* v is u with a new status of step s, and a new row of its resource.
Saw(v, u, s, status, seen) ==
    /\ v.wf = u.wf /\ v.link = u.link
    /\ v.step = [u.step EXCEPT ![s] = status]
    /\ v.row = [u.row EXCEPT ![s] = seen]

\* A worker that goes on with the next step of a level.
LEMMA SteppedType ==
    ASSUME GraphOK, NEW k \in Busy, NEW s \in Step, NEW status \in StepStatus,
           NEW seen \in Row \cup {Absent}, NEW sends
    PROVE  /\ Stepped(k, s, status, seen, sends) \in Busy
           /\ Saw(Stepped(k, s, status, seen, sends).view, k.view, s, status, seen)
<1> DEFINE out == IF sends THEN << <<s>> >> ELSE << >>
           k2 == [k EXCEPT !.todo = @ \ {s}, !.cur = s,
                           !.view.step[s] = status, !.view.row[s] = seen,
                           !.out = out]
<1>1. out \in Seq(Message)
  BY MessageTypes
<1> HIDE DEF out
<1>2. k2 \in Busy /\ Saw(k2.view, k.view, s, status, seen)
  BY <1>1 DEF Busy, View, Saw
<1>3. Stepped(k, s, status, seen, sends) = Continue(k2)
  BY DEF Stepped, out
<1> HIDE DEF k2
<1>4. Continue(k2) \in Busy /\ Continue(k2).view = k2.view
  BY <1>2, ContinueResult DEF Keeps
<1> QED
  BY <1>2, <1>3, <1>4

\* The rows the session reads.
LEMMA LoadedType ==
    ASSUME TypeInv
    PROVE  Loaded \in View /\ Known(Loaded, row)
<1>1. ASSUME NEW s \in Step
      PROVE  /\ LoadedRow(s) \in Row \cup {Absent}
             /\ LoadedRow(s) # Absent => link[s] \in Numbers /\ row[<<s, link[s]>>] # Absent
  <2>1. link[s] \in 0 .. MaxResources /\ MaxResources \in Nat
    BY BoundsAssumption DEF TypeInv, TypeOK
  <2>2. CASE link[s] = 0
    BY <2>2 DEF LoadedRow
  <2>3. CASE link[s] # 0
    <3>1. link[s] \in Numbers
      BY <2>1, <2>3 DEF Numbers
    <3> QED
      BY <2>3, <3>1 DEF LoadedRow, Res, TypeInv, TypeOK
  <2> QED
    BY <2>2, <2>3
<1>2. Loaded \in View
  BY <1>1 DEF Loaded, View, TypeInv, TypeOK
<1>3. Known(Loaded, row)
  BY <1>1 DEF Loaded, Known
<1> QED
  BY <1>2, <1>3

\* Sending leaves the rows that are there.
LEMMA RowsStay == ASSUME TypeInv, UNCHANGED row PROVE Stays
BY DEF Stays, TypeInv, TypeOK

LEMMA ReceiveType ==
    ASSUME TypeInv, NEW w \in Worker, Receive(w) PROVE TypeInv'
<1> DEFINE c == [pc |-> "enter", msg |-> Head(msgs), target |-> Target(Head(msgs)),
                 level |-> {}, todo |-> {}, cur |-> CHOOSE s \in Step : TRUE, bad |-> FALSE,
                 view |-> Loaded, early |-> {s \in Step : step[s] = "done"},
                 out |-> << >>]
<1>1. /\ msgs \in Seq(Message) /\ Len(msgs) \in Nat /\ Len(msgs) <= MaxQueue /\ msgs # << >>
      /\ MaxQueue \in Nat
  BY BoundsAssumption DEF TypeInv, TypeOK, Receive
<1>2. Head(msgs) \in Message /\ msgs' \in Seq(Message) /\ Len(msgs') <= MaxQueue
  BY <1>1, HeadTailProperties DEF Receive
<1>3. (CHOOSE s \in Step : TRUE) \in Step
  BY InstanceAssumption
<1>4. Target(Head(msgs)) \subseteq Step
  BY DEF Target
<1>5. Loaded \in View /\ Known(Loaded, row)
  BY LoadedType
<1>6. c \in Busy
  BY <1>2, <1>3, <1>4, <1>5, MessageTypes DEF Busy
<1>7. Known(c.view, row') /\ worker' = [worker EXCEPT ![w] = c] /\ UNCHANGED row
  BY <1>5 DEF Receive
<1>8. worker' \in [Worker -> {Idle} \cup Busy] /\ ViewsKnown'
  <2> HIDE DEF c
  <2> QED
    BY <1>6, <1>7, RowsStay, NewWorker
<1> QED
  BY <1>2, <1>8 DEF TypeInv, TypeOK, GraphOK, TasksKnown, Receive

LEMMA EnterType ==
    ASSUME TypeInv, NEW w \in Worker, Enter(w) PROVE TypeInv'
<1> DEFINE k == [worker[w] EXCEPT !.view.wf = "in_progress"]
           open == {s \in k.target : k.view.step[s] # "done"}
           c == IF open # {}
                THEN [k EXCEPT !.pc = "steps", !.level = open, !.todo = open]
                ELSE IF action = "destroy" /\ k.target # {}
                THEN [k EXCEPT !.pc = "end"]
                ELSE Launch(k)
<1>1. worker[w] \in Busy /\ Known(worker[w].view, row)
  BY PcIsBusy DEF Enter
<1>2. k \in Busy /\ k.target = worker[w].target
      /\ k.view = [worker[w].view EXCEPT !.wf = "in_progress"]
  BY <1>1 DEF Busy, View, WorkflowStatus
<1>3. open \in SUBSET Step
  BY <1>2 DEF Busy
<1>4. Known(k.view, row)
  BY <1>1, <1>2 DEF Known, Busy, View
<1>5. worker' = [worker EXCEPT ![w] = c] /\ UNCHANGED row
  BY DEF Enter, rows
<1> HIDE DEF k, open
<1>6. Launch(k) \in Busy /\ Launch(k).view = k.view
  BY <1>2, LaunchResult DEF Keeps, TypeInv
<1>7. c \in Busy /\ c.view = k.view
  BY <1>2, <1>3, <1>6 DEF Busy
<1>8. worker' \in [Worker -> {Idle} \cup Busy] /\ ViewsKnown'
  <2> HIDE DEF c
  <2> QED
    BY <1>4, <1>5, <1>7, RowsStay, NewWorker
<1>9. wf' \in WorkflowStatus
  BY DEF Enter, CommitWorkflow, Changed, WorkflowStatus, TypeInv, TypeOK
<1>10. dropped' \subseteq Step
  BY <1>1 DEF Enter, Busy, TypeInv, TypeOK
<1> QED
  BY <1>8, <1>9, <1>10 DEF TypeInv, TypeOK, GraphOK, TasksKnown, Enter, rows

LEMMA ClaimType ==
    ASSUME TypeInv, NEW w \in Worker, NEW s \in Step, Claim(w, s) PROVE TypeInv'
<1> DEFINE k == worker[w]
           c == [k EXCEPT !.pc = "claimed", !.cur = s, !.out = << >>,
                          !.view.step[s] = "in_progress"]
<1>1. worker[w] \in Busy /\ Known(worker[w].view, row)
  BY PcIsBusy DEF Claim, Handles
<1>2. c \in Busy /\ c.view = [k.view EXCEPT !.step = [@ EXCEPT ![s] = "in_progress"]]
  BY <1>1, MessageTypes DEF Busy, View, StepStatus, ModelStatus
<1>3. Known(c.view, row')
  BY <1>1, <1>2 DEF Known, Busy, View, Claim
<1>4. worker' = [worker EXCEPT ![w] = c] /\ UNCHANGED row
  BY DEF Claim
<1>5. worker' \in [Worker -> {Idle} \cup Busy] /\ ViewsKnown'
  <2> HIDE DEF c
  <2> QED
    BY <1>2, <1>3, <1>4, RowsStay, NewWorker
<1>6. step' \in [Step -> StepStatus]
  BY CommitStepType DEF Claim, StepStatus, ModelStatus
<1>7. /\ msgs' \in Seq(Message) /\ Len(msgs') <= MaxQueue
      /\ task' \in [Res -> 0 .. MaxQueue]
  BY <1>1, FlushType DEF Claim
<1> QED
  BY <1>5, <1>6, <1>7 DEF TypeInv, TypeOK, GraphOK, TasksKnown, Claim

LEMMA FollowType ==
    ASSUME TypeInv, NEW w \in Worker, NEW s \in Step, Follow(w, s) PROVE TypeInv'
<1> DEFINE k == worker[w]
           status == k.view.row[s].status
           sends == Resends(k, s)
           c == Stepped(k, s, status, k.view.row[s], sends)
<1>1. k \in Busy /\ Known(k.view, row)
  BY PcIsBusy DEF Follow, Handles
<1>2. k.view.row[s] # Absent
  BY DEF Follow, Call
<1>3. k.view.row[s] \in Row /\ status \in StepStatus
  BY <1>1, <1>2 DEF Busy, View, Row, StepStatus
<1>4. sends \in BOOLEAN
  BY DEF Resends
<1>5. worker' = [worker EXCEPT ![w] = c] /\ UNCHANGED row /\ CommitStep(w, s, status)
  BY DEF Follow
<1> HIDE DEF sends, status
<1>6. c \in Busy /\ Saw(c.view, k.view, s, status, k.view.row[s])
  <2>1. GraphOK /\ k.view.row[s] \in Row \cup {Absent}
    BY <1>3 DEF TypeInv
  <2> HIDE DEF k
  <2> QED
    BY <1>1, <1>3, <2>1, SteppedType
<1>7. Known(c.view, row')
  BY <1>1, <1>5, <1>6 DEF Known, Busy, View, Saw
<1>8. worker' \in [Worker -> {Idle} \cup Busy] /\ ViewsKnown'
  <2> HIDE DEF c, k
  <2> QED
    BY <1>5, <1>6, <1>7, RowsStay, NewWorker
<1>9. step' \in [Step -> StepStatus]
  BY <1>3, <1>5, CommitStepType
<1>10. /\ msgs' \in Seq(Message) /\ Len(msgs') <= MaxQueue
       /\ task' \in [Res -> 0 .. MaxQueue]
  BY <1>1, FlushType DEF Follow
<1> QED
  BY <1>8, <1>9, <1>10 DEF TypeInv, TypeOK, GraphOK, TasksKnown, Follow

LEMMA CommitsType ==
    ASSUME TypeInv, NEW w \in Worker, worker[w].pc # "idle", NEW s \in Step,
           NEW call \in {"approve", "execute", "destroy"}, NEW sends \in BOOLEAN,
           Commits(w, s, call, sends)
    PROVE  TypeInv'
<1> DEFINE k == worker[w]
           r == <<s, k.view.link[s]>>
           new == Merged(row[r], k.view.row[s], Effect(k.view.row[s], call))
           again == IF sends THEN Resends(k, s) ELSE new.status = "approval_pending"
           c == Stepped(k, s, new.status, new, again)
<1>1. k \in Busy /\ Known(k.view, row)
  BY PcIsBusy
<1>2. k.view.row[s] # Absent
  <2>1. Accepts(k, s, call)
    BY DEF Commits
  <2> HIDE DEF k
  <2>2. CASE call = "approve"
    BY <2>1, <2>2 DEF Accepts, Absent
  <2>3. CASE call = "execute"
    BY <2>1, <2>3 DEF Accepts, CanBeExecuted, At, Absent
  <2>4. CASE call = "destroy"
    BY <2>1, <2>4 DEF Accepts, Absent
  <2> QED
    BY <2>2, <2>3, <2>4
<1>3. k.view.row[s] \in Row /\ r \in Res /\ row[r] \in Row
  BY <1>1, <1>2 DEF Busy, View, Known, Res, TypeInv, TypeOK
<1>4. new \in Row
  <2>1. gated \in BOOLEAN
    BY InstanceAssumption DEF TypeInv, TypeOK
  <2> QED
    BY <1>3, <2>1, EffectRow, MergedRow
<1>5. again \in BOOLEAN
  BY DEF Resends
<1>6. /\ worker' = [worker EXCEPT ![w] = c] /\ row' = [row EXCEPT ![r] = new]
      /\ CommitStep(w, s, new.status) /\ Flush(w, IF call = "execute" THEN {r} ELSE {})
  BY DEF Commits
<1>7. new.status \in StepStatus
  BY <1>4 DEF Row, StepStatus
<1> HIDE DEF again, new
<1>8. c \in Busy /\ Saw(c.view, k.view, s, new.status, new)
  <2>1. GraphOK /\ new \in Row \cup {Absent}
    BY <1>4 DEF TypeInv
  <2> HIDE DEF k
  <2> QED
    BY <1>1, <1>7, <2>1, SteppedType
<1>9. Stays /\ row'[r] # Absent
  BY <1>3, <1>4, <1>6, AbsentIsNoRow DEF Stays, TypeInv, TypeOK
<1>10. Known(c.view, row')
  <2> SUFFICES ASSUME NEW t \in Step, c.view.row[t] # Absent
               PROVE  c.view.link[t] \in Numbers /\ row'[<<t, c.view.link[t]>>] # Absent
    BY DEF Known
  <2>1. c.view.link[t] = k.view.link[t]
    BY <1>1, <1>8 DEF Busy, View, Saw
  <2>2. CASE t = s
    BY <1>1, <1>2, <1>9, <2>1, <2>2 DEF Known
  <2>3. CASE t # s
    <3>1. k.view.row[t] # Absent
      BY <1>1, <1>8, <2>3 DEF Busy, View, Saw
    <3>2. k.view.link[t] \in Numbers /\ row[<<t, k.view.link[t]>>] # Absent
      BY <1>1, <3>1 DEF Known
    <3> QED
      BY <1>9, <2>1, <3>2 DEF Stays, Res
  <2> QED
    BY <2>2, <2>3
<1>11. worker' \in [Worker -> {Idle} \cup Busy] /\ ViewsKnown'
  <2> HIDE DEF c, k
  <2> QED
    BY <1>6, <1>8, <1>9, <1>10, NewWorker
<1>12. step' \in [Step -> StepStatus]
  BY <1>6, <1>7, CommitStepType
<1>13. /\ msgs' \in Seq(Message) /\ Len(msgs') <= MaxQueue
       /\ task' \in [Res -> 0 .. MaxQueue]
  BY <1>1, <1>3, <1>6, FlushType
<1>14. UNCHANGED <<action, gated, needs, wf, link, run, starts, faults, unwired, dropped>>
  BY DEF Commits
<1>15. TasksKnown'
  BY <1>9, <1>14 DEF TasksKnown, Stays, TypeInv
<1> QED
  BY <1>9, <1>11, <1>12, <1>13, <1>14, <1>15 DEF TypeInv, TypeOK, GraphOK, Stays

LEMMA AskType ==
    ASSUME TypeInv, NEW w \in Worker, NEW s \in Step, Ask(w, s) PROVE TypeInv'
<1>1. worker[w].pc # "idle" /\ Call(worker[w], s) \in {"approve", "execute", "destroy"}
      /\ Commits(w, s, Call(worker[w], s), TRUE)
  BY DEF Ask, Handles
<1> QED
  BY <1>1, CommitsType

LEMMA OrderType ==
    ASSUME TypeInv, NEW w \in Worker, Order(w) PROVE TypeInv'
<1> DEFINE call == IF worker[w].view.row[worker[w].cur].state = "destroy"
                   THEN "execute" ELSE "destroy"
<1>1. worker[w].pc # "idle" /\ worker[w].cur \in Step
  BY PcIsBusy DEF Order, Busy
<1>2. call \in {"approve", "execute", "destroy"} /\ Commits(w, worker[w].cur, call, FALSE)
  BY DEF Order
<1> HIDE DEF call
<1> QED
  BY <1>1, <1>2, CommitsType

\* The next resource of a step.
LEMMA NextNumber ==
    ASSUME TypeInv, NEW s \in Step
    PROVE  Cardinality({n \in Numbers : row[<<s, n>>] # Absent}) \in Nat
<1>1. IsFiniteSet(Numbers)
  BY BoundsAssumption, FS_Interval DEF Numbers
<1>2. {n \in Numbers : row[<<s, n>>] # Absent} \in SUBSET Numbers
  OBVIOUS
<1> QED
  BY <1>1, <1>2, FS_Subset, FS_CardinalityType

LEMMA CreateType ==
    ASSUME TypeInv, NEW w \in Worker, Create(w) PROVE TypeInv'
<1> DEFINE k == worker[w]
           s == k.cur
           used == {n \in Numbers : row[<<s, n>>] # Absent}
           n == Cardinality(used) + 1
           new == At(Gate(gated), "provision")
           k2 == [k EXCEPT !.view.link[s] = n]
           c == Stepped(k2, s, "approval_pending", new, TRUE)
<1>1. k \in Busy /\ Known(k.view, row) /\ s \in Step
  BY PcIsBusy DEF Create, Busy
<1>2. n \in Numbers
  <2>1. n \in Nat \ {0} /\ n <= MaxResources
    BY <1>1, NextNumber DEF Create
  <2> QED
    BY <2>1, BoundsAssumption DEF Numbers
<1>3. new \in Row
  BY InstanceAssumption DEF At, Gate, Row, ModelStatus, ModelState, TypeInv, TypeOK
<1>4. /\ worker' = [worker EXCEPT ![w] = c]
      /\ row' = [row EXCEPT ![<<s, n>>] = new]
      /\ link' = [link EXCEPT ![s] = n]
      /\ CommitStep(w, s, "approval_pending")
      /\ Flush(w, {})
      /\ unwired' = IF needs[s] \subseteq k.early THEN unwired ELSE unwired \cup {s}
      /\ UNCHANGED <<action, gated, needs, wf, run, starts, faults, dropped>>
  BY DEF Create
<1>5. <<s, n>> \in Res
  BY <1>1, <1>2 DEF Res
<1> HIDE DEF n, new
<1>6. k2 \in Busy /\ k2.view.row = k.view.row /\ k2.view.wf = k.view.wf
      /\ k2.view.step = k.view.step
      /\ k2.view.link = [k.view.link EXCEPT ![s] = n]
  <2>1. n \in 0 .. MaxResources
    BY <1>2, BoundsAssumption DEF Numbers
  <2> HIDE DEF k, s
  <2>2. [k.view.link EXCEPT ![s] = n] \in [Step -> 0 .. MaxResources]
    BY <1>1, <2>1 DEF Busy, View
  <2> QED
    BY <1>1, <2>2 DEF Busy, View
<1> HIDE DEF k2
<1>7. "approval_pending" \in StepStatus
  BY DEF StepStatus, ModelStatus
<1>8. c \in Busy /\ Saw(c.view, k2.view, s, "approval_pending", new)
  <2>1. GraphOK /\ new \in Row \cup {Absent}
    BY <1>3 DEF TypeInv
  <2> QED
    BY <1>1, <1>6, <1>7, <2>1, SteppedType
<1>9. Stays /\ row'[<<s, n>>] # Absent
  BY <1>3, <1>4, <1>5, AbsentIsNoRow DEF Stays, TypeInv, TypeOK
<1>10. Known(c.view, row')
  <2> SUFFICES ASSUME NEW t \in Step, c.view.row[t] # Absent
               PROVE  c.view.link[t] \in Numbers /\ row'[<<t, c.view.link[t]>>] # Absent
    BY DEF Known
  <2>1. c.view.link[t] = IF t = s THEN n ELSE k.view.link[t]
    <3> HIDE DEF c, k, s
    <3> QED
      BY <1>1, <1>6, <1>8 DEF Busy, View, Saw
  <2>2. CASE t = s
    BY <1>2, <1>9, <2>1, <2>2
  <2>3. CASE t # s
    <3>1. k.view.row[t] # Absent
      <4> HIDE DEF c, k, s
      <4> QED
        BY <1>1, <1>6, <1>8, <2>3 DEF Busy, View, Saw
    <3>2. k.view.link[t] \in Numbers /\ row[<<t, k.view.link[t]>>] # Absent
      BY <1>1, <3>1 DEF Known
    <3> QED
      BY <1>9, <2>1, <2>3, <3>2 DEF Stays, Res
  <2> QED
    BY <2>2, <2>3
<1>11. worker' \in [Worker -> {Idle} \cup Busy] /\ ViewsKnown'
  <2> HIDE DEF c, k
  <2> QED
    BY <1>4, <1>8, <1>9, <1>10, NewWorker
<1>12. step' \in [Step -> StepStatus]
  BY <1>1, <1>4, <1>7, CommitStepType
<1>13. /\ msgs' \in Seq(Message) /\ Len(msgs') <= MaxQueue
       /\ task' \in [Res -> 0 .. MaxQueue]
  BY <1>1, <1>4, FlushType
<1>14. link' \in [Step -> 0 .. MaxResources] /\ unwired' \subseteq Step
  BY <1>1, <1>2, <1>4, BoundsAssumption DEF TypeInv, TypeOK, Numbers
<1>15. TasksKnown'
  BY <1>4, <1>9 DEF TasksKnown, Stays, TypeInv
<1> QED
  BY <1>4, <1>9, <1>11, <1>12, <1>13, <1>14, <1>15 DEF TypeInv, TypeOK, GraphOK, Stays

LEMMA FaultType ==
    ASSUME TypeInv, NEW kind, Fault(kind) PROVE faults' \in 0 .. MaxFaults
BY BoundsAssumption DEF TypeInv, TypeOK, Fault

LEMMA RaiseType ==
    ASSUME TypeInv, NEW w \in Worker, NEW s \in Step, Raise(w, s) PROVE TypeInv'
<1> DEFINE k == worker[w]
           again == IF k.level = k.target THEN k.view ELSE Loaded
           k2 == [k EXCEPT !.todo = @ \ {s}, !.cur = s, !.bad = TRUE, !.out = << >>,
                           !.view = [again EXCEPT !.step[s] = "error"]]
           c == Continue(k2)
<1>1. k \in Busy /\ Known(k.view, row)
  BY PcIsBusy DEF Raise, Handles
<1>2. again \in View /\ Known(again, row)
  BY <1>1, LoadedType DEF Busy
<1>3. /\ worker' = [worker EXCEPT ![w] = c]
      /\ step' = [step EXCEPT ![s] = Changed(@, again.step[s], "error")]
      /\ Flush(w, {})
      /\ dropped' \in {dropped, dropped \cup {s}}
      /\ UNCHANGED <<action, gated, needs, wf, link, row, run, starts, unwired>>
  BY DEF Raise
<1> HIDE DEF again
<1>4. "error" \in StepStatus
  BY DEF StepStatus, ModelStatus
<1>5. k2 \in Busy /\ k2.view = [again EXCEPT !.step = [@ EXCEPT ![s] = "error"]]
  BY <1>1, <1>2, <1>4, MessageTypes DEF Busy, View
<1>6. Known(k2.view, row)
  BY <1>2, <1>5 DEF Known, View
<1> HIDE DEF k2
<1>7. c \in Busy /\ c.view = k2.view
  BY <1>5, ContinueResult DEF Keeps, TypeInv
<1>8. worker' \in [Worker -> {Idle} \cup Busy] /\ ViewsKnown'
  <2> HIDE DEF c, k
  <2> QED
    BY <1>3, <1>6, <1>7, RowsStay, NewWorker
<1>9. step' \in [Step -> StepStatus]
  BY <1>3, <1>4 DEF Changed, TypeInv, TypeOK
<1>10. /\ msgs' \in Seq(Message) /\ Len(msgs') <= MaxQueue
       /\ task' \in [Res -> 0 .. MaxQueue]
  BY <1>1, <1>3, FlushType
<1>11. faults' \in 0 .. MaxFaults
  <2>1. UNCHANGED faults \/ \E kind \in {"refuse", "refuse_cascade"} : Fault(kind)
    BY DEF Raise, Refused
  <2> QED
    BY <2>1, FaultType DEF TypeInv, TypeOK
<1> QED
  BY <1>3, <1>8, <1>9, <1>10, <1>11 DEF TypeInv, TypeOK, GraphOK, TasksKnown

LEMMA ConcludeType ==
    ASSUME TypeInv, NEW w \in Worker, Conclude(w) PROVE TypeInv'
<1> DEFINE status == IF worker[w].pc = "complete" THEN "done" ELSE "error"
           c == [worker[w] EXCEPT !.pc = "end", !.view.wf = status, !.out = << >>]
<1>1. worker[w] \in Busy /\ Known(worker[w].view, row)
  BY PcIsBusy DEF Conclude
<1>2. c \in Busy /\ c.view.row = worker[w].view.row /\ c.view.link = worker[w].view.link
  BY <1>1, MessageTypes, InstanceAssumption DEF Busy, View, WorkflowStatus
<1>3. worker' = [worker EXCEPT ![w] = c] /\ UNCHANGED row /\ Flush(w, {})
  BY DEF Conclude
<1>4. Known(c.view, row')
  BY <1>1, <1>2, <1>3 DEF Known
<1>5. worker' \in [Worker -> {Idle} \cup Busy] /\ ViewsKnown'
  <2> HIDE DEF c
  <2> QED
    BY <1>2, <1>3, <1>4, RowsStay, NewWorker
<1>6. wf' \in WorkflowStatus
  BY DEF Conclude, CommitWorkflow, Changed, WorkflowStatus, TypeInv, TypeOK
<1>7. /\ msgs' \in Seq(Message) /\ Len(msgs') <= MaxQueue
      /\ task' \in [Res -> 0 .. MaxQueue]
  BY <1>1, <1>3, FlushType
<1> QED
  BY <1>5, <1>6, <1>7 DEF TypeInv, TypeOK, GraphOK, TasksKnown, Conclude

LEMMA FinishType ==
    ASSUME TypeInv, NEW w \in Worker, Finish(w) PROVE TypeInv'
<1>1. worker[w] \in Busy
  BY PcIsBusy DEF Finish
<1>2. worker' \in [Worker -> {Idle} \cup Busy] /\ ViewsKnown'
  BY RowsStay, NewWorker DEF Finish
<1>3. /\ msgs' \in Seq(Message) /\ Len(msgs') <= MaxQueue
      /\ task' \in [Res -> 0 .. MaxQueue]
  BY <1>1, FlushType DEF Finish
<1> QED
  BY <1>2, <1>3 DEF TypeInv, TypeOK, GraphOK, TasksKnown, Finish

LEMMA CrashType ==
    ASSUME TypeInv, NEW w \in Worker, Crash(w) PROVE TypeInv'
<1>1. worker[w] \in Busy
  BY WorkerIsBusy DEF Crash
<1>2. worker' \in [Worker -> {Idle} \cup Busy] /\ ViewsKnown'
  BY RowsStay, NewWorker DEF Crash, rows
<1>3. msgs' \in Seq(Message) /\ Len(msgs') <= MaxQueue
  <2>1. /\ msgs \in Seq(Message) /\ Len(msgs) \in Nat /\ Len(msgs) < MaxQueue
        /\ <<worker[w].msg>> \in Seq(Message) /\ Len(<<worker[w].msg>>) = 1
    BY <1>1 DEF TypeInv, TypeOK, Crash, Busy
  <2>2. Len(msgs') = 1 + Len(msgs) /\ msgs' \in Seq(Message)
    BY <2>1, ConcatProperties DEF Crash
  <2> QED
    BY <2>1, <2>2, BoundsAssumption
<1>4. faults' \in 0 .. MaxFaults
  BY FaultType DEF Crash
<1>5. dropped' \subseteq Step
  BY <1>1 DEF Crash, Busy, TypeInv, TypeOK
<1> QED
  BY <1>2, <1>3, <1>4, <1>5 DEF TypeInv, TypeOK, GraphOK, TasksKnown, Crash, rows

\* Nor do the rows that sessions remember go away meanwhile.
LEMMA ViewsStay ==
    ASSUME TypeInv, Stays, UNCHANGED worker PROVE ViewsKnown'
<1> SUFFICES ASSUME NEW w \in Worker, worker[w] # Idle PROVE Known(worker[w].view, row')
  BY DEF ViewsKnown
<1>1. Known(worker[w].view, row)
  BY WorkerIsBusy
<1> QED
  BY <1>1 DEF Known, Stays, Res

LEMMA StartTaskType ==
    ASSUME TypeInv, NEW r \in Res, StartTask(r) PROVE TypeInv'
<1>1. row[r] \in Row \cup {Absent} /\ task[r] \in 0 .. MaxQueue /\ run[r] \in Nat
  BY DEF TypeInv, TypeOK
<1>2. Stays /\ TasksKnown' /\ run' \in [Res -> Nat]
  <2>1. CASE Executable(row[r])
    <3>1. row[r] \in Row /\ MakeInProgress(row[r]) \in Row
      BY <1>1, <2>1 DEF Executable, Runnable, Absent, MakeInProgress, At, Row, ModelStatus
    <3>2. /\ row' = [row EXCEPT ![r] = MakeInProgress(row[r])]
          /\ run' = [run EXCEPT ![r] = run[r] + 1]
      BY <2>1 DEF StartTask
    <3> QED
      BY <1>1, <3>1, <3>2, AbsentIsNoRow DEF Stays, TasksKnown, TypeInv, TypeOK
  <2>2. CASE ~Executable(row[r])
    <3>1. UNCHANGED <<row, run>>
      BY <2>2 DEF StartTask
    <3> QED
      BY <3>1, RowsStay DEF TasksKnown, TypeInv, TypeOK
  <2> QED
    BY <2>1, <2>2
<1>3. task' \in [Res -> 0 .. MaxQueue]
  BY <1>1, BoundsAssumption DEF StartTask, TypeInv, TypeOK
<1>4. ViewsKnown'
  BY <1>2, ViewsStay DEF StartTask
<1> QED
  BY <1>2, <1>3, <1>4 DEF TypeInv, TypeOK, GraphOK, StartTask, Stays

LEMMA EndTaskType ==
    ASSUME TypeInv, NEW r \in Res, EndTask(r) PROVE TypeInv'
<1> DEFINE held == At("in_progress", row[r].state)
<1>1. row[r] \in Row /\ run[r] \in Nat /\ run[r] # 0
  BY DEF TypeInv, TypeOK, TasksKnown, EndTask
<1>2. held \in Row
  BY <1>1 DEF At, Row, ModelStatus
<1>3. PICK kind \in {"none", "fail", "callback"} :
        /\ IF kind = "none" THEN UNCHANGED faults ELSE Fault(kind)
        /\ row' = [row EXCEPT ![r] =
                Merged(@, held, IF kind = "fail" THEN MakeFailed(held) ELSE MakeDone(held))]
        /\ Publish(IF kind = "callback" THEN << >> ELSE <<r>>)
        /\ dropped' = IF kind = "callback" THEN dropped \cup {r[1]} ELSE dropped
  BY DEF EndTask
<1> DEFINE new == IF kind = "fail" THEN MakeFailed(held) ELSE MakeDone(held)
<1>4. new \in Row
  BY <1>2 DEF MakeFailed, MakeDone, At, Row, ModelStatus, ModelState
<1>5. Merged(row[r], held, new) \in Row
  BY <1>1, <1>2, <1>4, MergedRow
<1>6. Stays
  <2> HIDE DEF new, held
  <2>1. row' = [row EXCEPT ![r] = Merged(row[r], held, new)]
    BY <1>3 DEF new, held
  <2> QED
    BY <1>5, <2>1, AbsentIsNoRow DEF Stays, TypeInv, TypeOK
<1>7. msgs' \in Seq(Message) /\ Len(msgs') <= MaxQueue
  <2> DEFINE out == IF kind = "callback" THEN << >> ELSE <<r>>
  <2>0. r \in Message
    BY DEF Message
  <2>1. out \in Seq(Message)
    BY <2>0
  <2>2. Publish(out)
    BY <1>3
  <2> HIDE DEF out
  <2> QED
    BY <2>1, <2>2, ConcatProperties DEF Publish, TypeInv, TypeOK
<1>8. faults' \in 0 .. MaxFaults
  BY <1>3, FaultType DEF TypeInv, TypeOK
<1>9. dropped' \subseteq Step
  BY <1>3 DEF TypeInv, TypeOK, Res
<1>10. run' \in [Res -> Nat] /\ \A q \in Res : run'[q] > 0 => run[q] > 0
  BY <1>1 DEF EndTask, TypeInv, TypeOK
<1>11. TasksKnown'
  BY <1>6, <1>10 DEF TasksKnown, Stays, TypeInv
<1>12. ViewsKnown'
  BY <1>6, ViewsStay DEF EndTask
<1> QED
  BY <1>6, <1>7, <1>8, <1>9, <1>10, <1>11, <1>12
     DEF TypeInv, TypeOK, GraphOK, EndTask, Stays

LEMMA ExecuteType == ASSUME TypeInv, Execute PROVE TypeInv'
<1>1. msgs' \in Seq(Message) /\ Len(msgs') <= MaxQueue
  <2>1. << <<>> >> \in Seq(Message)
    BY DEF Message
  <2> QED
    BY <2>1, ConcatProperties DEF Execute, Publish, TypeInv, TypeOK
<1>2. starts' \in 0 .. MaxStarts
  BY BoundsAssumption DEF Execute, TypeInv, TypeOK
<1>3. ViewsKnown'
  BY RowsStay, ViewsStay DEF Execute, rows
<1> QED
  BY <1>1, <1>2, <1>3 DEF TypeInv, TypeOK, GraphOK, TasksKnown, Execute, rows

LEMMA InitType == ASSUME Init PROVE TypeInv
<1>1. \A r \in Res : row[r] \in Row \cup {Absent}
  BY DEF Init, At, Row, ModelStatus, ModelState
<1>2. row \in [Res -> Row \cup {Absent}]
  <2>1. DOMAIN row = Res /\ row = [r \in Res |-> row[r]]
    BY DEF Init
  <2> QED
    BY <1>1, <2>1
<1>3. /\ action \in Actions /\ gated \in Approvals /\ GraphOK
      /\ wf \in WorkflowStatus /\ step \in [Step -> StepStatus]
      /\ link \in [Step -> 0 .. MaxResources]
  BY InstanceAssumption, BoundsAssumption DEF Init, GraphOK, WorkflowStatus, StepStatus
<1>4. /\ task \in [Res -> 0 .. MaxQueue] /\ run \in [Res -> Nat]
      /\ msgs \in Seq(Message) /\ Len(msgs) <= MaxQueue
      /\ worker \in [Worker -> {Idle} \cup Busy]
      /\ starts \in 0 .. MaxStarts /\ faults \in 0 .. MaxFaults
      /\ unwired \subseteq Step /\ dropped \subseteq Step
      /\ ViewsKnown /\ TasksKnown
  BY BoundsAssumption DEF Init, ViewsKnown, TasksKnown
<1> QED
  BY <1>2, <1>3, <1>4 DEF TypeInv, TypeOK, GraphOK

LEMMA TypeStep == ASSUME TypeInv, [Next]_vars PROVE TypeInv'
<1>1. ASSUME NEW w \in Worker, Receive(w) \/ Handle(w) \/ Crash(w) PROVE TypeInv'
  BY <1>1, ReceiveType, EnterType, ClaimType, FollowType, AskType, OrderType, CreateType,
     RaiseType, ConcludeType, FinishType, CrashType DEF Handle
<1>2. ASSUME Tasks PROVE TypeInv'
  BY <1>2, StartTaskType, EndTaskType DEF Tasks
<1>3. CASE UNCHANGED vars
  BY <1>3 DEF vars, TypeInv, TypeOK, GraphOK, ViewsKnown, TasksKnown
<1> QED
  BY <1>1, <1>2, <1>3, ExecuteType DEF Next

\* Every variable keeps its type, and so does all that the session of a worker
\* remembers, however many workers handle messages of the workflow.
THEOREM TypeCorrect == Spec => []TypeOK
<1>1. Init => TypeInv
  BY InitType
<1>2. TypeInv /\ [Next]_vars => TypeInv'
  BY TypeStep
<1>3. TypeInv => TypeOK
  BY DEF TypeInv
<1> QED
  BY <1>1, <1>2, <1>3, PTL DEF Spec

-----------------------------------------------------------------------------
(* What a workflow promises as long as its messages are handled one at a   *)
(* time, by whichever worker, and no service call of a cascade is refused: *)
(* for every blueprint and cascade, any number of workers, and any other   *)
(* faults (crashes, redelivered and lost messages, failed tasks, refused   *)
(* calls of creations).                                                    *)

\* Nobody else handles a message of the workflow while w does.
Alone(w) == \A v \in Worker : v # w => worker[v] = Idle

\* A step of a cascade that is refused goes to ERROR and, tried again, takes its
\* resource, still DONE, for destroyed.
CascadesAccepted == "refuse_cascade" \notin FaultKinds

-----------------------------------------------------------------------------
(* The invariant.                                                          *)

\* The row of a resource before the workflow touches it, once it is done with
\* it, and in between.
Start == IF action = "create" THEN Absent ELSE At("done", "provisioned")
Goal == At("done", IF action = "create" THEN "provisioned" ELSE "destroyed")
Aim == IF action = "create" THEN "provision" ELSE "destroy"
Under == {"queued", "in_progress"}
Between == {At(status, Aim) : status \in {"approval_pending", "ready", "error"} \cup Under}

\* A step has at most one resource, the one it is linked to.
RowsInv ==
    \A s \in Step :
        /\ LoadedRow(s) \in {Start, Goal} \cup Between
        /\ link[s] # 0 => link[s] = 1 /\ row[<<s, 1>>] # Absent
        /\ \A n \in Numbers : n # link[s] => row[<<s, n>>] = Absent

\* A row says what tasks there are.
TasksInv ==
    \A r \in Res :
        /\ task[r] = IF row[r].status = "queued" THEN 1 ELSE 0
        /\ run[r] = IF row[r].status = "in_progress" THEN 1 ELSE 0

\* What the status of a step says of the row.  A step that has been claimed, or
\* whose creation was refused, has no row yet.
Fits(status, r) ==
    /\ status = "pending" => r = Start
    /\ status = "done" => r = Goal
    /\ r = Start => \/ status \in {"pending", "in_progress"}
                    \/ status = "error" /\ action = "create"

StepsInv ==
    \A s \in Step :
        /\ Fits(step[s], LoadedRow(s))
        /\ LoadedRow(s) # Start => \A d \in Before(s) : LoadedRow(d) = Goal

\* There are messages only about steps that have been acted on: what a message
\* is about is handled whatever its level.
Told(m) == m # << >> => LoadedRow(m[1]) # Start

MsgsInv == \A i \in DOMAIN msgs : Told(msgs[i])

\* What the session remembers is what is there, or what was there before the
\* resource task took it on.
SeesRow(k, s) ==
    \/ k.view.row[s] = LoadedRow(s)
    \/ /\ k.view.row[s] \in {At(status, Aim) : status \in Under}
       /\ LoadedRow(s) \in {Goal} \cup {At(status, Aim) : status \in Under \cup {"error"}}

Sees(k) ==
    /\ k.view.wf = wf /\ k.view.step = step /\ k.view.link = link
    /\ \A s \in Step : SeesRow(k, s) /\ (step[s] = "done" => k.view.row[s] = Goal)

Holds(k) ==
    /\ Sees(k)
    /\ Told(k.msg)
    /\ \A i \in DOMAIN k.out : Told(k.out[i])
    /\ \A s \in k.target : LoadedRow(s) # Start /\ k.target = {s}

\* A level that is not what the message is about waits for nothing.
WorkerOK(k) ==
    /\ Holds(k)
    /\ k.pc \in {"steps", "claimed", "complete", "fail"} => wf = "in_progress"
    /\ k.pc \in {"steps", "claimed"} =>
            k.todo \subseteq k.level /\ (k.level # k.target => Waited(k, k.level))
    /\ k.pc = "claimed" => /\ step[k.cur] = "in_progress" /\ LoadedRow(k.cur) = Start
                           /\ k.level # k.target
                           /\ \A d \in Before(k.cur) : step[d] = "done"
    /\ k.pc = "complete" => AllDone(k, Step)

WorkerInv == \A w \in Worker : worker[w] # Idle => WorkerOK(worker[w])

OrderInv == /\ TypeInv /\ RowsInv /\ TasksInv /\ StepsInv /\ MsgsInv /\ WorkerInv
            /\ DoneMeansAllDone

-----------------------------------------------------------------------------
(* Rows.                                                                   *)

\* The rows the invariant tells apart.
LEMMA Kinds ==
    ASSUME GraphOK
    PROVE  /\ Start # Goal
           /\ \A status : At(status, Aim) \notin {Start, Goal}
           /\ \A status : At(status, Aim).status = status /\ At(status, Aim).state = Aim
           /\ Start.status \notin Under /\ Goal.status = "done"
           /\ Start \notin Between /\ Goal \notin Between
           /\ Absent \notin Between /\ Goal # Absent
           /\ \A r \in Between : r.state = Aim
                 /\ r.status \in {"approval_pending", "ready", "error"} \cup Under
                 /\ r = At(r.status, Aim)
BY DEF GraphOK, Start, Goal, Aim, At, Absent, Between, Under

\* The meaning of the names does not change.
LEMMA Frame ==
    ASSUME UNCHANGED <<action, needs>>
    PROVE  /\ Start' = Start /\ Goal' = Goal /\ Aim' = Aim /\ Between' = Between
           /\ \A s \in Step : Before(s)' = Before(s)
           /\ \A status, r : Fits(status, r)' <=> Fits(status, r)
           /\ \A k, L : Waited(k, L)' <=> Waited(k, L)
BY DEF Start, Goal, Aim, Between, Before, Fits, Waited

\* Whatever is there is the resource of its step.
LEMMA RowOf ==
    ASSUME TypeInv, RowsInv, NEW r \in Res, row[r] # Absent
    PROVE  /\ r[1] \in Step /\ r = <<r[1], 1>> /\ link[r[1]] = 1
           /\ row[r] = LoadedRow(r[1])
<1>1. PICK s \in Step, n \in Numbers : r = <<s, n>>
  BY DEF Res
<1>2. n = link[s]
  BY <1>1 DEF RowsInv
<1>3. n # 0
  BY BoundsAssumption DEF Numbers
<1> QED
  BY <1>1, <1>2, <1>3 DEF RowsInv, LoadedRow

\* A row with a task or an execution is on its way.
LEMMA RowUnder ==
    ASSUME TypeInv, RowsInv, NEW r \in Res, row[r].status \in Under
    PROVE  /\ r[1] \in Step /\ r = <<r[1], 1>> /\ link[r[1]] = 1
           /\ row[r] = LoadedRow(r[1])
           /\ row[r] = At(row[r].status, Aim)
<1>1. row[r] # Absent
  BY DEF Absent, Under
<1>2. /\ r[1] \in Step /\ r = <<r[1], 1>> /\ link[r[1]] = 1
      /\ row[r] = LoadedRow(r[1])
  BY <1>1, RowOf
<1>3. row[r] \in Between
  BY <1>2, Kinds DEF RowsInv, TypeInv, Under
<1> QED
  BY <1>2, <1>3, Kinds DEF TypeInv

-----------------------------------------------------------------------------
(* Messages.                                                               *)

LEMMA MessageStep == ASSUME NEW m \in Message, m # << >> PROVE m[1] \in Step
BY DEF Message, Res

\* No resource is as before once it has been acted on.
Onwards == UNCHANGED <<action, needs>>
           /\ \A s \in Step : LoadedRow(s) # Start => LoadedRow(s)' # Start

LEMMA ToldStays ==
    ASSUME Onwards, NEW m \in Message, Told(m) PROVE Told(m)'
<1>1. CASE m = << >>
  BY <1>1 DEF Told
<1>2. CASE m # << >>
  <2>1. m[1] \in Step /\ LoadedRow(m[1]) # Start
    BY <1>2, MessageStep DEF Told
  <2>2. LoadedRow(m[1])' # Start /\ Start' = Start
    BY <2>1, Frame DEF Onwards
  <2> QED
    BY <2>2 DEF Told
<1> QED
  BY <1>1, <1>2

\* What is sent joins what is in the queue.
LEMMA MsgsAppend ==
    ASSUME NEW a \in Seq(Message), NEW b \in Seq(Message), Onwards, msgs' = a \o b,
           \A i \in DOMAIN a : Told(a[i]) \/ Told(a[i])', \A i \in DOMAIN b : Told(b[i]) \/ Told(b[i])'
    PROVE  MsgsInv'
<1> SUFFICES ASSUME NEW i \in DOMAIN (a \o b) PROVE Told((a \o b)[i])'
  BY DEF MsgsInv
<1>1. /\ Len(a) \in Nat /\ Len(b) \in Nat /\ DOMAIN a = 1 .. Len(a) /\ DOMAIN b = 1 .. Len(b)
      /\ i \in 1 .. Len(a) + Len(b)
      /\ (a \o b)[i] = IF i <= Len(a) THEN a[i] ELSE b[i - Len(a)]
  BY ConcatProperties
<1>2. CASE i <= Len(a)
  <2>1. a[i] \in Message /\ (Told(a[i]) \/ Told(a[i])')
    BY <1>1, <1>2
  <2> QED
    BY <1>1, <1>2, <2>1, ToldStays
<1>3. CASE i > Len(a)
  <2>1. i - Len(a) \in DOMAIN b
    BY <1>1, <1>3
  <2>2. b[i - Len(a)] \in Message /\ (Told(b[i - Len(a)]) \/ Told(b[i - Len(a)])')
    BY <2>1
  <2> QED
    BY <1>1, <1>3, <2>2, ToldStays
<1> QED
  BY <1>1, <1>2, <1>3

\* A commit of a worker sends what it has buffered.
LEMMA FlushTold ==
    ASSUME TypeInv, MsgsInv, NEW w \in Worker, worker[w] \in Busy, Holds(worker[w]),
           NEW calls, Flush(w, calls), Onwards
    PROVE  MsgsInv'
<1>1. msgs \in Seq(Message) /\ worker[w].out \in Seq(Message)
  BY DEF TypeInv, TypeOK, Busy
<1>2. msgs' = msgs \o worker[w].out
  BY DEF Flush, Publish
<1> QED
  BY <1>1, <1>2, MsgsAppend DEF MsgsInv, Holds

\* Without calls no task is sent.
LEMMA FlushNothing ==
    ASSUME TypeInv, NEW w \in Worker, Flush(w, {}) PROVE UNCHANGED task
<1>1. task \in [Res -> 0 .. MaxQueue]
  BY DEF TypeInv, TypeOK
<1>2. task' = [r \in Res |-> task[r]]
  BY DEF Flush
<1> QED
  BY <1>1, <1>2

-----------------------------------------------------------------------------
(* Workers.                                                                *)

\* A worker that takes, handles or gives back a message does so alone.
LEMMA OnesAtWork ==
    ASSUME TypeInv, TypeInv', HandlersApart, HandlersApart',
           NEW w \in Worker, Receive(w) \/ Handle(w) \/ Crash(w)
    PROVE  Alone(w) /\ Alone(w)'
<1>1. worker' = [worker EXCEPT ![w] = worker'[w]]
  BY DEF TypeInv, TypeOK, Receive, Handle, Crash, Enter, Order, Create, Conclude, Finish,
     Claim, Follow, Ask, Raise, Commits
<1>2. CASE Receive(w)
  <2>1. worker'[w] # Idle
    BY <1>2 DEF Receive, Idle, TypeInv, TypeOK
  <2> QED
    BY <1>1, <2>1 DEF Alone, HandlersApart, TypeInv, TypeOK
<1>3. CASE Handle(w) \/ Crash(w)
  <2>1. \/ worker[w].pc \in {"enter", "steps", "claimed", "complete", "fail", "end"}
        \/ worker[w] # Idle
    BY <1>3 DEF Handle, Crash, Enter, Order, Create, Conclude, Finish, Claim, Follow, Ask,
       Raise, Handles
  <2>2. worker[w] # Idle
    BY <2>1 DEF Idle
  <2> QED
    BY <1>1, <2>2 DEF Alone, HandlersApart, TypeInv, TypeOK
<1> QED
  BY <1>2, <1>3

\* The one that handles a message is all there is.
LEMMA AloneInv ==
    ASSUME TypeInv, NEW w \in Worker, Alone(w), Alone(w)', NEW c,
           worker' = [worker EXCEPT ![w] = c], c # Idle => WorkerOK(c)'
    PROVE  WorkerInv'
<1>1. \A v \in Worker : v # w => worker'[v] = Idle
  BY DEF Alone
<1>2. worker'[w] = c
  BY DEF TypeInv, TypeOK
<1> QED
  BY <1>1, <1>2 DEF WorkerInv

LEMMA WorkerIsOK ==
    ASSUME OrderInv, NEW w \in Worker, worker[w].pc # "idle"
    PROVE  worker[w] \in Busy /\ WorkerOK(worker[w])
BY PcIsBusy DEF OrderInv, WorkerInv

LEMMA RowsSame ==
    ASSUME UNCHANGED <<row, link>>
    PROVE  \A s \in Step : LoadedRow(s)' = LoadedRow(s)
BY DEF LoadedRow

\* The same data, the same sight of it.
LEMMA HoldsSame ==
    ASSUME UNCHANGED <<action, needs, row, link, step, wf>>, NEW k, Holds(k),
           NEW c, c.view = k.view, c.msg = k.msg, c.target = k.target,
           c.out = k.out \/ c.out = << >>, k \in Busy
    PROVE  Holds(c)'
<1>1. Onwards /\ \A s \in Step : LoadedRow(s)' = LoadedRow(s)
  BY RowsSame DEF Onwards
<1>2. Start' = Start /\ Goal' = Goal /\ Aim' = Aim
  BY Frame
<1>3. Sees(c)'
  BY <1>1, <1>2 DEF Holds, Sees, SeesRow
<1>4. Told(c.msg)'
  BY <1>1, ToldStays DEF Holds, Busy
<1>5. \A i \in DOMAIN c.out : Told(c.out[i])'
  <2> SUFFICES ASSUME NEW i \in DOMAIN c.out PROVE Told(c.out[i])'
    OBVIOUS
  <2>1. c.out = k.out /\ k.out \in Seq(Message)
    BY DEF Busy
  <2>2. c.out[i] \in Message /\ Told(c.out[i])
    BY <2>1 DEF Holds
  <2> QED
    BY <1>1, <2>2, ToldStays
<1>6. \A s \in c.target : LoadedRow(s)' # Start' /\ c.target = {s}
  BY <1>1, <1>2 DEF Holds, Busy
<1> QED
  BY <1>3, <1>4, <1>5, <1>6 DEF Holds

\* A new level, or an end.
LEMMA LaunchOK ==
    ASSUME GraphOK, NEW k \in Busy, Holds(k)', wf' = "in_progress",
           UNCHANGED <<action, needs>>, NEW c, c = Launch(k)
    PROVE  WorkerOK(c)'
<1>1. Keeps(c, k)
  BY LaunchResult
<1>2. Holds(c)'
  BY <1>1 DEF Keeps, Holds, Sees, SeesRow
<1>3. c.pc \in {"complete", "end", "steps"} /\ (c.pc = "complete" => AllDone(c, Step))
  BY <1>1, LaunchResult DEF Keeps, AllDone
<1>4. c.pc = "steps" => c.todo = c.level /\ Waited(c, c.level)
  <2>1. c.pc = "steps" => c.todo = c.level /\ Waited(k, c.level)
    BY LaunchResult
  <2> QED
    BY <1>1, <2>1 DEF Keeps, Waited
<1>5. c.pc = "steps" => Waited(c, c.level)'
  BY <1>4, Frame
<1>6. c.pc = "complete" => AllDone(c, Step)'
  BY <1>3 DEF AllDone
<1> QED
  BY <1>2, <1>3, <1>4, <1>5, <1>6 DEF WorkerOK

\* The rest of a level, an end, or a new level.
LEMMA ContinueOK ==
    ASSUME GraphOK, NEW k \in Busy, Holds(k)', wf' = "in_progress",
           UNCHANGED <<action, needs>>,
           k.todo \subseteq k.level, k.level # k.target => Waited(k, k.level),
           NEW c, c = Continue(k)
    PROVE  WorkerOK(c)'
<1>1. Keeps(c, k)
  BY ContinueResult
<1>2. Holds(c)'
  BY <1>1 DEF Keeps, Holds, Sees, SeesRow
<1>3. c.pc \in {"complete", "end", "steps", "fail"} /\ (c.pc = "complete" => AllDone(c, Step))
  BY <1>1, ContinueResult DEF Keeps, AllDone
<1>4. c.pc = "steps" => c.todo \subseteq c.level /\ (c.level # c.target => Waited(c, c.level))
  <2>1. c.pc = "steps" => \/ c.todo = k.todo /\ c.level = k.level
                          \/ c.todo = c.level /\ Waited(k, c.level)
    BY ContinueResult
  <2>2. Waited(k, c.level) => Waited(c, c.level)
    BY <1>1 DEF Keeps, Waited
  <2> QED
    BY <1>1, <2>1, <2>2 DEF Keeps
<1>5. c.pc = "steps" /\ c.level # c.target => Waited(c, c.level)'
  BY <1>4, Frame
<1>6. c.pc = "complete" => AllDone(c, Step)'
  BY <1>3 DEF AllDone
<1> QED
  BY <1>2, <1>3, <1>4, <1>5, <1>6 DEF WorkerOK

\* f is g but at s.
Puts(f, g, s, v) == f = [g EXCEPT ![s] = v]

\* What a level waits for stays DONE while its steps are handled.
LEMMA WaitedStays ==
    ASSUME NEW k \in Busy, NEW L, Waited(k, L), NEW s \in Step, k.view.step[s] # "done",
           NEW c \in Busy, NEW status, Puts(c.view.step, k.view.step, s, status),
           \A t \in L : Before(t) \subseteq Step
    PROVE  Waited(c, L)
BY DEF Waited, Busy, View, Puts

-----------------------------------------------------------------------------
(* Steps that change no row, no link and no status of a step.              *)

\* What such a step leaves as it is.
LEMMA QuietStep ==
    ASSUME OrderInv, UNCHANGED <<action, needs, row, link, step, task, run>>
    PROVE  RowsInv' /\ TasksInv' /\ StepsInv' /\ Onwards
<1>1. \A s \in Step : LoadedRow(s)' = LoadedRow(s)
  BY RowsSame
<1>2. Start' = Start /\ Goal' = Goal /\ Between' = Between
      /\ (\A s \in Step : Before(s)' = Before(s) /\ Before(s) \subseteq Step)
  BY Frame, PositionOrder DEF OrderInv, TypeInv
<1>3. RowsInv'
  BY <1>1, <1>2 DEF RowsInv, OrderInv
<1>4. TasksInv'
  BY DEF TasksInv, OrderInv
<1>5. StepsInv'
  <2> SUFFICES ASSUME NEW s \in Step
               PROVE  /\ Fits(step[s], LoadedRow(s))'
                      /\ LoadedRow(s)' # Start' => \A d \in Before(s)' : LoadedRow(d)' = Goal'
    BY DEF StepsInv
  <2> QED
    BY <1>1, <1>2 DEF StepsInv, OrderInv, Fits
<1>6. Onwards
  BY <1>1 DEF Onwards
<1> QED
  BY <1>3, <1>4, <1>5, <1>6

LEMMA ReceiveOrder ==
    ASSUME OrderInv, TypeInv', NEW w \in Worker, Alone(w), Alone(w)', Receive(w) PROVE OrderInv'
<1>1. UNCHANGED <<action, needs, row, link, step, wf, task, run>>
  BY DEF Receive
<1>2. RowsInv' /\ TasksInv' /\ StepsInv' /\ Onwards
  BY <1>1, QuietStep
<1>3. /\ msgs \in Seq(Message) /\ msgs # << >> /\ msgs' = Tail(msgs)
      /\ \A i \in DOMAIN msgs : Told(msgs[i])
  BY DEF Receive, OrderInv, TypeInv, TypeOK, MsgsInv
<1>4. Head(msgs) \in Message /\ Told(Head(msgs))
  BY <1>3
<1>5. Tail(msgs) \in Seq(Message) /\ \A i \in DOMAIN Tail(msgs) : Told(Tail(msgs)[i])
  BY <1>3
<1>6. MsgsInv'
  <2>1. PICK rest \in Seq(Message) : rest = Tail(msgs)
    BY <1>5
  <2>2. ASSUME NEW i \in DOMAIN rest PROVE Told(rest[i])'
    <3>1. rest[i] \in Message /\ Told(rest[i])
      BY <1>5, <2>1
    <3> QED
      BY <1>2, <3>1, ToldStays
  <2> QED
    BY <1>3, <2>1, <2>2 DEF MsgsInv
<1>7. PICK m \in Message : m = Head(msgs)
  BY <1>4
<1> DEFINE taken == [pc |-> "enter", msg |-> Head(msgs), target |-> Target(Head(msgs)),
                     level |-> {}, todo |-> {}, cur |-> CHOOSE s \in Step : TRUE,
                     bad |-> FALSE, view |-> Loaded,
                     early |-> {s \in Step : step[s] = "done"}, out |-> << >>]
<1>8. PICK c : /\ worker' = [worker EXCEPT ![w] = c]
               /\ c.pc = "enter" /\ c.msg = m /\ c.target = Target(m) /\ c.view = Loaded
               /\ c.out = << >>
  <2>1. worker' = [worker EXCEPT ![w] = taken]
    BY DEF Receive
  <2>2. /\ taken.pc = "enter" /\ taken.msg = m /\ taken.target = Target(m)
        /\ taken.view = Loaded /\ taken.out = << >>
    BY <1>7
  <2> HIDE DEF taken
  <2> QED
    BY <2>1, <2>2
<1>9. Told(m)'
  BY <1>2, <1>4, <1>7, ToldStays
<1>10. Sees(c)'
  BY <1>1, <1>2, <1>8, RowsSame DEF Sees, SeesRow, Loaded, StepsInv, Fits
<1>11. ASSUME NEW s \in Target(m) PROVE LoadedRow(s)' # Start' /\ Target(m) = {s}
  <2>1. m # << >> /\ s = m[1] /\ s \in Step
    BY DEF Target
  <2>2. \A t \in Target(m) : t = m[1]
    BY DEF Target
  <2> QED
    BY <1>9, <2>1, <2>2 DEF Told
<1>12. WorkerOK(c)'
  BY <1>8, <1>9, <1>10, <1>11 DEF WorkerOK, Holds
<1>13. WorkerInv'
  BY <1>8, <1>12, AloneInv DEF OrderInv
<1>14. DoneMeansAllDone'
  BY <1>1 DEF OrderInv, DoneMeansAllDone
<1> QED
  BY <1>2, <1>6, <1>13, <1>14 DEF OrderInv

LEMMA EnterOrder ==
    ASSUME OrderInv, TypeInv', NEW w \in Worker, Alone(w), Alone(w)', Enter(w) PROVE OrderInv'
<1>1. worker[w] \in Busy /\ WorkerOK(worker[w])
  BY WorkerIsOK DEF Enter
<1>2. UNCHANGED <<action, needs, row, link, step, task, run, msgs>>
  BY DEF Enter, rows
<1>3. RowsInv' /\ TasksInv' /\ StepsInv' /\ Onwards
  BY <1>2, QuietStep
<1>4. MsgsInv'
  <2> SUFFICES ASSUME NEW i \in DOMAIN msgs PROVE Told(msgs[i])'
    BY <1>2 DEF MsgsInv
  <2>1. PICK m \in Message : m = msgs[i] /\ Told(m)
    BY DEF OrderInv, TypeInv, TypeOK, MsgsInv
  <2>2. Told(m)' /\ msgs'[i] = m
    BY <1>2, <1>3, <2>1, ToldStays
  <2> QED
    BY <2>1, <2>2
<1>5. wf' = "in_progress"
  BY <1>1 DEF Enter, CommitWorkflow, Changed, WorkerOK, Holds, Sees
<1>6. PICK k : /\ k = [worker[w] EXCEPT !.view.wf = "in_progress"]
               /\ k \in Busy
  <2>1. [worker[w] EXCEPT !.view.wf = "in_progress"] \in Busy
    BY <1>1 DEF Busy, View, WorkflowStatus
  <2> QED
    BY <2>1
<1>7. Holds(k)'
  <2>1. /\ k.view = [worker[w].view EXCEPT !.wf = "in_progress"]
        /\ k.msg = worker[w].msg /\ k.target = worker[w].target /\ k.out = worker[w].out
    BY <1>1, <1>6 DEF Busy, View
  <2>2. /\ k.view.step = worker[w].view.step /\ k.view.link = worker[w].view.link
        /\ k.view.row = worker[w].view.row /\ k.view.wf = "in_progress"
    BY <1>1, <2>1 DEF Busy, View
  <2>3. Sees(k)'
    BY <1>1, <1>2, <1>5, <2>2, RowsSame, Frame DEF WorkerOK, Holds, Sees, SeesRow
  <2>4. Told(k.msg)'
    BY <1>1, <1>3, <2>1, ToldStays DEF WorkerOK, Holds, Busy
  <2>5. \A i \in DOMAIN k.out : Told(k.out[i])'
    <3> SUFFICES ASSUME NEW i \in DOMAIN k.out PROVE Told(k.out[i])'
      OBVIOUS
    <3>1. k.out[i] \in Message /\ Told(k.out[i])
      BY <1>1, <2>1 DEF WorkerOK, Holds, Busy
    <3> QED
      BY <1>3, <3>1, ToldStays
  <2>6. \A s \in k.target : LoadedRow(s)' # Start' /\ k.target = {s}
    BY <1>1, <1>2, <2>1, RowsSame, Frame DEF WorkerOK, Holds, Busy
  <2> QED
    BY <2>3, <2>4, <2>5, <2>6 DEF Holds
<1> DEFINE open == {s \in k.target : k.view.step[s] # "done"}
<1>8. worker' = [worker EXCEPT ![w] =
                IF open # {}
                THEN [k EXCEPT !.pc = "steps", !.level = open, !.todo = open]
                ELSE IF action = "destroy" /\ k.target # {}
                THEN [k EXCEPT !.pc = "end"]
                ELSE Launch(k)]
  BY <1>6 DEF Enter
<1>9. PICK c : /\ worker' = [worker EXCEPT ![w] = c]
               /\ \/ open # {} /\ c = [k EXCEPT !.pc = "steps", !.level = open, !.todo = open]
                  \/ c = [k EXCEPT !.pc = "end"]
                  \/ c = Launch(k)
  BY <1>8
<1>10. WorkerOK(c)'
  <2>1. CASE open # {} /\ c = [k EXCEPT !.pc = "steps", !.level = open, !.todo = open]
    <3>1. open = k.target
      BY <1>1, <1>6, <2>1 DEF WorkerOK, Holds, Busy
    <3>2. /\ c.view = k.view /\ c.msg = k.msg /\ c.target = k.target /\ c.out = k.out
          /\ c.pc = "steps" /\ c.level = k.target /\ c.todo = c.level
      BY <1>6, <2>1, <3>1 DEF Busy
    <3>3. Holds(c)'
      BY <1>7, <3>2 DEF Holds, Sees, SeesRow
    <3> QED
      BY <1>5, <3>2, <3>3 DEF WorkerOK
  <2>2. CASE c = [k EXCEPT !.pc = "end"]
    <3>1. c.view = k.view /\ c.msg = k.msg /\ c.target = k.target /\ c.out = k.out /\ c.pc = "end"
      BY <1>6, <2>2 DEF Busy
    <3>2. Holds(c)'
      BY <1>7, <3>1 DEF Holds, Sees, SeesRow
    <3> QED
      BY <3>1, <3>2 DEF WorkerOK
  <2>3. CASE c = Launch(k)
    BY <1>2, <1>5, <1>6, <1>7, <2>3, LaunchOK DEF OrderInv, TypeInv
  <2> QED
    BY <1>9, <2>1, <2>2, <2>3
<1>11. WorkerInv'
  BY <1>9, <1>10, AloneInv DEF OrderInv
<1>12. DoneMeansAllDone'
  BY <1>5 DEF DoneMeansAllDone
<1> QED
  BY <1>3, <1>4, <1>11, <1>12 DEF OrderInv

LEMMA ConcludeOrder ==
    ASSUME OrderInv, TypeInv', NEW w \in Worker, Alone(w), Alone(w)', Conclude(w) PROVE OrderInv'
<1>1. worker[w] \in Busy /\ WorkerOK(worker[w])
  BY WorkerIsOK DEF Conclude
<1>2. UNCHANGED <<action, needs, row, link, step, run>> /\ Flush(w, {})
  BY DEF Conclude
<1>3. UNCHANGED task
  BY <1>2, FlushNothing DEF OrderInv
<1>4. RowsInv' /\ TasksInv' /\ StepsInv' /\ Onwards
  BY <1>2, <1>3, QuietStep
<1>5. MsgsInv'
  BY <1>1, <1>2, <1>4, FlushTold DEF OrderInv, WorkerOK
<1> DEFINE status == IF worker[w].pc = "complete" THEN "done" ELSE "error"
<1>6. wf' = status
  BY <1>1 DEF Conclude, CommitWorkflow, Changed, WorkerOK, Holds, Sees
<1>7. PICK c : c = [worker[w] EXCEPT !.pc = "end", !.view.wf = status, !.out = << >>]
  OBVIOUS
<1>8. /\ c.msg = worker[w].msg /\ c.target = worker[w].target /\ c.out = << >>
      /\ c.pc = "end" /\ c.view.wf = status /\ c.view.step = worker[w].view.step
      /\ c.view.link = worker[w].view.link /\ c.view.row = worker[w].view.row
  BY <1>1, <1>7 DEF Busy, View
<1> HIDE DEF status
<1>9. Sees(c)'
  BY <1>1, <1>2, <1>6, <1>8, RowsSame, Frame DEF WorkerOK, Holds, Sees, SeesRow
<1>10. Told(c.msg)'
  BY <1>1, <1>4, <1>8, ToldStays DEF WorkerOK, Holds, Busy
<1>11. \A s \in c.target : LoadedRow(s)' # Start' /\ c.target = {s}
  BY <1>1, <1>2, <1>8, RowsSame, Frame DEF WorkerOK, Holds, Busy
<1>12. WorkerOK(c)'
  BY <1>8, <1>9, <1>10, <1>11 DEF WorkerOK, Holds
<1>13. WorkerInv'
  <2>1. worker' = [worker EXCEPT ![w] = [worker[w] EXCEPT !.pc = "end", !.view.wf = status,
                                                          !.out = << >>]]
    BY DEF Conclude, status
  <2> QED
    BY <1>7, <1>12, <2>1, AloneInv DEF OrderInv
<1>14. DoneMeansAllDone'
  <2>1. worker[w].pc = "complete" => \A s \in Step : step[s] = "done"
    BY <1>1 DEF WorkerOK, AllDone, Holds, Sees
  <2> QED
    BY <1>2, <1>6, <2>1 DEF DoneMeansAllDone, status, Conclude
<1> QED
  BY <1>4, <1>5, <1>13, <1>14 DEF OrderInv

LEMMA FinishOrder ==
    ASSUME OrderInv, TypeInv', NEW w \in Worker, Alone(w), Alone(w)', Finish(w) PROVE OrderInv'
<1>1. worker[w] \in Busy /\ WorkerOK(worker[w])
  BY WorkerIsOK DEF Finish
<1>2. UNCHANGED <<action, needs, row, link, step, run, wf>> /\ Flush(w, {})
  BY DEF Finish
<1>3. UNCHANGED task
  BY <1>2, FlushNothing DEF OrderInv
<1>4. RowsInv' /\ TasksInv' /\ StepsInv' /\ Onwards
  BY <1>2, <1>3, QuietStep
<1>5. MsgsInv'
  BY <1>1, <1>2, <1>4, FlushTold DEF OrderInv, WorkerOK
<1>6. WorkerInv'
  BY AloneInv DEF OrderInv, Finish
<1>7. DoneMeansAllDone'
  BY <1>2 DEF OrderInv, DoneMeansAllDone
<1> QED
  BY <1>4, <1>5, <1>6, <1>7 DEF OrderInv

LEMMA CrashOrder ==
    ASSUME OrderInv, TypeInv', NEW w \in Worker, Alone(w), Alone(w)', Crash(w) PROVE OrderInv'
<1>1. worker[w] \in Busy /\ WorkerOK(worker[w])
  BY WorkerIsBusy DEF Crash, OrderInv, WorkerInv
<1>2. UNCHANGED <<action, needs, row, link, step, task, run, wf>>
  BY DEF Crash, rows
<1>3. RowsInv' /\ TasksInv' /\ StepsInv' /\ Onwards
  BY <1>2, QuietStep
<1>4. MsgsInv'
  <2>1. msgs' = <<worker[w].msg>> \o msgs /\ msgs \in Seq(Message)
        /\ <<worker[w].msg>> \in Seq(Message)
    BY <1>1 DEF Crash, OrderInv, TypeInv, TypeOK, Busy
  <2>2. Told(worker[w].msg) /\ \A i \in DOMAIN msgs : Told(msgs[i])
    BY <1>1 DEF WorkerOK, Holds, OrderInv, MsgsInv
  <2>3. \A i \in DOMAIN <<worker[w].msg>> : Told(<<worker[w].msg>>[i])
    BY <2>2
  <2> QED
    BY <1>3, <2>1, <2>2, <2>3, MsgsAppend
<1>5. WorkerInv'
  BY AloneInv DEF OrderInv, Crash
<1>6. DoneMeansAllDone'
  BY <1>2 DEF OrderInv, DoneMeansAllDone
<1> QED
  BY <1>3, <1>4, <1>5, <1>6 DEF OrderInv

LEMMA ExecuteOrder ==
    ASSUME OrderInv, TypeInv', Execute PROVE OrderInv'
<1>1. UNCHANGED <<action, needs, row, link, step, task, run, wf, worker>>
  BY DEF Execute, rows
<1>2. RowsInv' /\ TasksInv' /\ StepsInv' /\ Onwards
  BY <1>1, QuietStep
<1>3. MsgsInv'
  <2>1. msgs' = msgs \o << <<>> >> /\ msgs \in Seq(Message) /\ << <<>> >> \in Seq(Message)
    BY DEF Execute, Publish, OrderInv, TypeInv, TypeOK, Message
  <2>2. \A i \in DOMAIN << <<>> >> : Told(<< <<>> >>[i])
    BY DEF Told
  <2> QED
    BY <1>2, <2>1, <2>2, MsgsAppend DEF OrderInv, MsgsInv
<1>4. WorkerInv'
  <2> SUFFICES ASSUME NEW w \in Worker, worker[w] # Idle PROVE WorkerOK(worker[w])'
    BY <1>1 DEF WorkerInv
  <2>1. PICK k : k = worker[w] /\ k \in Busy /\ WorkerOK(k)
    BY WorkerIsBusy DEF OrderInv, WorkerInv
  <2>2. Holds(k)'
    BY <1>1, <2>1, HoldsSame DEF WorkerOK
  <2>3. WorkerOK(k)'
    BY <1>1, <2>1, <2>2, RowsSame, Frame DEF WorkerOK, AllDone, Busy
  <2> QED
    BY <1>1, <2>1, <2>3
<1>5. DoneMeansAllDone'
  BY <1>1 DEF OrderInv, DoneMeansAllDone
<1> QED
  BY <1>2, <1>3, <1>4, <1>5 DEF OrderInv

-----------------------------------------------------------------------------
(* Steps that change the status of a step and no row.                      *)

\* The worker has seen every change of a step: it writes what it means to.
LEMMA CommitStepIs ==
    ASSUME OrderInv, NEW w \in Worker, worker[w].pc # "idle", NEW s \in Step, NEW status,
           CommitStep(w, s, status)
    PROVE  step' = [step EXCEPT ![s] = status]
<1>1. worker[w].view.step = step
  BY WorkerIsOK DEF WorkerOK, Holds, Sees
<1> QED
  BY <1>1 DEF CommitStep, Changed

LEMMA StatusStep ==
    ASSUME OrderInv, UNCHANGED <<action, needs, row, link, task, run>>,
           NEW s \in Step, NEW status, step' = [step EXCEPT ![s] = status],
           Fits(status, LoadedRow(s))
    PROVE  RowsInv' /\ TasksInv' /\ StepsInv' /\ Onwards
<1>1. \A t \in Step : LoadedRow(t)' = LoadedRow(t)
  BY RowsSame
<1>2. Start' = Start /\ Goal' = Goal /\ Between' = Between
      /\ (\A t \in Step : Before(t)' = Before(t) /\ Before(t) \subseteq Step)
  BY Frame, PositionOrder DEF OrderInv, TypeInv
<1>3. RowsInv'
  BY <1>1, <1>2 DEF RowsInv, OrderInv
<1>4. TasksInv'
  BY DEF TasksInv, OrderInv
<1>5. StepsInv'
  <2> SUFFICES ASSUME NEW t \in Step
               PROVE  /\ Fits(step[t], LoadedRow(t))'
                      /\ LoadedRow(t)' # Start' => \A d \in Before(t)' : LoadedRow(d)' = Goal'
    BY DEF StepsInv
  <2>1. step'[t] = IF t = s THEN status ELSE step[t]
    BY DEF OrderInv, TypeInv, TypeOK
  <2>2. Fits(step'[t], LoadedRow(t))
    BY <2>1 DEF StepsInv, OrderInv
  <2>3. Fits(step[t], LoadedRow(t))'
    BY <1>1, <1>2, <2>2 DEF Fits
  <2> QED
    BY <1>1, <1>2, <2>3 DEF StepsInv, OrderInv
<1>6. Onwards
  BY <1>1 DEF Onwards
<1> QED
  BY <1>3, <1>4, <1>5, <1>6

\* A step whose resource is as before is handled only in its level, before
\* anything has been done about it.
LEMMA HandledInLevel ==
    ASSUME OrderInv, NEW w \in Worker, NEW s \in Step, Handles(w, s), LoadedRow(s) = Start
    PROVE  /\ worker[w].level # worker[w].target /\ s \in worker[w].level
           /\ worker[w].view.row[s] = Start
           /\ step[s] = "pending" \/ (step[s] = "error" /\ action = "create")
<1>1. worker[w] \in Busy /\ WorkerOK(worker[w]) /\ worker[w].pc = "steps"
      /\ s \in Remaining(worker[w])
  BY WorkerIsOK DEF Handles
<1>2. s \in worker[w].todo /\ worker[w].todo \subseteq worker[w].level
  BY <1>1 DEF Remaining, WorkerOK
<1>3. worker[w].level # worker[w].target
  BY <1>1, <1>2 DEF WorkerOK, Holds
<1>4. step[s] # "in_progress"
  BY <1>1, <1>3 DEF Remaining, WorkerOK, Holds, Sees
<1>5. Fits(step[s], Start)
  BY DEF OrderInv, StepsInv
<1>6. step[s] = "pending" \/ (step[s] = "error" /\ action = "create")
  BY <1>4, <1>5 DEF Fits
<1>7. worker[w].view.row[s] = Start
  <2>1. Start # Goal /\ \A status : At(status, Aim) # Start
    BY Kinds DEF OrderInv, TypeInv
  <2> QED
    BY <1>1, <2>1 DEF WorkerOK, Holds, Sees, SeesRow
<1> QED
  BY <1>2, <1>3, <1>6, <1>7

\* Whatever a handler does not claim has been acted on.
LEMMA NotClaimed ==
    ASSUME OrderInv, NEW w \in Worker, NEW s \in Step, Handles(w, s), ~Claims(worker[w], s)
    PROVE  /\ LoadedRow(s) # Start
           /\ worker[w].view.row[s] \in {Goal} \cup Between
           /\ worker[w].view.row[s].status \notin Under => worker[w].view.row[s] = LoadedRow(s)
<1>1. worker[w] \in Busy /\ WorkerOK(worker[w])
  BY WorkerIsOK DEF Handles
<1>2. worker[w].view.step = step
  BY <1>1 DEF WorkerOK, Holds, Sees
<1>3. LoadedRow(s) # Start
  <2> SUFFICES ASSUME LoadedRow(s) = Start PROVE FALSE
    OBVIOUS
  <2>1. /\ worker[w].view.row[s] = Start
        /\ step[s] = "pending" \/ (step[s] = "error" /\ action = "create")
    BY HandledInLevel
  <2>2. CASE action = "create"
    BY <1>2, <2>1, <2>2 DEF Claims, Start
  <2>3. CASE action = "destroy"
    BY <1>2, <2>1, <2>3 DEF Claims, Start, At
  <2> QED
    BY <2>2, <2>3 DEF OrderInv, TypeInv, GraphOK
<1>4. SeesRow(worker[w], s)
  BY <1>1 DEF WorkerOK, Holds, Sees
<1>5. LoadedRow(s) \in {Goal} \cup Between
  BY <1>3 DEF OrderInv, RowsInv
<1>6. \A status : At(status, Aim).status = status
  BY Kinds DEF OrderInv, TypeInv
<1>7. \A status \in Under : At(status, Aim) \in Between
  BY DEF Between
<1> QED
  BY <1>3, <1>4, <1>5, <1>6, <1>7 DEF SeesRow

\* What the session knows after it has written a status, and read or written a row.
LEMMA SawHolds ==
    ASSUME OrderInv, NEW k \in Busy, Holds(k), Onwards, UNCHANGED wf, step' \in [Step -> StepStatus],
           NEW s \in Step, NEW status, Puts(step', step, s, status),
           \A t \in Step \ {s} : LoadedRow(t)' = LoadedRow(t),
           NEW c \in Busy, c.msg = k.msg, c.target = k.target,
           c.view.wf = k.view.wf, c.view.link = link', c.view.step = step',
           NEW seen, Puts(c.view.row, k.view.row, s, seen),
           SeesRow(c, s)', status = "done" => seen = Goal,
           c.out = << >> \/ (c.out = << <<s>> >> /\ LoadedRow(s)' # Start)
    PROVE  Holds(c)'
<1>1. Start' = Start /\ Goal' = Goal /\ Aim' = Aim
  BY Frame DEF Onwards
<1>2. k.view.row \in [Step -> Row \cup {Absent}]
  BY DEF Busy, View
<1>3. Sees(c)'
  <2>1. c.view.wf = wf' /\ c.view.step = step' /\ c.view.link = link'
    BY DEF Holds, Sees
  <2>2. ASSUME NEW t \in Step
        PROVE  SeesRow(c, t)' /\ (step'[t] = "done" => c.view.row[t] = Goal)
    <3>1. CASE t = s
      BY <1>2, <3>1 DEF OrderInv, TypeInv, TypeOK, Puts
    <3>2. CASE t # s
      <4>1. step'[t] = step[t] /\ c.view.row[t] = k.view.row[t] /\ LoadedRow(t)' = LoadedRow(t)
        BY <1>2, <3>2 DEF OrderInv, TypeInv, TypeOK, Puts
      <4>2. SeesRow(k, t) /\ (step[t] = "done" => k.view.row[t] = Goal)
        BY DEF Holds, Sees
      <4> QED
        BY <1>1, <4>1, <4>2 DEF SeesRow
    <3> QED
      BY <3>1, <3>2
  <2> QED
    BY <1>1, <2>1, <2>2 DEF Sees
<1>4. Told(c.msg)'
  BY ToldStays DEF Holds, Busy
<1>5. \A i \in DOMAIN c.out : Told(c.out[i])'
  <2>1. CASE c.out = << >>
    BY <2>1
  <2>2. CASE c.out = << <<s>> >> /\ LoadedRow(s)' # Start
    <3>1. Told(<<s>>)'
      BY <1>1, <2>2 DEF Told
    <3> QED
      BY <2>2, <3>1
  <2> QED
    BY <2>1, <2>2
<1>6. \A t \in c.target : LoadedRow(t)' # Start' /\ c.target = {t}
  BY <1>1 DEF Holds, Busy, Onwards
<1> QED
  BY <1>3, <1>4, <1>5, <1>6 DEF Holds

LEMMA ClaimOrder ==
    ASSUME OrderInv, TypeInv', NEW w \in Worker, Alone(w), Alone(w)', NEW s \in Step, Claim(w, s)
    PROVE  OrderInv'
<1>1. PICK k : k = worker[w] /\ k \in Busy /\ WorkerOK(k) /\ k.pc = "steps"
  BY WorkerIsOK DEF Claim, Handles
<1>2. UNCHANGED <<action, needs, row, link, run, wf>> /\ Flush(w, {}) /\ Handles(w, s)
      /\ Claims(k, s) /\ CommitStep(w, s, "in_progress")
  BY <1>1 DEF Claim
<1>3. UNCHANGED task
  BY <1>2, FlushNothing DEF OrderInv
<1>4. k.view.step = step
  BY <1>1 DEF WorkerOK, Holds, Sees
<1>5. LoadedRow(s) = Start
  <2>1. CASE step[s] = "pending"
    BY <2>1 DEF OrderInv, StepsInv, Fits
  <2>2. CASE step[s] # "pending"
    <3>1. action = "create" /\ k.view.row[s] = Absent
      BY <1>2, <1>4, <2>2 DEF Claims
    <3>2. SeesRow(k, s) /\ \A status : At(status, Aim) # Absent
      BY <1>1, Kinds DEF WorkerOK, Holds, Sees, At, Absent, Aim, OrderInv, TypeInv
    <3> QED
      BY <3>1, <3>2 DEF SeesRow, Start
  <2> QED
    BY <2>1, <2>2
<1>6. /\ k.level # k.target /\ s \in k.level /\ k.view.row[s] = Start
      /\ step[s] = "pending" \/ (step[s] = "error" /\ action = "create")
  BY <1>1, <1>2, <1>5, HandledInLevel
<1>7. step' = [step EXCEPT ![s] = "in_progress"]
  BY <1>1, <1>2, CommitStepIs
<1>8. Fits("in_progress", LoadedRow(s))
  BY DEF Fits
<1>9. RowsInv' /\ TasksInv' /\ StepsInv' /\ Onwards
  BY <1>2, <1>3, <1>7, <1>8, StatusStep
<1>10. MsgsInv'
  BY <1>1, <1>2, <1>9, FlushTold DEF OrderInv, WorkerOK
<1>11. PICK c : c = [k EXCEPT !.pc = "claimed", !.cur = s, !.out = << >>,
                             !.view.step[s] = "in_progress"]
  OBVIOUS
<1>12. /\ c \in Busy /\ c.pc = "claimed" /\ c.cur = s /\ c.out = << >> /\ c.msg = k.msg
       /\ c.target = k.target /\ c.level = k.level /\ c.todo = k.todo
       /\ c.view.wf = k.view.wf /\ c.view.link = k.view.link /\ c.view.row = k.view.row
       /\ c.view.step = [k.view.step EXCEPT ![s] = "in_progress"]
  BY <1>1, <1>11, MessageTypes DEF Busy, View, StepStatus, ModelStatus
<1>13. \A t \in Step : LoadedRow(t)' = LoadedRow(t)
  BY <1>2, RowsSame
<1>14. Holds(c)'
  <2>1. Puts(c.view.row, k.view.row, s, k.view.row[s]) /\ Puts(step', step, s, "in_progress")
    BY <1>1, <1>7, <1>12 DEF Busy, View, Puts
  <2>2. SeesRow(c, s)'
    BY <1>2, <1>5, <1>6, <1>12, <1>13, Frame DEF SeesRow
  <2>3. step' \in [Step -> StepStatus]
    BY DEF TypeInv, TypeOK
  <2>4. Holds(k) /\ c.view.link = link' /\ c.view.step = step'
    BY <1>1, <1>2, <1>4, <1>7, <1>12 DEF WorkerOK, Holds, Sees
  <2>5. ("in_progress" = "done" => k.view.row[s] = Goal) /\ UNCHANGED wf
        /\ \A t \in Step \ {s} : LoadedRow(t)' = LoadedRow(t)
    BY <1>2, <1>13
  <2> QED
    BY <1>1, <1>9, <1>12, <2>1, <2>2, <2>3, <2>4, <2>5, SawHolds
<1>15. \A t \in k.level : Before(t) \subseteq Step
  BY <1>1, PositionOrder DEF Busy, OrderInv, TypeInv
<1>16. Waited(k, k.level)
  BY <1>1, <1>6 DEF WorkerOK
<1>17. Waited(c, c.level)
  <2>1. /\ k.view.step[s] # "done" /\ c.level = k.level
        /\ Puts(c.view.step, k.view.step, s, "in_progress")
    BY <1>4, <1>6, <1>12 DEF Puts
  <2> QED
    BY <1>1, <1>12, <1>15, <1>16, <2>1, WaitedStays
<1>18. WorkerOK(c)'
  <2>1. Waited(c, c.level)' /\ Start' = Start /\ Before(s)' = Before(s)
    BY <1>2, <1>17, Frame
  <2>2. \A d \in Before(s) : step'[d] = "done"
    BY <1>4, <1>6, <1>7, <1>15, <1>16 DEF Waited, OrderInv, TypeInv, TypeOK
  <2>3. step'[s] = "in_progress"
    BY <1>7 DEF OrderInv, TypeInv, TypeOK
  <2> QED
    BY <1>1, <1>2, <1>5, <1>6, <1>12, <1>13, <1>14, <2>1, <2>2, <2>3 DEF WorkerOK
<1>19. WorkerInv'
  <2>1. worker' = [worker EXCEPT ![w] = c]
    BY <1>1, <1>11 DEF Claim
  <2> QED
    BY <1>18, <2>1, AloneInv DEF OrderInv
<1>20. DoneMeansAllDone'
  BY <1>1, <1>2 DEF WorkerOK, DoneMeansAllDone
<1> QED
  BY <1>9, <1>10, <1>19, <1>20 DEF OrderInv

\* What is remembered of a row, and the row.
Later(seen, r) ==
    \/ seen = r
    \/ /\ seen \in {At(status, Aim) : status \in Under}
       /\ r \in {Goal} \cup {At(status, Aim) : status \in Under \cup {"error"}}

\* A worker goes on after a step.  k0 is what it held, k the same with the new link.
LEMMA SteppedOK ==
    ASSUME OrderInv, NEW k0 \in Busy, WorkerOK(k0), k0.pc \in {"steps", "claimed"},
           Onwards, UNCHANGED wf, step' \in [Step -> StepStatus],
           NEW s \in Step, NEW status \in StepStatus, Puts(step', step, s, status),
           \A t \in Step \ {s} : LoadedRow(t)' = LoadedRow(t),
           k0.level # k0.target => step[s] # "done",
           NEW k \in Busy, k.msg = k0.msg, k.target = k0.target, k.level = k0.level,
           k.todo = k0.todo, k.view.wf = k0.view.wf, k.view.step = k0.view.step,
           k.view.row = k0.view.row, k.view.link = link',
           NEW seen \in Row \cup {Absent}, Later(seen, LoadedRow(s)'),
           status = "done" => seen = Goal,
           LoadedRow(s)' # Start,
           NEW sends, NEW c, c = Stepped(k, s, status, seen, sends)
    PROVE  WorkerOK(c)'
<1> DEFINE out == IF sends THEN << <<s>> >> ELSE << >>
           next == [k EXCEPT !.todo = @ \ {s}, !.cur = s,
                             !.view.step[s] = status, !.view.row[s] = seen,
                             !.out = out]
<1>1. PICK k2 : k2 = next
  OBVIOUS
<1>2. c = Continue(k2)
  BY <1>1 DEF Stepped
<1>3. out \in Seq(Message) /\ out \in {<< >>, << <<s>> >>}
  BY MessageTypes
<1> HIDE DEF out
<1>4. /\ k2 \in Busy /\ k2.msg = k.msg /\ k2.target = k.target /\ k2.level = k.level
      /\ k2.todo \subseteq k.todo /\ k2.view.wf = k.view.wf /\ k2.view.link = k.view.link
      /\ k2.view.step = [k.view.step EXCEPT ![s] = status]
      /\ k2.view.row = [k.view.row EXCEPT ![s] = seen]
      /\ k2.out = out
  BY <1>1, <1>3 DEF Busy, View
<1> HIDE DEF next
<1>5. /\ Puts(k2.view.step, k0.view.step, s, status) /\ Puts(k2.view.row, k0.view.row, s, seen)
      /\ k0.view.step = step /\ Holds(k0)
  BY <1>4 DEF Puts, WorkerOK, Holds, Sees
<1>6. k2.view.step = step' /\ k2.view.row[s] = seen
  BY <1>4, <1>5 DEF Puts, Busy, View
<1>7. SeesRow(k2, s)'
  BY <1>6, Frame DEF SeesRow, Later, Onwards
<1>8. k2.out = << >> \/ (k2.out = << <<s>> >> /\ LoadedRow(s)' # Start)
  BY <1>3, <1>4
<1>9. Holds(k2)'
  BY <1>4, <1>5, <1>6, <1>7, <1>8, SawHolds
<1>10. k2.level # k2.target => Waited(k2, k2.level)
  <2> SUFFICES ASSUME k0.level # k0.target PROVE Waited(k2, k0.level)
    BY <1>4
  <2>1. k0.view.step[s] # "done" /\ Waited(k0, k0.level)
    BY <1>5 DEF WorkerOK
  <2>2. \A t \in k0.level : Before(t) \subseteq Step
    BY PositionOrder DEF Busy, OrderInv, TypeInv
  <2> QED
    BY <1>4, <1>5, <2>1, <2>2, WaitedStays
<1>11. k2.todo \subseteq k2.level /\ wf' = "in_progress"
  BY <1>4 DEF WorkerOK
<1> QED
  BY <1>2, <1>4, <1>9, <1>10, <1>11, ContinueOK DEF Onwards, OrderInv, TypeInv

\* A handler that keeps to its level does not touch what is DONE.
LEMMA HandledNotDone ==
    ASSUME OrderInv, NEW w \in Worker, NEW s \in Step, Handles(w, s)
    PROVE  worker[w].level # worker[w].target => step[s] # "done"
BY WorkerIsOK DEF Handles, Remaining, WorkerOK, Holds, Sees

LEMMA FollowOrder ==
    ASSUME OrderInv, TypeInv', NEW w \in Worker, Alone(w), Alone(w)', NEW s \in Step, Follow(w, s)
    PROVE  OrderInv'
<1>1. PICK k : k = worker[w] /\ k \in Busy /\ WorkerOK(k) /\ k.pc = "steps"
  BY WorkerIsOK DEF Follow, Handles
<1>2. PICK status : status = k.view.row[s].status
  OBVIOUS
<1>3. PICK seen : seen = k.view.row[s]
  OBVIOUS
<1>4. UNCHANGED <<action, needs, row, link, run, wf>> /\ Flush(w, {}) /\ Handles(w, s)
      /\ ~Claims(k, s) /\ CommitStep(w, s, status)
      /\ worker' = [worker EXCEPT ![w] = Stepped(k, s, status, seen, Resends(k, s))]
  BY <1>1, <1>2, <1>3 DEF Follow
<1>5. UNCHANGED task
  BY <1>4, FlushNothing DEF OrderInv
<1>6. /\ LoadedRow(s) # Start /\ seen \in {Goal} \cup Between /\ seen.status = status
      /\ status \notin Under => seen = LoadedRow(s)
  BY <1>1, <1>2, <1>3, <1>4, NotClaimed
<1>7. /\ status = "done" => seen = Goal
      /\ status \in {"done", "approval_pending", "ready", "error"} \cup Under
  BY <1>6, Kinds DEF OrderInv, TypeInv, Under
<1>8. Fits(status, LoadedRow(s))
  BY <1>6, <1>7 DEF Fits, Under
<1>9. step' = [step EXCEPT ![s] = status]
  BY <1>1, <1>4, CommitStepIs
<1>10. RowsInv' /\ TasksInv' /\ StepsInv' /\ Onwards
  BY <1>4, <1>5, <1>8, <1>9, StatusStep
<1>11. MsgsInv'
  BY <1>1, <1>4, <1>10, FlushTold DEF OrderInv, WorkerOK
<1>12. PICK c : c = Stepped(k, s, status, seen, Resends(k, s))
  OBVIOUS
<1>13. WorkerOK(c)'
  <2>1. \A t \in Step : LoadedRow(t)' = LoadedRow(t)
    BY <1>4, RowsSame
  <2>2. Later(seen, LoadedRow(s)')
    BY <1>1, <1>3, <2>1 DEF Later, SeesRow, WorkerOK, Holds, Sees
  <2>3. seen \in Row \cup {Absent} /\ status \in StepStatus
    BY <1>1, <1>3, <1>7 DEF Busy, View, StepStatus, ModelStatus, Under
  <2>4. Puts(step', step, s, status) /\ step' \in [Step -> StepStatus] /\ UNCHANGED wf
    BY <1>4, <1>9 DEF Puts, TypeInv, TypeOK
  <2>5. k.view.link = link' /\ (k.level # k.target => step[s] # "done")
    BY <1>1, <1>4, HandledNotDone DEF WorkerOK, Holds, Sees
  <2>6. LoadedRow(s)' # Start /\ \A t \in Step \ {s} : LoadedRow(t)' = LoadedRow(t)
    BY <1>6, <2>1
  <2>7. k.pc \in {"steps", "claimed"}
    BY <1>1
  <2> QED
    BY <1>1, <1>7, <1>10, <1>12, <2>2, <2>3, <2>4, <2>5, <2>6, <2>7, SteppedOK
<1>14. WorkerInv'
  BY <1>4, <1>12, <1>13, AloneInv DEF OrderInv
<1>15. DoneMeansAllDone'
  BY <1>1, <1>4 DEF WorkerOK, DoneMeansAllDone
<1> QED
  BY <1>10, <1>11, <1>14, <1>15 DEF OrderInv

\* A claimed step of a cascade is never refused: its resource is DONE, and all
\* that hangs from it is gone.
LEMMA OrderAccepted ==
    ASSUME CascadesAccepted, OrderInv, NEW w \in Worker, worker[w].pc = "claimed",
           action = "destroy"
    PROVE  ~Refused(w, worker[w].cur)
<1>1. PICK k : k = worker[w] /\ k \in Busy /\ WorkerOK(k) /\ k.pc = "claimed"
  BY WorkerIsOK
<1>2. PICK s \in Step : s = k.cur
  BY <1>1 DEF Busy
<1>3. LoadedRow(s) = Start /\ SeesRow(k, s) /\ \A d \in Before(s) : step[d] = "done"
  BY <1>1, <1>2 DEF WorkerOK, Holds, Sees
<1>4. k.view.row[s] = At("done", "provisioned")
  BY <1>3, Kinds DEF SeesRow, Start, OrderInv, TypeInv
<1>5. \A c \in Step : s \in needs[c] => k.view.row[c] = At("done", "destroyed")
  BY <1>1, <1>3 DEF Before, WorkerOK, Holds, Sees, Goal
<1>6. Accepts(k, s, "destroy")
  BY <1>4, <1>5 DEF Accepts, At, CanBeDestroyed
<1>7. k.view.row[s].state # "destroy"
  BY <1>4 DEF At
<1>8. ~Fault("refuse_cascade")
  BY DEF CascadesAccepted, Fault
<1> QED
  BY <1>1, <1>2, <1>6, <1>7, <1>8 DEF Refused

LEMMA RaiseOrder ==
    ASSUME CascadesAccepted, OrderInv, TypeInv',
           NEW w \in Worker, Alone(w), Alone(w)', NEW s \in Step, Raise(w, s)
    PROVE  OrderInv'
<1>1. PICK k : k = worker[w] /\ k \in Busy /\ WorkerOK(k) /\ k.pc \in {"steps", "claimed"}
  BY WorkerIsOK DEF Raise, Handles
<1> DEFINE remembered == IF k.level = k.target THEN k.view ELSE Loaded
<1>2. PICK again : again = remembered
  OBVIOUS
<1>3. again \in View /\ Loaded.step = step /\ Loaded.link = link /\ Loaded.wf = wf
      /\ \A t \in Step : Loaded.row[t] = LoadedRow(t)
  BY <1>1, <1>2, LoadedType DEF Busy, OrderInv, Loaded
<1>4. /\ again.wf = wf /\ again.step = step /\ again.link = link
      /\ \A t \in Step : /\ Later(again.row[t], LoadedRow(t))
                         /\ step[t] = "done" => again.row[t] = Goal
  <2>1. CASE again = k.view
    BY <1>1, <2>1 DEF WorkerOK, Holds, Sees, SeesRow, Later
  <2>2. CASE again = Loaded
    BY <1>3, <2>2 DEF Later, OrderInv, StepsInv, Fits
  <2> QED
    BY <1>2, <2>1, <2>2
<1> DEFINE told == [k EXCEPT !.todo = @ \ {s}, !.cur = s, !.bad = TRUE, !.out = << >>,
                             !.view = [again EXCEPT !.step[s] = "error"]]
<1>5. PICK k2 : k2 = told
  OBVIOUS
<1>6. /\ UNCHANGED <<action, needs, row, link, run, wf>> /\ Flush(w, {})
      /\ step' = [step EXCEPT ![s] = Changed(@, again.step[s], "error")]
      /\ worker' = [worker EXCEPT ![w] = Continue(k2)]
  BY <1>1, <1>2, <1>5 DEF Raise
<1> HIDE DEF remembered
<1>7. UNCHANGED task
  BY <1>6, FlushNothing DEF OrderInv
<1>8. step' = [step EXCEPT ![s] = "error"]
  BY <1>4, <1>6 DEF Changed
<1>9. Fits("error", LoadedRow(s)) /\ (k.level # k.target => step[s] # "done")
  <2>1. CASE Handles(w, s) /\ ~Claims(worker[w], s)
    BY <1>1, <2>1, NotClaimed, HandledNotDone DEF Fits
  <2>2. CASE k.pc = "claimed" /\ s = k.cur
    <3>1. action = "create"
      BY <1>1, <2>2, OrderAccepted DEF Raise, OrderInv, TypeInv, GraphOK
    <3> QED
      BY <1>1, <2>2, <3>1 DEF Fits, WorkerOK
  <2> QED
    BY <1>1, <2>1, <2>2 DEF Raise
<1>10. RowsInv' /\ TasksInv' /\ StepsInv' /\ Onwards
  BY <1>6, <1>7, <1>8, <1>9, StatusStep
<1>11. MsgsInv'
  BY <1>1, <1>6, <1>10, FlushTold DEF OrderInv, WorkerOK
<1>12. /\ k2 \in Busy /\ k2.msg = k.msg /\ k2.target = k.target /\ k2.level = k.level
       /\ k2.todo \subseteq k.todo /\ k2.out = << >>
       /\ k2.view.wf = again.wf /\ k2.view.link = again.link /\ k2.view.row = again.row
       /\ k2.view.step = [again.step EXCEPT ![s] = "error"]
  BY <1>1, <1>3, <1>5, MessageTypes DEF Busy, View, StepStatus, ModelStatus
<1> HIDE DEF told
<1>13. \A t \in Step : LoadedRow(t)' = LoadedRow(t)
  BY <1>6, RowsSame
<1>14. Start' = Start /\ Goal' = Goal /\ Aim' = Aim
  BY <1>6, Frame
<1>15. Sees(k2)'
  <2>1. k2.view.wf = wf' /\ k2.view.step = step' /\ k2.view.link = link'
    BY <1>4, <1>6, <1>8, <1>12
  <2>2. \A t \in Step : SeesRow(k2, t)'
    BY <1>4, <1>12, <1>13, <1>14 DEF SeesRow, Later
  <2>3. \A t \in Step : step'[t] = "done" => k2.view.row[t] = Goal
    BY <1>4, <1>8, <1>12 DEF OrderInv, TypeInv, TypeOK
  <2> QED
    BY <1>14, <2>1, <2>2, <2>3 DEF Sees
<1>16. Holds(k2)'
  <2>1. Told(k2.msg)'
    BY <1>1, <1>10, <1>12, ToldStays DEF WorkerOK, Holds, Busy
  <2>2. \A t \in k2.target : LoadedRow(t)' # Start' /\ k2.target = {t}
    BY <1>1, <1>12, <1>13, <1>14 DEF WorkerOK, Holds, Busy
  <2> QED
    BY <1>12, <1>15, <2>1, <2>2 DEF Holds
<1>17. k2.level # k2.target => Waited(k2, k2.level)
  <2> SUFFICES ASSUME k.level # k.target PROVE Waited(k2, k.level)
    BY <1>12
  <2>1. k.view.step[s] # "done" /\ Waited(k, k.level) /\ k.view.step = step
    BY <1>1, <1>9 DEF WorkerOK, Holds, Sees
  <2>2. \A t \in k.level : Before(t) \subseteq Step
    BY <1>1, PositionOrder DEF Busy, OrderInv, TypeInv
  <2>3. Puts(k2.view.step, k.view.step, s, "error")
    BY <1>4, <1>12, <2>1 DEF Puts
  <2> QED
    BY <1>1, <1>12, <2>1, <2>2, <2>3, WaitedStays
<1>18. k2.todo \subseteq k2.level /\ wf' = "in_progress"
  BY <1>1, <1>6, <1>12 DEF WorkerOK
<1>19. PICK c : c = Continue(k2)
  OBVIOUS
<1>20. WorkerOK(c)'
  BY <1>6, <1>12, <1>16, <1>17, <1>18, <1>19, ContinueOK DEF OrderInv, TypeInv
<1>21. WorkerInv'
  BY <1>6, <1>19, <1>20, AloneInv DEF OrderInv
<1>22. DoneMeansAllDone'
  BY <1>18 DEF DoneMeansAllDone
<1> QED
  BY <1>10, <1>11, <1>21, <1>22 DEF OrderInv

-----------------------------------------------------------------------------
(* Steps that act on a resource.                                           *)

\* A resource is asked for, approved or queued, by the session that knows it.
LEMMA RowStep ==
    ASSUME OrderInv, UNCHANGED <<action, needs, run>>,
           NEW s \in Step, LoadedRow(s) # Goal, LoadedRow(s).status \notin Under,
           NEW new \in Between, new.status \in {"approval_pending", "ready", "queued"},
           Puts(row', row, <<s, 1>>, new), Puts(link', link, s, 1),
           NEW status \in {"approval_pending", "ready", "queued"}, Puts(step', step, s, status),
           \A r \in Res : task'[r] = IF r = <<s, 1>> /\ new.status = "queued"
                                     THEN task[r] + 1 ELSE task[r],
           LoadedRow(s) = Start => \A d \in Before(s) : LoadedRow(d) = Goal
    PROVE  /\ RowsInv' /\ TasksInv' /\ StepsInv' /\ Onwards
           /\ LoadedRow(s)' = new /\ new # Start
           /\ \A t \in Step \ {s} : LoadedRow(t)' = LoadedRow(t)
<1>0. <<s, 1>> \in Res /\ 1 \in Numbers
  BY BoundsAssumption DEF Res, Numbers
<1>1. /\ row \in [Res -> Row \cup {Absent}] /\ link \in [Step -> 0 .. MaxResources]
      /\ step \in [Step -> StepStatus] /\ GraphOK
      /\ task \in [Res -> 0 .. MaxQueue] /\ run \in [Res -> Nat]
  BY DEF OrderInv, TypeInv, TypeOK
<1>2. /\ \A r \in Res : row'[r] = IF r = <<s, 1>> THEN new ELSE row[r]
      /\ \A t \in Step : link'[t] = IF t = s THEN 1 ELSE link[t]
      /\ \A t \in Step : step'[t] = IF t = s THEN status ELSE step[t]
  BY <1>0, <1>1 DEF Puts
<1>3. Start' = Start /\ Goal' = Goal /\ Between' = Between
      /\ (\A t \in Step : Before(t)' = Before(t) /\ Before(t) \subseteq Step)
  BY <1>1, Frame, PositionOrder
<1>4. new # Start /\ new # Goal /\ new # Absent
  BY <1>1, Kinds
<1>5. LoadedRow(s)' = new
  BY <1>0, <1>2 DEF LoadedRow
<1>6. \A t \in Step \ {s} : LoadedRow(t)' = LoadedRow(t)
  <2> SUFFICES ASSUME NEW t \in Step \ {s} PROVE LoadedRow(t)' = LoadedRow(t)
    OBVIOUS
  <2>1. link'[t] = link[t] /\ (link[t] # 0 => <<t, link[t]>> \in Res)
    BY <1>1, <1>2 DEF Res, Numbers
  <2>2. link[t] # 0 => row'[<<t, link[t]>>] = row[<<t, link[t]>>]
    BY <1>2, <2>1
  <2> QED
    BY <2>1, <2>2 DEF LoadedRow
<1>7. RowsInv'
  <2> SUFFICES ASSUME NEW t \in Step
               PROVE  /\ LoadedRow(t)' \in {Start, Goal} \cup Between
                      /\ link'[t] # 0 => link'[t] = 1 /\ row'[<<t, 1>>] # Absent
                      /\ \A n \in Numbers : n # link'[t] => row'[<<t, n>>] = Absent
    BY <1>3 DEF RowsInv
  <2>1. <<t, 1>> \in Res /\ \A n \in Numbers : <<t, n>> \in Res
    BY <1>0 DEF Res
  <2>2. CASE t = s
    <3>1. \A n \in Numbers : n # 1 => row[<<s, n>>] = Absent
      BY BoundsAssumption DEF OrderInv, RowsInv, Numbers
    <3> QED
      BY <1>2, <1>4, <1>5, <2>1, <2>2, <3>1
  <2>3. CASE t # s
    <3>1. /\ LoadedRow(t) \in {Start, Goal} \cup Between
          /\ link[t] # 0 => link[t] = 1 /\ row[<<t, 1>>] # Absent
          /\ \A n \in Numbers : n # link[t] => row[<<t, n>>] = Absent
      BY DEF OrderInv, RowsInv
    <3>2. \A n \in Numbers : row'[<<t, n>>] = row[<<t, n>>]
      BY <1>2, <2>1, <2>3
    <3> QED
      BY <1>0, <1>2, <1>6, <2>3, <3>1, <3>2
  <2> QED
    BY <2>2, <2>3
<1>8. TasksInv'
  <2> SUFFICES ASSUME NEW r \in Res
               PROVE  /\ task'[r] = IF row'[r].status = "queued" THEN 1 ELSE 0
                      /\ run'[r] = IF row'[r].status = "in_progress" THEN 1 ELSE 0
    BY DEF TasksInv
  <2>1. /\ task[r] = IF row[r].status = "queued" THEN 1 ELSE 0
        /\ run[r] = IF row[r].status = "in_progress" THEN 1 ELSE 0
    BY DEF OrderInv, TasksInv
  <2>2. CASE r = <<s, 1>>
    <3>1. row[r].status \notin Under
      <4>1. CASE link[s] = 1
        BY <2>2, <4>1 DEF LoadedRow
      <4>2. CASE link[s] # 1
        BY <1>0, <2>2, <4>2 DEF OrderInv, RowsInv, Absent, Under
      <4> QED
        BY <4>1, <4>2
    <3>2. task[r] = 0 /\ run[r] = 0
      BY <2>1, <3>1 DEF Under
    <3> QED
      BY <1>2, <2>2, <3>2
  <2>3. CASE r # <<s, 1>>
    BY <1>2, <2>1, <2>3
  <2> QED
    BY <2>2, <2>3
<1>9. StepsInv'
  <2> SUFFICES ASSUME NEW t \in Step
               PROVE  /\ Fits(step[t], LoadedRow(t))'
                      /\ LoadedRow(t)' # Start' => \A d \in Before(t)' : LoadedRow(d)' = Goal'
    BY DEF StepsInv
  <2>1. Fits(step[t], LoadedRow(t))
        /\ (LoadedRow(t) # Start => \A d \in Before(t) : LoadedRow(d) = Goal)
    BY DEF OrderInv, StepsInv
  <2>2. CASE t = s
    <3>1. Fits(step[t], LoadedRow(t))'
      BY <1>2, <1>3, <1>4, <1>5, <2>2 DEF Fits
    <3>2. \A d \in Before(s) : LoadedRow(d) = Goal /\ d # s /\ d \in Step
      BY <1>3, <2>1, <2>2
    <3> QED
      BY <1>3, <1>6, <2>2, <3>1, <3>2
  <2>3. CASE t # s
    <3>1. Fits(step[t], LoadedRow(t))'
      BY <1>2, <1>3, <1>6, <2>1, <2>3 DEF Fits
    <3>2. LoadedRow(t) # Start => \A d \in Before(t) : LoadedRow(d) = Goal /\ d # s /\ d \in Step
      BY <1>3, <2>1
    <3> QED
      BY <1>3, <1>6, <2>3, <3>1, <3>2
  <2> QED
    BY <2>2, <2>3
<1>10. Onwards
  BY <1>4, <1>5, <1>6 DEF Onwards
<1> QED
  BY <1>4, <1>5, <1>6, <1>7, <1>8, <1>9, <1>10

LEMMA MergedSame == ASSUME NEW r \in Row, NEW new \in Row PROVE Merged(r, r, new) = new
BY DEF Merged, Row

\* The row a service call is about, and what becomes of it.
Acts(k, s, call) ==
    /\ k.view.row[s] = LoadedRow(s) /\ LoadedRow(s) # Goal
    /\ LoadedRow(s).status \notin Under
    /\ Effect(LoadedRow(s), call) \in Between
    /\ Effect(LoadedRow(s), call).status
         \in (IF call = "execute" THEN {"queued"} ELSE {"approval_pending", "ready"})
    /\ LoadedRow(s) = Start => \A d \in Before(s) : LoadedRow(d) = Goal

LEMMA RowOfCall ==
    ASSUME OrderInv, NEW k \in Busy, Holds(k), Known(k.view, row), NEW s \in Step,
           NEW call \in {"approve", "execute", "destroy"}, Acts(k, s, call), LoadedRow(s) # Absent
    PROVE  /\ k.view.link[s] = 1 /\ link[s] = 1 /\ <<s, 1>> \in Res
           /\ row[<<s, 1>>] = LoadedRow(s) /\ row[<<s, 1>>] \in Row
           /\ Effect(LoadedRow(s), call) \in Row
           /\ Merged(row[<<s, 1>>], k.view.row[s], Effect(k.view.row[s], call))
                = Effect(row[<<s, 1>>], call)
<1>1. k.view.link = link /\ k.view.row[s] # Absent
  BY DEF Holds, Sees, Acts
<1>2. link[s] \in Numbers /\ link[s] # 0 /\ link[s] = 1
  <2>1. link[s] \in Numbers
    BY <1>1 DEF Known
  <2>2. link[s] # 0
    BY <2>1, BoundsAssumption DEF Numbers
  <2> QED
    BY <2>1, <2>2 DEF OrderInv, RowsInv
<1>3. <<s, 1>> \in Res /\ row[<<s, 1>>] = LoadedRow(s)
  BY <1>2 DEF Res, LoadedRow
<1>4. row[<<s, 1>>] \in Row
  BY <1>3 DEF OrderInv, TypeInv, TypeOK
<1>5. Effect(LoadedRow(s), call) \in Row
  BY <1>3, <1>4, EffectRow, InstanceAssumption DEF OrderInv, TypeInv, TypeOK
<1>6. Merged(row[<<s, 1>>], k.view.row[s], Effect(k.view.row[s], call))
        = Effect(row[<<s, 1>>], call)
  BY <1>3, <1>4, <1>5, MergedSame DEF Acts
<1> QED
  BY <1>1, <1>2, <1>3, <1>4, <1>5, <1>6

LEMMA CommitsOrder ==
    ASSUME OrderInv, TypeInv', NEW w \in Worker, Alone(w), Alone(w)', NEW k \in Busy, k = worker[w],
           WorkerOK(k), k.pc \in {"steps", "claimed"}, Known(k.view, row), NEW s \in Step,
           NEW call \in {"approve", "execute", "destroy"}, NEW sends,
           Commits(w, s, call, sends), Acts(k, s, call), LoadedRow(s) # Absent,
           k.level # k.target => step[s] # "done"
    PROVE  /\ OrderInv'
           /\ <<s, 1>> \in Res /\ row[<<s, 1>>] = LoadedRow(s) /\ row[<<s, 1>>] \in Row
           /\ row' = [row EXCEPT ![<<s, 1>>] = Effect(row[<<s, 1>>], call)]
<1>1. /\ k.view.link[s] = 1 /\ link[s] = 1 /\ <<s, 1>> \in Res
      /\ row[<<s, 1>>] = LoadedRow(s) /\ row[<<s, 1>>] \in Row
      /\ Effect(LoadedRow(s), call) \in Row
      /\ Merged(row[<<s, 1>>], k.view.row[s], Effect(k.view.row[s], call))
           = Effect(row[<<s, 1>>], call)
  BY RowOfCall DEF WorkerOK
<1>2. PICK new \in Row : new = Effect(LoadedRow(s), call)
  BY <1>1
<1>3. PICK again : again = IF sends THEN Resends(k, s) ELSE new.status = "approval_pending"
  OBVIOUS
<1>4. /\ row' = [row EXCEPT ![<<s, 1>>] = new] /\ CommitStep(w, s, new.status)
      /\ Flush(w, IF call = "execute" THEN {<<s, 1>>} ELSE {})
      /\ worker' = [worker EXCEPT ![w] = Stepped(k, s, new.status, new, again)]
      /\ UNCHANGED <<action, gated, needs, wf, link, run, starts, faults, unwired, dropped>>
  BY <1>1, <1>2, <1>3 DEF Commits
<1>5. step' = [step EXCEPT ![s] = new.status]
  BY <1>4, CommitStepIs
<1>6. /\ new \in Between /\ (call = "execute" <=> new.status = "queued")
      /\ new.status \in {"approval_pending", "ready", "queued"}
      /\ LoadedRow(s) # Goal /\ LoadedRow(s).status \notin Under
      /\ LoadedRow(s) = Start => \A d \in Before(s) : LoadedRow(d) = Goal
  BY <1>2 DEF Acts
<1>7. Puts(row', row, <<s, 1>>, new) /\ Puts(link', link, s, 1) /\ Puts(step', step, s, new.status)
  BY <1>1, <1>4, <1>5 DEF Puts, OrderInv, TypeInv, TypeOK
<1>8. \A r \in Res : task'[r] = IF r = <<s, 1>> /\ new.status = "queued"
                                THEN task[r] + 1 ELSE task[r]
  BY <1>4, <1>6 DEF Flush
<1>9. /\ RowsInv' /\ TasksInv' /\ StepsInv' /\ Onwards
      /\ LoadedRow(s)' = new /\ new # Start
      /\ \A t \in Step \ {s} : LoadedRow(t)' = LoadedRow(t)
  <2>1. UNCHANGED <<action, needs, run>>
    BY <1>4
  <2> QED
    BY <1>6, <1>7, <1>8, <2>1, RowStep
<1>10. MsgsInv'
  BY <1>4, <1>9, FlushTold DEF OrderInv, WorkerOK
<1>11. PICK c : c = Stepped(k, s, new.status, new, again)
  OBVIOUS
<1>12. WorkerOK(c)'
  <2>1. new \in Row \cup {Absent} /\ new.status \in StepStatus /\ new.status # "done"
    BY <1>6 DEF Row, StepStatus
  <2>2. Later(new, LoadedRow(s)') /\ LoadedRow(s)' # Start
    BY <1>9 DEF Later
  <2>3. step' \in [Step -> StepStatus] /\ UNCHANGED wf /\ k.view.link = link'
    BY <1>4 DEF TypeInv, TypeOK, WorkerOK, Holds, Sees
  <2> QED
    BY <1>7, <1>9, <1>11, <2>1, <2>2, <2>3, SteppedOK
<1>13. WorkerInv'
  BY <1>4, <1>11, <1>12, AloneInv DEF OrderInv
<1>14. DoneMeansAllDone'
  BY <1>4 DEF WorkerOK, DoneMeansAllDone
<1> QED
  BY <1>1, <1>2, <1>4, <1>9, <1>10, <1>13, <1>14 DEF OrderInv

LEMMA AskOrder ==
    ASSUME OrderInv, TypeInv', NEW w \in Worker, Alone(w), Alone(w)', NEW s \in Step, Ask(w, s)
    PROVE  /\ OrderInv'
           /\ \E call \in {"approve", "execute"} :
                /\ <<s, 1>> \in Res /\ row[<<s, 1>>] \in Row
                /\ call = "approve" => row[<<s, 1>>].status = "approval_pending"
                /\ call = "execute" => CanBeExecuted(row[<<s, 1>>])
                /\ row' = [row EXCEPT ![<<s, 1>>] = Effect(row[<<s, 1>>], call)]
<1>1. PICK k \in Busy : k = worker[w] /\ WorkerOK(k) /\ k.pc = "steps" /\ Known(k.view, row)
  BY WorkerIsOK, PcIsBusy DEF Ask, Handles, OrderInv
<1>2. PICK call : call = Call(k, s)
  OBVIOUS
<1>3. /\ Handles(w, s) /\ ~Claims(k, s) /\ call \in {"approve", "execute"}
      /\ Commits(w, s, call, TRUE) /\ Accepts(k, s, call)
  BY <1>1, <1>2 DEF Ask, Commits
<1>4. PICK r : r = k.view.row[s]
  OBVIOUS
<1>5. /\ LoadedRow(s) # Start /\ r \in {Goal} \cup Between
      /\ r.status \notin Under => r = LoadedRow(s)
  BY <1>1, <1>3, <1>4, NotClaimed
<1>6. call = "approve" => r.status = "approval_pending"
  BY <1>3, <1>4 DEF Accepts
<1>7. call = "execute" => r.status \in {"ready", "error"} /\ CanBeExecuted(r)
  <2>1. call = "execute" => CanBeExecuted(r)
    BY <1>3, <1>4 DEF Accepts
  <2>2. Call(k, s) = "execute" => r.status \in {"ready", "error"}
    <3>1. CASE r.status \in {"ready", "error"}
      BY <3>1
    <3>2. CASE r = Absent \/ r.status = "approval_pending"
      BY <1>4, <3>2 DEF Call, Absent, OrderInv, TypeInv, GraphOK
    <3>3. CASE r # Absent /\ r.status \notin {"approval_pending", "ready", "error"}
      BY <1>4, <3>3 DEF Call
    <3> QED
      BY <3>1, <3>2, <3>3
  <2> QED
    BY <1>2, <2>1, <2>2
<1>8. /\ r \in Between /\ r = LoadedRow(s) /\ r.status \notin Under /\ r.state = Aim
      /\ r # Absent /\ r # Goal
  BY <1>3, <1>5, <1>6, <1>7, Kinds DEF Under, OrderInv, TypeInv
<1>9. Acts(k, s, call)
  <2>1. Effect(r, call) = At(IF call = "execute" THEN "queued" ELSE "ready", Aim)
    BY <1>3, <1>8 DEF Effect, ApproveEntity, ExecuteEntity
  <2>2. /\ Effect(r, call) \in Between
        /\ Effect(r, call).status = (IF call = "execute" THEN "queued" ELSE "ready")
    BY <1>3, <2>1, Kinds DEF Between, Under, OrderInv, TypeInv
  <2> QED
    BY <1>3, <1>4, <1>5, <1>8, <2>2 DEF Acts
<1>10. k.level # k.target => step[s] # "done"
  BY <1>1, <1>3, HandledNotDone
<1>11. /\ OrderInv' /\ <<s, 1>> \in Res /\ row[<<s, 1>>] = LoadedRow(s) /\ row[<<s, 1>>] \in Row
       /\ row' = [row EXCEPT ![<<s, 1>>] = Effect(row[<<s, 1>>], call)]
  <2>1. LoadedRow(s) # Absent /\ k.pc \in {"steps", "claimed"}
    BY <1>1, <1>8
  <2>2. CASE call = "approve"
    <3>1. Commits(w, s, "approve", TRUE) /\ Acts(k, s, "approve")
      BY <1>3, <1>9, <2>2
    <3> QED
      BY <1>1, <1>10, <2>1, <2>2, <3>1, CommitsOrder
  <2>3. CASE call = "execute"
    <3>1. Commits(w, s, "execute", TRUE) /\ Acts(k, s, "execute")
      BY <1>3, <1>9, <2>3
    <3> QED
      BY <1>1, <1>10, <2>1, <2>3, <3>1, CommitsOrder
  <2> QED
    BY <1>3, <2>2, <2>3
<1> QED
  BY <1>3, <1>6, <1>7, <1>8, <1>11

LEMMA OrderOrder ==
    ASSUME OrderInv, TypeInv', NEW w \in Worker, Alone(w), Alone(w)', Order(w)
    PROVE  /\ OrderInv'
           /\ \E s \in Step :
                /\ <<s, 1>> \in Res /\ row[<<s, 1>>] = At("done", "provisioned")
                /\ row' = [row EXCEPT ![<<s, 1>>] = DestroyEntity(row[<<s, 1>>], gated)]
<1>1. PICK k \in Busy : k = worker[w] /\ WorkerOK(k) /\ k.pc = "claimed" /\ Known(k.view, row)
  BY WorkerIsOK, PcIsBusy DEF Order, OrderInv
<1>2. PICK s \in Step : s = k.cur
  BY <1>1 DEF Busy
<1>3. LoadedRow(s) = Start /\ SeesRow(k, s) /\ action = "destroy" /\ step[s] = "in_progress"
      /\ \A d \in Before(s) : step[d] = "done" /\ d \in Step
  BY <1>1, <1>2, PositionOrder DEF WorkerOK, Holds, Sees, Order, OrderInv, TypeInv
<1>4. Start = At("done", "provisioned")
  BY <1>3 DEF Start
<1>5. k.view.row[s] = LoadedRow(s)
  BY <1>3, Kinds DEF SeesRow, OrderInv, TypeInv
<1>6. k.view.row[s].state # "destroy" /\ Start.status \notin Under /\ Start # Absent
  BY <1>3, <1>4, <1>5 DEF At, Under, Absent
<1>7. Commits(w, s, "destroy", FALSE)
  BY <1>1, <1>2, <1>6 DEF Order
<1>8. Acts(k, s, "destroy")
  <2>1. Effect(Start, "destroy") = At(Gate(gated), Aim) /\ Aim = "destroy"
    BY <1>3 DEF Effect, DestroyEntity, Aim
  <2>2. /\ Effect(Start, "destroy") \in Between
        /\ Effect(Start, "destroy").status \in {"approval_pending", "ready"}
    BY <2>1, Kinds DEF Between, Gate, OrderInv, TypeInv
  <2>3. \A d \in Before(s) : LoadedRow(d) = Goal
    BY <1>3 DEF OrderInv, StepsInv, Fits
  <2> QED
    BY <1>3, <1>5, <1>6, <2>2, <2>3, Kinds DEF Acts, OrderInv, TypeInv
<1>9. /\ OrderInv' /\ <<s, 1>> \in Res /\ row[<<s, 1>>] = LoadedRow(s)
      /\ row' = [row EXCEPT ![<<s, 1>>] = Effect(row[<<s, 1>>], "destroy")]
  <2>1. LoadedRow(s) # Absent /\ k.pc \in {"steps", "claimed"} /\ step[s] # "done"
    BY <1>1, <1>3, <1>6
  <2> QED
    BY <1>1, <1>7, <1>8, <2>1, CommitsOrder
<1>10. Effect(row[<<s, 1>>], "destroy") = DestroyEntity(row[<<s, 1>>], gated)
  BY DEF Effect
<1> QED
  BY <1>3, <1>4, <1>9, <1>10

LEMMA CreateOrder ==
    ASSUME OrderInv, TypeInv', NEW w \in Worker, Alone(w), Alone(w)', Create(w)
    PROVE  /\ OrderInv'
           /\ \E s \in Step :
                /\ <<s, 1>> \in Res /\ row[<<s, 1>>] = Absent
                /\ row' = [row EXCEPT ![<<s, 1>>] = At(Gate(gated), "provision")]
<1>1. PICK k \in Busy : k = worker[w] /\ WorkerOK(k) /\ k.pc = "claimed" /\ Known(k.view, row)
  BY WorkerIsOK, PcIsBusy DEF Create, OrderInv
<1>2. PICK s \in Step : s = k.cur
  BY <1>1 DEF Busy
<1>3. LoadedRow(s) = Start /\ action = "create" /\ step[s] = "in_progress"
      /\ \A d \in Before(s) : step[d] = "done" /\ d \in Step
  BY <1>1, <1>2, PositionOrder DEF WorkerOK, Holds, Sees, Create, OrderInv, TypeInv
<1>4. Start = Absent /\ Aim = "provision"
  BY <1>3 DEF Start, Aim
<1>5. link[s] = 0 /\ \A n \in Numbers : row[<<s, n>>] = Absent
  <2>1. link[s] = 0
    BY <1>3, <1>4 DEF OrderInv, RowsInv, LoadedRow
  <2>2. \A n \in Numbers : n # 0
    BY BoundsAssumption DEF Numbers
  <2>3. \A n \in Numbers : n # link[s] => row[<<s, n>>] = Absent
    BY DEF OrderInv, RowsInv
  <2> QED
    BY <2>1, <2>2, <2>3
<1>6. Cardinality({n \in Numbers : row[<<s, n>>] # Absent}) = 0
  <2>1. {n \in Numbers : row[<<s, n>>] # Absent} = {}
    BY <1>5
  <2> QED
    BY <2>1, FS_EmptySet
<1> DEFINE fresh == At(Gate(gated), "provision")
           relinked == [k EXCEPT !.view.link[s] = 1]
<1>7. PICK new : new = fresh
  OBVIOUS
<1>8. PICK k2 : k2 = relinked
  OBVIOUS
<1>9. /\ row' = [row EXCEPT ![<<s, 1>>] = new] /\ link' = [link EXCEPT ![s] = 1]
      /\ CommitStep(w, s, "approval_pending") /\ Flush(w, {})
      /\ worker' = [worker EXCEPT ![w] = Stepped(k2, s, "approval_pending", new, TRUE)]
      /\ UNCHANGED <<action, gated, needs, wf, run, starts, faults, dropped>>
  <2> DEFINE n == Cardinality({m \in Numbers : row[<<s, m>>] # Absent}) + 1
  <2>1. /\ row' = [row EXCEPT ![<<s, n>>] = fresh] /\ link' = [link EXCEPT ![s] = n]
        /\ CommitStep(w, s, "approval_pending") /\ Flush(w, {})
        /\ worker' = [worker EXCEPT ![w] = Stepped([k EXCEPT !.view.link[s] = n], s,
                                                   "approval_pending", fresh, TRUE)]
        /\ UNCHANGED <<action, gated, needs, wf, run, starts, faults, dropped>>
    BY <1>1, <1>2 DEF Create
  <2>2. n = 1
    BY <1>6
  <2> HIDE DEF n
  <2> QED
    BY <1>7, <1>8, <2>1, <2>2
<1>10. step' = [step EXCEPT ![s] = "approval_pending"]
  BY <1>1, <1>9, CommitStepIs
<1>11. /\ new \in Between /\ new.status \in {"approval_pending", "ready"} /\ new \in Row
  <2>1. new = At(Gate(gated), Aim) /\ Gate(gated) \in {"approval_pending", "ready"}
    BY <1>4, <1>7 DEF Gate
  <2> QED
    BY <1>4, <2>1, Kinds DEF Between, Row, At, ModelStatus, ModelState, OrderInv, TypeInv
<1> HIDE DEF fresh, relinked
<1>12. <<s, 1>> \in Res /\ row[<<s, 1>>] = Absent
  BY <1>5, BoundsAssumption DEF Res, Numbers
<1>13. Puts(row', row, <<s, 1>>, new) /\ Puts(link', link, s, 1)
       /\ Puts(step', step, s, "approval_pending")
  BY <1>9, <1>10 DEF Puts
<1>14. \A r \in Res : task'[r] = task[r]
  BY <1>9 DEF Flush
<1>15. /\ RowsInv' /\ TasksInv' /\ StepsInv' /\ Onwards
       /\ LoadedRow(s)' = new /\ new # Start
       /\ \A t \in Step \ {s} : LoadedRow(t)' = LoadedRow(t)
  <2>1. LoadedRow(s) # Goal /\ LoadedRow(s).status \notin Under
    BY <1>3, Kinds DEF OrderInv, TypeInv
  <2>2. LoadedRow(s) = Start => \A d \in Before(s) : LoadedRow(d) = Goal
    BY <1>3 DEF OrderInv, StepsInv, Fits
  <2>3. /\ UNCHANGED <<action, needs, run>>
        /\ new.status \in {"approval_pending", "ready", "queued"} /\ new.status # "queued"
        /\ "approval_pending" \in {"approval_pending", "ready", "queued"}
    BY <1>9, <1>11
  <2>4. \A r \in Res : task'[r] = IF r = <<s, 1>> /\ new.status = "queued"
                                  THEN task[r] + 1 ELSE task[r]
    BY <1>14, <2>3
  <2> QED
    BY <1>11, <1>13, <2>1, <2>2, <2>3, <2>4, RowStep
<1>16. MsgsInv'
  BY <1>1, <1>9, <1>15, FlushTold DEF OrderInv, WorkerOK
<1>17. PICK c : c = Stepped(k2, s, "approval_pending", new, TRUE)
  OBVIOUS
<1>18. k.view.link = link /\ 1 \in 0 .. MaxResources
  BY <1>1, BoundsAssumption DEF WorkerOK, Holds, Sees
<1>19. /\ k2 \in Busy /\ k2.msg = k.msg /\ k2.target = k.target /\ k2.level = k.level
       /\ k2.todo = k.todo /\ k2.view.wf = k.view.wf /\ k2.view.step = k.view.step
       /\ k2.view.row = k.view.row /\ k2.view.link = link'
  <2>1. [k.view.link EXCEPT ![s] = 1] \in [Step -> 0 .. MaxResources]
        /\ link' = [k.view.link EXCEPT ![s] = 1]
    BY <1>9, <1>18 DEF Busy, View
  <2> QED
    BY <1>8, <2>1 DEF Busy, View, relinked
<1>20. WorkerOK(c)'
  <2>1. new \in Row \cup {Absent} /\ "approval_pending" \in StepStatus
        /\ ("approval_pending" = "done" => new = Goal)
    BY <1>11 DEF StepStatus, ModelStatus
  <2>2. Later(new, LoadedRow(s)') /\ LoadedRow(s)' # Start
    BY <1>15 DEF Later
  <2>3. step' \in [Step -> StepStatus] /\ UNCHANGED wf
    BY <1>9 DEF TypeInv, TypeOK
  <2>4. k.pc \in {"steps", "claimed"} /\ (k.level # k.target => step[s] # "done")
    BY <1>1, <1>3
  <2> QED
    BY <1>1, <1>13, <1>15, <1>17, <1>19, <2>1, <2>2, <2>3, <2>4, SteppedOK
<1>21. WorkerInv'
  BY <1>9, <1>17, <1>20, AloneInv DEF OrderInv
<1>22. DoneMeansAllDone'
  BY <1>1, <1>9 DEF WorkerOK, DoneMeansAllDone
<1>23. OrderInv'
  BY <1>15, <1>16, <1>21, <1>22 DEF OrderInv
<1> QED
  BY <1>7, <1>9, <1>12, <1>23 DEF fresh

-----------------------------------------------------------------------------
(* Resource tasks.                                                         *)

\* A task moves the row of its resource on, and nobody else does meanwhile.
LEMMA TaskStep ==
    ASSUME OrderInv, UNCHANGED <<action, needs, link, step, wf, worker>>,
           NEW r \in Res, row[r].status \in Under, NEW new, row' = [row EXCEPT ![r] = new],
           new = At("in_progress", Aim) \/ (row[r].status = "in_progress"
                                             /\ new \in {Goal, At("error", Aim)}),
           \A q \in Res : task'[q] = IF q = r THEN 0 ELSE task[q],
           \A q \in Res : run'[q] = IF q = r THEN (IF new.status = "in_progress" THEN 1 ELSE 0)
                                    ELSE run[q]
    PROVE  /\ RowsInv' /\ TasksInv' /\ StepsInv' /\ WorkerInv' /\ Onwards
           /\ r[1] \in Step /\ LoadedRow(r[1])' # Start'
<1>0. PICK s \in Step : s = r[1] /\ r = <<s, 1>> /\ link[s] = 1 /\ row[r] = LoadedRow(s)
                        /\ row[r] = At(row[r].status, Aim)
  BY RowUnder DEF OrderInv
<1>1. /\ row \in [Res -> Row \cup {Absent}] /\ link \in [Step -> 0 .. MaxResources] /\ GraphOK
      /\ \A q \in Res : row'[q] = IF q = r THEN new ELSE row[q]
  BY DEF OrderInv, TypeInv, TypeOK
<1>2. Start' = Start /\ Goal' = Goal /\ Aim' = Aim /\ Between' = Between
      /\ (\A t \in Step : Before(t)' = Before(t) /\ Before(t) \subseteq Step)
      /\ (\A k, L : Waited(k, L)' <=> Waited(k, L))
  BY <1>1, Frame, PositionOrder
<1>3. /\ new # Start /\ new # Absent /\ new \in {Goal} \cup Between
      /\ new \in {Goal} \cup {At(status, Aim) : status \in Under \cup {"error"}}
      /\ new.status \notin {"queued"} /\ (new.status = "in_progress" \/ new.status # "in_progress")
      /\ LoadedRow(s) # Start /\ LoadedRow(s) # Goal
  BY <1>0, <1>1, Kinds DEF Between, Under
<1>4. LoadedRow(s)' = new
  BY <1>0, <1>1 DEF LoadedRow
<1>5. \A t \in Step \ {s} : LoadedRow(t)' = LoadedRow(t)
  <2> SUFFICES ASSUME NEW t \in Step \ {s} PROVE LoadedRow(t)' = LoadedRow(t)
    OBVIOUS
  <2>1. link[t] # 0 => <<t, link[t]>> \in Res /\ <<t, link[t]>> # r
    BY <1>0, <1>1 DEF Res, Numbers
  <2> QED
    BY <1>1, <2>1 DEF LoadedRow
<1>6. RowsInv'
  <2> SUFFICES ASSUME NEW t \in Step
               PROVE  /\ LoadedRow(t)' \in {Start, Goal} \cup Between
                      /\ link[t] # 0 => link[t] = 1 /\ row'[<<t, 1>>] # Absent
                      /\ \A n \in Numbers : n # link[t] => row'[<<t, n>>] = Absent
    BY <1>2 DEF RowsInv
  <2>1. /\ LoadedRow(t) \in {Start, Goal} \cup Between
        /\ link[t] # 0 => link[t] = 1 /\ row[<<t, 1>>] # Absent
        /\ \A n \in Numbers : n # link[t] => row[<<t, n>>] = Absent
    BY DEF OrderInv, RowsInv
  <2>2. <<t, 1>> \in Res /\ \A n \in Numbers : <<t, n>> \in Res
    BY BoundsAssumption DEF Res, Numbers
  <2>3. row'[<<t, 1>>] = IF t = s THEN new ELSE row[<<t, 1>>]
    BY <1>0, <1>1, <2>2
  <2>4. \A n \in Numbers : n # link[t] => row'[<<t, n>>] = row[<<t, n>>]
    BY <1>0, <1>1, <2>2
  <2> QED
    BY <1>3, <1>4, <1>5, <2>1, <2>3, <2>4
<1>7. TasksInv'
  <2> SUFFICES ASSUME NEW q \in Res
               PROVE  /\ task'[q] = IF row'[q].status = "queued" THEN 1 ELSE 0
                      /\ run'[q] = IF row'[q].status = "in_progress" THEN 1 ELSE 0
    BY DEF TasksInv
  <2>1. /\ task[q] = IF row[q].status = "queued" THEN 1 ELSE 0
        /\ run[q] = IF row[q].status = "in_progress" THEN 1 ELSE 0
    BY DEF OrderInv, TasksInv
  <2> QED
    BY <1>1, <1>3, <2>1
<1>8. StepsInv'
  <2> SUFFICES ASSUME NEW t \in Step
               PROVE  /\ Fits(step[t], LoadedRow(t))'
                      /\ LoadedRow(t)' # Start' => \A d \in Before(t)' : LoadedRow(d)' = Goal'
    BY DEF StepsInv
  <2>1. Fits(step[t], LoadedRow(t))
        /\ (LoadedRow(t) # Start => \A d \in Before(t) : LoadedRow(d) = Goal)
    BY DEF OrderInv, StepsInv
  <2>2. Fits(step[t], LoadedRow(t))'
    BY <1>2, <1>3, <1>4, <1>5, <2>1 DEF Fits
  <2>3. LoadedRow(t)' # Start => LoadedRow(t) # Start
    BY <1>3, <1>5
  <2>4. \A d \in Before(t) : LoadedRow(d) = Goal => LoadedRow(d)' = Goal
    BY <1>2, <1>3, <1>5
  <2> QED
    BY <1>2, <2>1, <2>2, <2>3, <2>4
<1>9. Onwards
  BY <1>3, <1>4, <1>5 DEF Onwards
<1>10. WorkerInv'
  <2> SUFFICES ASSUME NEW w \in Worker, worker[w] # Idle PROVE WorkerOK(worker[w])'
    BY DEF WorkerInv
  <2>1. PICK k \in Busy : k = worker[w] /\ WorkerOK(k)
    BY WorkerIsBusy DEF OrderInv, WorkerInv
  <2>2. step[s] # "done"
    BY <1>3 DEF OrderInv, StepsInv, Fits
  <2>3. Sees(k)'
    <3>1. ASSUME NEW t \in Step PROVE SeesRow(k, t)'
      <4>1. SeesRow(k, t)
        BY <2>1 DEF WorkerOK, Holds, Sees
      <4>2. CASE t # s
        BY <1>2, <1>5, <4>1, <4>2 DEF SeesRow
      <4>3. CASE t = s
        <5>1. k.view.row[s] \in {At(status, Aim) : status \in Under}
          BY <1>0, <4>1, <4>3 DEF SeesRow
        <5> QED
          BY <1>2, <1>3, <1>4, <4>3, <5>1 DEF SeesRow
      <4> QED
        BY <4>2, <4>3
    <3>2. \A t \in Step : step[t] = "done" => k.view.row[t] = Goal
      BY <2>1 DEF WorkerOK, Holds, Sees
    <3>3. k.view.wf = wf /\ k.view.step = step /\ k.view.link = link
      BY <2>1 DEF WorkerOK, Holds, Sees
    <3> QED
      BY <1>2, <3>1, <3>2, <3>3 DEF Sees
  <2>4. Holds(k)'
    <3>1. Told(k.msg)'
      BY <1>9, <2>1, ToldStays DEF WorkerOK, Holds, Busy
    <3>2. \A i \in DOMAIN k.out : Told(k.out[i])'
      <4> SUFFICES ASSUME NEW i \in DOMAIN k.out PROVE Told(k.out[i])'
        OBVIOUS
      <4>1. k.out[i] \in Message /\ Told(k.out[i])
        BY <2>1 DEF WorkerOK, Holds, Busy
      <4> QED
        BY <1>9, <4>1, ToldStays
    <3>3. \A t \in k.target : LoadedRow(t)' # Start' /\ k.target = {t}
      BY <1>2, <1>9, <2>1 DEF WorkerOK, Holds, Onwards, Busy
    <3> QED
      BY <2>3, <3>1, <3>2, <3>3 DEF Holds
  <2>5. k.pc = "claimed" => LoadedRow(k.cur)' = Start'
    BY <1>2, <1>3, <1>5, <2>1 DEF WorkerOK, Busy
  <2>6. k.cur \in Step
    BY <2>1 DEF Busy
  <2>7. WorkerOK(k)'
    BY <1>2, <2>1, <2>4, <2>5, <2>6 DEF WorkerOK, AllDone
  <2> QED
    BY <2>1, <2>7
<1> QED
  BY <1>0, <1>2, <1>3, <1>4, <1>6, <1>7, <1>8, <1>9, <1>10

LEMMA StartTaskOrder ==
    ASSUME OrderInv, TypeInv', NEW r \in Res, StartTask(r)
    PROVE  /\ OrderInv'
           /\ row[r].status = "queued" /\ row' = [row EXCEPT ![r] = MakeInProgress(row[r])]
<1>1. /\ task[r] = IF row[r].status = "queued" THEN 1 ELSE 0
      /\ run[r] = IF row[r].status = "in_progress" THEN 1 ELSE 0
      /\ task \in [Res -> 0 .. MaxQueue] /\ run \in [Res -> Nat] /\ GraphOK
  BY DEF OrderInv, TasksInv, TypeInv, TypeOK
<1>2. row[r].status = "queued" /\ task[r] = 1 /\ run[r] = 0 /\ row[r].status \in Under
  BY <1>1 DEF StartTask, Under
<1>3. row[r] = At("queued", Aim)
  BY <1>2, RowUnder DEF OrderInv
<1>4. Executable(row[r]) /\ MakeInProgress(row[r]) = At("in_progress", Aim)
  BY <1>1, <1>3 DEF Executable, Runnable, MakeInProgress, At, Aim
<1>5. /\ row' = [row EXCEPT ![r] = MakeInProgress(row[r])]
      /\ run' = [run EXCEPT ![r] = run[r] + 1] /\ task' = [task EXCEPT ![r] = task[r] - 1]
      /\ UNCHANGED <<action, gated, needs, wf, step, link, msgs, worker, starts,
                     faults, unwired, dropped>>
  BY <1>4 DEF StartTask
<1>6. PICK new : new = At("in_progress", Aim)
  OBVIOUS
<1>7. new.status = "in_progress"
  BY <1>6 DEF At
<1>8. /\ RowsInv' /\ TasksInv' /\ StepsInv' /\ WorkerInv' /\ Onwards
  <2>1. \A q \in Res : task'[q] = IF q = r THEN 0 ELSE task[q]
    BY <1>1, <1>2, <1>5
  <2>2. \A q \in Res : run'[q] = IF q = r THEN (IF new.status = "in_progress" THEN 1 ELSE 0)
                                 ELSE run[q]
    BY <1>1, <1>2, <1>5, <1>7
  <2>3. UNCHANGED <<action, needs, link, step, wf, worker>> /\ row' = [row EXCEPT ![r] = new]
    BY <1>4, <1>5, <1>6
  <2> QED
    BY <1>2, <1>6, <2>1, <2>2, <2>3, TaskStep
<1>9. MsgsInv'
  <2> SUFFICES ASSUME NEW i \in DOMAIN msgs PROVE Told(msgs[i])'
    BY <1>5 DEF MsgsInv
  <2>1. PICK m \in Message : m = msgs[i] /\ Told(m)
    BY DEF OrderInv, TypeInv, TypeOK, MsgsInv
  <2>2. Told(m)' /\ msgs'[i] = m
    BY <1>5, <1>8, <2>1, ToldStays
  <2> QED
    BY <2>1, <2>2
<1>10. DoneMeansAllDone'
  BY <1>5 DEF OrderInv, DoneMeansAllDone
<1> QED
  BY <1>2, <1>5, <1>8, <1>9, <1>10 DEF OrderInv

LEMMA EndTaskOrder ==
    ASSUME OrderInv, TypeInv', NEW r \in Res, EndTask(r)
    PROVE  /\ OrderInv'
           /\ row[r].status = "in_progress"
           /\ \/ row' = [row EXCEPT ![r] = MakeDone(row[r])]
              \/ row' = [row EXCEPT ![r] = MakeFailed(row[r])]
<1>1. /\ task[r] = IF row[r].status = "queued" THEN 1 ELSE 0
      /\ run[r] = IF row[r].status = "in_progress" THEN 1 ELSE 0
      /\ task \in [Res -> 0 .. MaxQueue] /\ run \in [Res -> Nat] /\ GraphOK
      /\ row \in [Res -> Row \cup {Absent}]
  BY DEF OrderInv, TasksInv, TypeInv, TypeOK
<1>2. row[r].status = "in_progress" /\ task[r] = 0 /\ run[r] = 1 /\ row[r].status \in Under
  BY <1>1 DEF EndTask, Under
<1>3. row[r] = At("in_progress", Aim)
  BY <1>2, RowUnder DEF OrderInv
<1>4. At("in_progress", row[r].state) = row[r] /\ row[r] \in Row
  BY <1>1, <1>3 DEF At, Row, ModelStatus, ModelState, Aim
<1>5. /\ MakeDone(row[r]) = Goal /\ MakeFailed(row[r]) = At("error", Aim)
      /\ Goal \in Row /\ At("error", Aim) \in Row
  BY <1>1, <1>3 DEF MakeDone, MakeFailed, At, Goal, Aim, Row, ModelStatus, ModelState, GraphOK
<1>6. PICK kind \in {"none", "fail", "callback"} :
        /\ row' = [row EXCEPT ![r] =
                Merged(row[r], row[r], IF kind = "fail" THEN MakeFailed(row[r])
                                       ELSE MakeDone(row[r]))]
        /\ Publish(IF kind = "callback" THEN << >> ELSE <<r>>)
  BY <1>4 DEF EndTask
<1>7. PICK new : new = IF kind = "fail" THEN MakeFailed(row[r]) ELSE MakeDone(row[r])
  OBVIOUS
<1>8. new \in Row /\ new \in {Goal, At("error", Aim)} /\ new.status # "in_progress"
  BY <1>5, <1>7 DEF Goal, At
<1>9. row' = [row EXCEPT ![r] = new]
  BY <1>4, <1>6, <1>7, <1>8, MergedSame
<1>10. /\ run' = [run EXCEPT ![r] = run[r] - 1]
       /\ UNCHANGED <<action, gated, needs, wf, step, link, task, worker, starts, unwired>>
  BY DEF EndTask
<1>11. /\ RowsInv' /\ TasksInv' /\ StepsInv' /\ WorkerInv' /\ Onwards
       /\ r[1] \in Step /\ LoadedRow(r[1])' # Start'
  <2>1. \A q \in Res : task'[q] = IF q = r THEN 0 ELSE task[q]
    BY <1>2, <1>10
  <2>2. \A q \in Res : run'[q] = IF q = r THEN (IF new.status = "in_progress" THEN 1 ELSE 0)
                                 ELSE run[q]
    BY <1>1, <1>2, <1>8, <1>10
  <2>3. UNCHANGED <<action, needs, link, step, wf, worker>>
    BY <1>10
  <2> QED
    BY <1>2, <1>8, <1>9, <2>1, <2>2, <2>3, TaskStep
<1>12. MsgsInv'
  <2>1. PICK out \in Seq(Message) : out = (IF kind = "callback" THEN << >> ELSE <<r>>)
    <3>1. r \in Message
      BY DEF Message
    <3>2. << >> \in Seq(Message) /\ <<r>> \in Seq(Message)
      BY <3>1
    <3>3. CASE kind = "callback"
      BY <3>2, <3>3
    <3>4. CASE kind # "callback"
      BY <3>2, <3>4
    <3> QED
      BY <3>3, <3>4
  <2>2. msgs' = msgs \o out /\ msgs \in Seq(Message)
    BY <1>6, <2>1 DEF Publish, OrderInv, TypeInv, TypeOK
  <2>3. Told(r)'
    BY <1>11 DEF Told
  <2>4. \A i \in DOMAIN out : Told(out[i]) \/ Told(out[i])'
    BY <2>1, <2>3
  <2> QED
    BY <1>11, <2>2, <2>4, MsgsAppend DEF OrderInv, MsgsInv
<1>13. DoneMeansAllDone'
  BY <1>10 DEF OrderInv, DoneMeansAllDone
<1> QED
  BY <1>2, <1>7, <1>9, <1>11, <1>12, <1>13 DEF OrderInv

-----------------------------------------------------------------------------
(* The theorems.                                                           *)

LEMMA InitOrder == ASSUME Init PROVE OrderInv
<1>1. TypeInv
  BY InitType
<1>2. /\ \A s \in Step : step[s] = "pending" /\ link[s] = IF action = "create" THEN 0 ELSE 1
      /\ \A s \in Step, n \in Numbers : row[<<s, n>>] = IF action = "destroy" /\ n = 1
                                                        THEN At("done", "provisioned") ELSE Absent
  BY DEF Init, Res
<1>3. \A s \in Step : LoadedRow(s) = Start
  BY <1>1, <1>2, BoundsAssumption DEF LoadedRow, Start, Numbers, TypeInv, GraphOK
<1>4. RowsInv
  <2> SUFFICES ASSUME NEW s \in Step
               PROVE  /\ link[s] # 0 => link[s] = 1 /\ row[<<s, 1>>] # Absent
                      /\ \A n \in Numbers : n # link[s] => row[<<s, n>>] = Absent
    BY <1>3 DEF RowsInv
  <2>1. 1 \in Numbers /\ 0 \notin Numbers /\ At("done", "provisioned") # Absent
    BY BoundsAssumption DEF Numbers, At, Absent
  <2> QED
    BY <1>1, <1>2, <2>1 DEF TypeInv, GraphOK
<1>5. TasksInv
  <2>1. \A r \in Res : row[r] \in {At("done", "provisioned"), Absent}
    BY DEF Init
  <2> QED
    BY <2>1 DEF Init, TasksInv, At, Absent
<1>6. StepsInv
  BY <1>2, <1>3 DEF StepsInv, Fits
<1> QED
  BY <1>1, <1>4, <1>5, <1>6 DEF OrderInv, MsgsInv, WorkerInv, DoneMeansAllDone, Init

\* One step of the workflow, of the invariant and of a row.
LEMMA NextOrder ==
    ASSUME CascadesAccepted, OrderInv, HandlersApart, HandlersApart', Next, TypeInv'
    PROVE  OrderInv' /\ (Promise!Next \/ UNCHANGED row)
<1>0. \A w \in Worker : Receive(w) \/ Handle(w) \/ Crash(w) => Alone(w) /\ Alone(w)'
  BY OnesAtWork DEF OrderInv
<1>1. ASSUME NEW w \in Worker, Receive(w) \/ Enter(w) \/ Conclude(w) \/ Finish(w) \/ Crash(w)
      PROVE  OrderInv' /\ UNCHANGED row
  <2>1. UNCHANGED row
    BY <1>1 DEF Receive, Enter, Conclude, Finish, Crash, rows
  <2> QED
    BY <1>0, <1>1, <2>1, ReceiveOrder, EnterOrder, ConcludeOrder, FinishOrder, CrashOrder
    DEF Handle
<1>2. ASSUME NEW w \in Worker, NEW s \in Step, Claim(w, s) \/ Follow(w, s) \/ Raise(w, s)
      PROVE  OrderInv' /\ UNCHANGED row
  <2>1. UNCHANGED row
    BY <1>2 DEF Claim, Follow, Raise
  <2> QED
    BY <1>0, <1>2, <2>1, ClaimOrder, FollowOrder, RaiseOrder DEF Handle
<1>3. ASSUME NEW w \in Worker, NEW s \in Step, Ask(w, s) PROVE OrderInv' /\ Promise!Next
  <2>1. OrderInv'
    BY <1>0, <1>3, AskOrder DEF Handle
  <2>2. PICK call \in {"approve", "execute"} :
            /\ <<s, 1>> \in Res /\ row[<<s, 1>>] \in Row
            /\ call = "approve" => row[<<s, 1>>].status = "approval_pending"
            /\ call = "execute" => CanBeExecuted(row[<<s, 1>>])
            /\ row' = [row EXCEPT ![<<s, 1>>] = Effect(row[<<s, 1>>], call)]
    BY <1>0, <1>3, AskOrder DEF Handle
  <2>3. CASE call = "approve"
    <3>1. Promise!Approve(<<s, 1>>)
      BY <2>2, <2>3 DEF Promise!Approve, Promise!Becomes, Promise!ApproveEntity, Promise!At,
         Effect, ApproveEntity, At
    <3> QED
      BY <2>1, <2>2, <3>1 DEF Promise!Next
  <2>4. CASE call = "execute"
    <3>1. Promise!Execute(<<s, 1>>)
      BY <2>2, <2>4 DEF Promise!Execute, Promise!Becomes, Promise!ExecuteEntity, Promise!At,
         Promise!CanBeExecuted, CanBeExecuted, Effect, ExecuteEntity, At
    <3> QED
      BY <2>1, <2>2, <3>1 DEF Promise!Next
  <2> QED
    BY <2>2, <2>3, <2>4
<1>4. ASSUME NEW w \in Worker, Order(w) PROVE OrderInv' /\ Promise!Next
  <2>1. OrderInv'
    BY <1>0, <1>4, OrderOrder DEF Handle
  <2>2. PICK s \in Step :
            /\ <<s, 1>> \in Res /\ row[<<s, 1>>] = At("done", "provisioned")
            /\ row' = [row EXCEPT ![<<s, 1>>] = DestroyEntity(row[<<s, 1>>], gated)]
    BY <1>0, <1>4, OrderOrder DEF Handle
  <2>3. gated \in BOOLEAN
    BY InstanceAssumption DEF OrderInv, TypeInv, TypeOK
  <2>4. Promise!Destroy(<<s, 1>>)
    <3>1. Promise!Settled(<<s, 1>>) /\ Promise!CanBeDestroyed(row[<<s, 1>>])
      BY <2>2 DEF Promise!Settled, Promise!CanBeDestroyed, At
    <3>2. Promise!Becomes(<<s, 1>>, Promise!DestroyEntity(row[<<s, 1>>], gated))
      BY <2>2 DEF Promise!Becomes, Promise!DestroyEntity, Promise!Gate, Promise!At,
         DestroyEntity, Gate, At
    <3> QED
      BY <2>3, <3>1, <3>2 DEF Promise!Destroy
  <2> QED
    BY <2>1, <2>2, <2>4 DEF Promise!Next
<1>5. ASSUME NEW w \in Worker, Create(w) PROVE OrderInv' /\ Promise!Next
  <2>1. OrderInv'
    BY <1>0, <1>5, CreateOrder DEF Handle
  <2>2. PICK s \in Step :
            /\ <<s, 1>> \in Res /\ row[<<s, 1>>] = Absent
            /\ row' = [row EXCEPT ![<<s, 1>>] = At(Gate(gated), "provision")]
    BY <1>0, <1>5, CreateOrder DEF Handle
  <2>3. gated \in BOOLEAN
    BY InstanceAssumption DEF OrderInv, TypeInv, TypeOK
  <2>4. Promise!Create(<<s, 1>>)
    BY <2>2, <2>3 DEF Promise!Create, Promise!Absent, Promise!Becomes, Promise!Gate,
       Promise!At, Gate, At, Absent
  <2> QED
    BY <2>1, <2>2, <2>4 DEF Promise!Next
<1>6. ASSUME NEW r \in Res, StartTask(r) PROVE OrderInv' /\ Promise!Next
  <2>1. OrderInv' /\ row[r].status = "queued"
        /\ row' = [row EXCEPT ![r] = MakeInProgress(row[r])]
    BY <1>6, StartTaskOrder
  <2>2. Promise!Start(r)
    BY <2>1 DEF Promise!Start, Promise!Becomes, Promise!MakeInProgress, Promise!Runnable,
       Promise!At, MakeInProgress, Runnable, At
  <2> QED
    BY <2>1, <2>2 DEF Promise!Next
<1>7. ASSUME NEW r \in Res, EndTask(r) PROVE OrderInv' /\ Promise!Next
  <2>1. OrderInv' /\ row[r].status = "in_progress"
        /\ \/ row' = [row EXCEPT ![r] = MakeDone(row[r])]
           \/ row' = [row EXCEPT ![r] = MakeFailed(row[r])]
    BY <1>7, EndTaskOrder
  <2>2. Promise!Finish(r) \/ Promise!Fail(r)
    BY <2>1 DEF Promise!Finish, Promise!Fail, Promise!Becomes, Promise!MakeDone,
       Promise!MakeFailed, Promise!At, MakeDone, MakeFailed, At
  <2> QED
    BY <2>1, <2>2 DEF Promise!Next
<1>8. ASSUME Execute PROVE OrderInv' /\ UNCHANGED row
  BY <1>8, ExecuteOrder DEF Execute, rows
<1> QED
  BY <1>1, <1>2, <1>3, <1>4, <1>5, <1>6, <1>7, <1>8 DEF Next, Handle, Tasks

LEMMA StutterOrder ==
    ASSUME OrderInv, UNCHANGED vars PROVE OrderInv'
<1>1. UNCHANGED <<action, gated, needs, wf, step, link, row, task, run, msgs, worker,
                  starts, faults, unwired, dropped>>
  BY DEF vars
<1>2. TypeInv'
  BY <1>1 DEF OrderInv, TypeInv, TypeOK, GraphOK, ViewsKnown, TasksKnown
<1>3. RowsInv' /\ TasksInv' /\ StepsInv' /\ Onwards
  BY <1>1, QuietStep
<1>4. MsgsInv' /\ WorkerInv' /\ DoneMeansAllDone'
  BY <1>1 DEF OrderInv, MsgsInv, WorkerInv, DoneMeansAllDone, Told, WorkerOK, Holds, Sees,
     SeesRow, LoadedRow, Start, Goal, Aim, Waited, Before, AllDone
<1> QED
  BY <1>2, <1>3, <1>4 DEF OrderInv

LEMMA OrderHolds == ASSUME CascadesAccepted PROVE Spec /\ []HandlersApart => []OrderInv
<1>1. Init => OrderInv
  BY InitOrder
<1>2. OrderInv /\ HandlersApart /\ HandlersApart' /\ [Next]_vars => OrderInv'
  <2> SUFFICES ASSUME OrderInv, HandlersApart, HandlersApart', [Next]_vars PROVE OrderInv'
    OBVIOUS
  <2>1. TypeInv'
    BY TypeStep DEF OrderInv
  <2> QED
    BY <2>1, NextOrder, StutterOrder
<1> QED
  BY <1>1, <1>2, PTL DEF Spec

\* A step that says DONE has a resource that is provisioned, or destroyed: what the
\* worker copies from a row it remembers is never ahead of the row.
THEOREM DoneIsTrue == ASSUME CascadesAccepted PROVE Spec /\ []HandlersApart => []DoneStepIsDone
<1>1. OrderInv => DoneStepIsDone
  BY DEF OrderInv, StepsInv, Fits, Goal, DoneStepIsDone
<1> QED
  BY <1>1, OrderHolds, PTL

\* A workflow ends DONE only with all its steps, and no step changes afterwards
\* without the workflow saying that it is IN_PROGRESS again.
THEOREM FinishedIsComplete == ASSUME CascadesAccepted PROVE Spec /\ []HandlersApart => []DoneMeansAllDone
<1>1. OrderInv => DoneMeansAllDone
  BY DEF OrderInv
<1> QED
  BY <1>1, OrderHolds, PTL

\* No resource task is sent or executed before the tasks of all that its resource
\* depends on, or that depends on it, have done what they were for.
THEOREM LevelsAreOrdered == ASSUME CascadesAccepted PROVE Spec /\ []HandlersApart => []LevelsInOrder
<1>1. OrderInv => LevelsInOrder
  <2> SUFFICES ASSUME OrderInv, NEW r \in Res, task[r] + run[r] > 0 PROVE Ready(r)
    BY DEF LevelsInOrder
  <2>1. row[r].status \in Under
    BY DEF OrderInv, TasksInv, Under
  <2>2. r[1] \in Step /\ row[r] = LoadedRow(r[1])
    BY <2>1, RowUnder DEF OrderInv
  <2>3. LoadedRow(r[1]) # Start
    BY <2>1, <2>2, Kinds DEF OrderInv, TypeInv
  <2>4. \A d \in Before(r[1]) : LoadedRow(d) = Goal
    BY <2>2, <2>3 DEF OrderInv, StepsInv
  <2> QED
    BY <2>4 DEF Ready, Before, Goal, OrderInv, TypeInv, GraphOK
<1> QED
  BY <1>1, OrderHolds, PTL

\* However often its messages are redelivered and its creation is refused and
\* tried again, a step creates one resource.
THEOREM OneResource == ASSUME CascadesAccepted PROVE Spec /\ []HandlersApart => []OneResourcePerStep
<1>1. OrderInv => OneResourcePerStep
  <2> SUFFICES ASSUME OrderInv, NEW s \in Step, NEW n \in Numbers, row[<<s, n>>] # Absent
               PROVE  n = 1
    BY DEF OneResourcePerStep
  <2>1. n = link[s]
    BY DEF OrderInv, RowsInv
  <2>2. n # 0
    BY BoundsAssumption DEF Numbers
  <2> QED
    BY <2>1, <2>2 DEF OrderInv, RowsInv
<1> QED
  BY <1>1, OrderHolds, PTL

\* A workflow never queues a task for a resource that has one, or is being executed.
THEOREM TasksExclude == ASSUME CascadesAccepted PROVE Spec /\ []HandlersApart => []ExclusiveTasks
<1>1. OrderInv => ExclusiveTasks
  <2> SUFFICES ASSUME OrderInv, NEW r \in Res PROVE task[r] + run[r] <= 1
    BY DEF ExclusiveTasks
  <2>1. /\ task[r] = IF row[r].status = "queued" THEN 1 ELSE 0
        /\ run[r] = IF row[r].status = "in_progress" THEN 1 ELSE 0
    BY DEF OrderInv, TasksInv
  <2> QED
    BY <2>1
<1> QED
  BY <1>1, OrderHolds, PTL

\* Refinement, step by step: what workers and resource tasks write to a row, however
\* old what they remember of it, is a legal transition of that row as it is.
THEOREM PromiseKept == ASSUME CascadesAccepted PROVE Spec /\ []HandlersApart => RowsKeepPromise
<1>1. OrderInv /\ OrderInv' /\ HandlersApart /\ HandlersApart' /\ [Next]_vars
        => [Promise!Next]_row
  <2> SUFFICES ASSUME OrderInv, OrderInv', HandlersApart, HandlersApart', [Next]_vars
               PROVE  [Promise!Next]_row
    OBVIOUS
  <2>1. CASE Next
    BY <2>1, NextOrder DEF OrderInv
  <2>2. CASE UNCHANGED vars
    BY <2>2 DEF vars
  <2> QED
    BY <2>1, <2>2
<1> QED
  BY <1>1, OrderHolds, PTL DEF Spec, RowsKeepPromise

-----------------------------------------------------------------------------
(* A workflow does not stall: each step whose turn it is has something that *)
(* will come back to it.                                                   *)

\* A cascade waits for approval: the resource of a step that does not is READY,
\* and nothing executes it.
CascadesGated == "destroy" \in Actions => FALSE \notin Approvals

Waiting == {"approval_pending", "ready"}

\* A message about s, or about nothing that is not DONE, makes a worker that
\* handles it come to s, if it is the turn of s.
Speaks(m, s) == \A p \in Target(m) : p = s \/ step[p] = "done"

\* The worker will come to s, or send a message that makes one do so.
AskedBy(k, s) ==
    /\ k # Idle
    /\ \/ \E i \in DOMAIN k.out : k.out[i] = <<s>>
       \/ k.pc = "enter" /\ Speaks(k.msg, s)
       \/ k.pc \in {"steps", "claimed"} /\ s \in k.todo

Spoken(s) == \E i \in DOMAIN msgs : Speaks(msgs[i], s)
Asked(s) == Spoken(s) \/ \E w \in Worker : AskedBy(worker[w], s)

\* The task of the resource of s will end with a callback, or has.
Announced(s) == \E i \in DOMAIN msgs : s \in Target(msgs[i])

CalledBy(k, s) ==
    /\ k # Idle
    /\ \/ k.pc = "claimed" /\ k.cur = s
       \/ k.pc = "enter" /\ s \in k.target
       \/ k.pc = "steps" /\ k.level = k.target /\ s \in k.todo

Called(s) == \/ LoadedRow(s).status \in Under
             \/ Announced(s)
             \/ \E w \in Worker : CalledBy(worker[w], s)

\* What the status of a step says of its resource.
Agrees(status, r) ==
    /\ status \in Waiting => r.status \in {"ready", status}
    /\ status \in Under => r = Start \/ r.status \in Under \cup {"done", "error"}
    /\ status = "error" => r = Start \/ r.status \in {"error", "ready"}

\* Everything of a lower position than s is DONE.
LowerDone(v, s) == \A t \in Step : Position(t) < Position(s) => v[t] = "done"

Begun(v) == \A s \in Step : v[s] # "rejected" /\ (v[s] # "pending" => LowerDone(v, s))

\* It is the turn of some step.
Going(v) == \E s \in Step : v[s] \in Waiting \cup Under

\* Whose turn it is has somebody to come back to it.
Turn(s) ==
    /\ Agrees(step[s], LoadedRow(s))
    /\ step[s] \in Waiting => Asked(s)
    /\ step[s] \in Under => Called(s)

\* A level is begun when those below are DONE, and left with all of it DONE, a
\* refusal, or a step whose turn it is.
OnLevel(k, v) ==
    /\ \A s \in k.level : LowerDone(v, s)
    /\ k.level # k.target => \A p \in k.target : v[p] = "done"
    /\ ~k.bad => \A s \in k.level \ k.todo : v[s] \notin {"pending", "error"}

\* What the session remembers of a task that has ended was announced.
Heard(k) == \A s \in Step : k.view.row[s].status \in Under =>
                                LoadedRow(s).status \in Under \/ Announced(s)

Goes(k) ==
    /\ k.target = Target(k.msg)
    /\ Heard(k)
    /\ \A s \in Step : (\E i \in DOMAIN k.out : k.out[i] = <<s>>) => Speaks(k.msg, s)
    /\ k.pc \in {"steps", "claimed"} => OnLevel(k, step)
    /\ k.pc = "claimed" => k.cur \in k.todo
    /\ k.pc = "end" /\ wf = "in_progress" => Going(step)

AllGo == \A w \in Worker : worker[w] # Idle => Goes(worker[w])

Driven ==
    wf = "in_progress" /\ (\A w \in Worker : worker[w] = Idle) => msgs # << >> \/ Going(step)

Pursued == Begun(step) /\ (\A s \in Step : Turn(s)) /\ AllGo /\ Driven

StallInv == dropped = {} => Pursued

-----------------------------------------------------------------------------
(* Launching and leaving a level.                                          *)

\* The lowest level with something to do, and nothing below it.
LEMMA LaunchLevel ==
    ASSUME GraphOK, NEW k \in Busy, NEW v, v = k.view.step, NEW c, c = Launch(k)
    PROVE  /\ c.pc = "steps" => c.todo = c.level /\ \A s \in c.level : LowerDone(v, s)
           /\ \A s \in Step : v[s] \notin {"done", "in_progress"} /\ LowerDone(v, s) =>
                                  c.pc = "steps" /\ s \in c.todo
<1>1. CASE AllDone(k, Step)
  <2>1. c.pc = "complete"
    BY <1>1 DEF Launch, Busy
  <2> QED
    BY <1>1, <2>1 DEF AllDone
<1>2. CASE ~AllDone(k, Step)
  <2> DEFINE open == {t \in Step : v[t] # "done"}
             S == {Position(s) : s \in open}
             level == {s \in Step : Position(s) = Min(S)}
  <2>1. S \in SUBSET Nat /\ S # {}
    BY <1>2, PositionOrder DEF AllDone
  <2>2. Min(S) \in S /\ \A x \in S : Min(S) <= x
    <3> HIDE DEF S
    <3> QED
      BY <2>1, LeastNatural
  <2>3. c = IF \A s \in level : v[s] \in {"done", "in_progress"}
            THEN [k EXCEPT !.pc = "end"]
            ELSE [k EXCEPT !.pc = "steps", !.level = level, !.todo = level]
    BY <1>2 DEF Launch
  <2>4. \A s \in level : LowerDone(v, s)
    <3> SUFFICES ASSUME NEW s \in level, NEW t \in Step, Position(t) < Position(s), v[t] # "done"
                 PROVE  FALSE
      BY DEF LowerDone
    <3>1. Position(t) \in Nat /\ Position(s) \in Nat /\ Position(t) \in S /\ Position(s) = Min(S)
      BY PositionOrder
    <3> HIDE DEF S
    <3>2. Min(S) <= Position(t)
      BY <2>2, <3>1
    <3> QED
      BY <3>1, <3>2
  <2>5. ASSUME NEW s \in Step, v[s] \notin {"done", "in_progress"}, LowerDone(v, s)
        PROVE  s \in level
    <3>1. PICK t \in open : Min(S) = Position(t)
      BY <2>2
    <3>2. Position(t) \in Nat /\ Position(s) \in Nat /\ Position(s) \in S
      BY <2>5, PositionOrder
    <3>3. Min(S) <= Position(s)
      <4> HIDE DEF S
      <4> QED
        BY <2>2, <3>2
    <3>4. ~(Position(t) < Position(s))
      BY <2>5 DEF LowerDone
    <3>5. Position(s) = Min(S)
      BY <3>1, <3>2, <3>3, <3>4
    <3> QED
      BY <3>5
  <2>6. level \subseteq Step
    OBVIOUS
  <2> HIDE DEF level, S, open
  <2>7. CASE \A s \in level : v[s] \in {"done", "in_progress"}
    <3>1. c.pc = "end"
      BY <2>3, <2>7 DEF Busy
    <3> QED
      BY <2>5, <2>7, <3>1
  <2>8. CASE \E s \in level : v[s] \notin {"done", "in_progress"}
    <3>1. c.pc = "steps" /\ c.level = level /\ c.todo = level
      BY <2>3, <2>8 DEF Busy
    <3> QED
      BY <2>4, <2>5, <3>1
  <2> QED
    BY <2>7, <2>8
<1> QED
  BY <1>1, <1>2

\* A new level leaves out nothing whose turn it is.
LEMMA LaunchGoes ==
    ASSUME GraphOK, NEW k \in Busy, NEW v, v = k.view.step, Begun(v),
           \A p \in k.target : v[p] = "done", NEW c, c = Launch(k)
    PROVE  /\ Keeps(c, k) /\ c.pc \notin {"enter", "claimed"}
           /\ c.pc = "steps" => OnLevel(c, v)
           /\ c.pc = "end" => Going(v)
           /\ \A s \in Step : v[s] \in Waiting => c.pc = "steps" /\ s \in c.todo
<1>1. /\ Keeps(c, k)
      /\ \/ c.pc = "complete"
         \/ c.pc = "end" /\ \E s \in Step : v[s] = "in_progress"
         \/ c.pc = "steps"
  BY LaunchResult
<1>2. c.pc = "steps" => OnLevel(c, v)
  BY <1>1, LaunchLevel DEF OnLevel, Keeps
<1>3. c.pc = "end" => Going(v)
  BY <1>1 DEF Going, Under
<1>4. \A s \in Step : v[s] \in Waiting => c.pc = "steps" /\ s \in c.todo
  BY LaunchLevel DEF Begun, Waiting
<1> QED
  BY <1>1, <1>2, <1>3, <1>4

\* After a step of a level the rest of it is handled, or nothing is left of it
\* that waits for this worker.
LEMMA ContinueGoes ==
    ASSUME GraphOK, NEW k \in Busy, NEW v, v = k.view.step, Begun(v), OnLevel(k, v),
           k.todo \subseteq k.level, NEW c, c = Continue(k)
    PROVE  /\ Keeps(c, k) /\ c.pc \notin {"enter", "claimed"}
           /\ c.pc = "steps" => OnLevel(c, v)
           /\ c.pc = "end" => Going(v)
           /\ \A s \in k.todo : v[s] \in Waiting => c.pc = "steps" /\ s \in c.todo
<1>1. Keeps(c, k) /\ k.level \subseteq Step /\ v \in [Step -> StepStatus]
  BY ContinueResult DEF Busy, View
<1>2. \A s \in k.todo : v[s] \in Waiting => s \in Remaining(k)
  BY DEF Remaining, Waiting
<1>3. CASE Remaining(k) # {}
  <2>1. c = [k EXCEPT !.pc = "steps"]
    BY <1>3 DEF Continue
  <2>2. c.pc = "steps" /\ c.level = k.level /\ c.todo = k.todo /\ c.target = k.target /\ c.bad = k.bad
    BY <2>1 DEF Busy
  <2>3. OnLevel(c, v)
    BY <2>2 DEF OnLevel
  <2> QED
    BY <1>1, <2>2, <2>3
<1>4. CASE Remaining(k) = {} /\ k.bad
  <2>1. c.pc = "fail"
    BY <1>4 DEF Continue, Busy
  <2> QED
    BY <1>1, <1>2, <1>4, <2>1
<1>5. CASE Remaining(k) = {} /\ ~k.bad /\ AllDone(k, k.level)
  <2>1. c = Launch(k)
    BY <1>5 DEF Continue
  <2>2. \A p \in k.target : v[p] = "done"
    BY <1>5 DEF OnLevel, AllDone
  <2> QED
    BY <1>2, <1>5, <2>1, <2>2, LaunchGoes
<1>6. CASE Remaining(k) = {} /\ ~k.bad /\ ~AllDone(k, k.level)
  <2>1. c.pc = "end"
    BY <1>6 DEF Continue, Busy
  <2>2. PICK s \in k.level : v[s] # "done"
    BY <1>6 DEF AllDone
  <2>3. s \in k.todo => v[s] = "in_progress"
    BY <1>6, <2>2 DEF Remaining
  <2>4. s \notin k.todo => v[s] \notin {"pending", "error"}
    BY <1>6, <2>2 DEF OnLevel
  <2>5. v[s] \in StepStatus /\ v[s] # "rejected" /\ s \in Step
    BY <1>1 DEF Begun
  <2>6. v[s] \in Waiting \cup Under
    BY <2>2, <2>3, <2>4, <2>5 DEF StepStatus, ModelStatus, Waiting, Under
  <2> QED
    BY <1>1, <1>2, <1>6, <2>1, <2>5, <2>6 DEF Going
<1> QED
  BY <1>3, <1>4, <1>5, <1>6

-----------------------------------------------------------------------------
(* What lasts.                                                             *)

\* DONE steps stay so, and a resource that has been acted on stays linked.
Lasts ==
    /\ UNCHANGED <<action, needs>>
    /\ \A s \in Step : /\ step[s] = "done" => step'[s] = "done"
                       /\ LoadedRow(s) # Start => link'[s] = link[s]

LEMMA PositionSame ==
    ASSUME UNCHANGED <<action, needs>>
    PROVE  \A s \in Step : Position(s)' = Position(s)
<1>1. Reached' = Reached
  BY Zenon DEF Reached
<1>2. Depth' = Depth
  BY Zenon DEF Depth
<1> QED
  BY <1>1, <1>2 DEF Position, BlueprintPosition, CascadePosition

LEMMA LowerSame ==
    ASSUME UNCHANGED <<action, needs>>, NEW v
    PROVE  /\ \A s \in Step : LowerDone(v, s)' <=> LowerDone(v, s)
           /\ Begun(v)' <=> Begun(v)
           /\ \A k : k.level \subseteq Step => (OnLevel(k, v)' <=> OnLevel(k, v))
<1>1. \A s \in Step : LowerDone(v, s)' <=> LowerDone(v, s)
  BY PositionSame DEF LowerDone
<1>2. Begun(v)' <=> Begun(v)
  BY <1>1 DEF Begun
<1>3. ASSUME NEW k, k.level \subseteq Step PROVE OnLevel(k, v)' <=> OnLevel(k, v)
  BY <1>1, <1>3 DEF OnLevel
<1> QED
  BY <1>1, <1>2, <1>3

LEMMA LowerLasts ==
    ASSUME NEW v, NEW u, \A t \in Step : v[t] = "done" => u[t] = "done", NEW s
    PROVE  LowerDone(v, s) => LowerDone(u, s)
BY DEF LowerDone

\* What a message is about, and whom it speaks to.
LEMMA TargetLasts ==
    ASSUME Lasts, NEW m \in Message, Told(m)
    PROVE  Target(m)' = Target(m)
<1>1. CASE m = << >>
  BY <1>1 DEF Target
<1>2. CASE m # << >>
  <2>1. m[1] \in Step /\ link'[m[1]] = link[m[1]]
    BY <1>2, MessageStep DEF Told, Lasts
  <2>2. \A s \in Step : m = <<s, link'[s]>> <=> m = <<s, link[s]>>
    BY <2>1
  <2> QED
    BY <1>2, <2>2 DEF Target
<1> QED
  BY <1>1, <1>2

LEMMA SpeaksLasts ==
    ASSUME Lasts, NEW m \in Message, Told(m), NEW s, Speaks(m, s)
    PROVE  Speaks(m, s)'
<1>1. Target(m)' = Target(m) /\ Target(m) \subseteq Step
  BY TargetLasts DEF Target
<1> QED
  BY <1>1 DEF Speaks, Lasts

\* The task of a step speaks to the step.
LEMMA OwnTaskSpeaks == \A s \in Step : Speaks(<<s>>, s) /\ Speaks(<<s>>, s)'
BY DEF Speaks, Target

\* Messages that wait go on waiting.
LEMMA MessagesLast ==
    ASSUME OrderInv, Lasts, NEW out \in Seq(Message), msgs' = msgs \o out
    PROVE  \A s \in Step : /\ Announced(s) => Announced(s)'
                           /\ Spoken(s) => Spoken(s)'
                           /\ (\E i \in DOMAIN out : out[i] = <<s>>) => Spoken(s)'
<1>1. msgs \in Seq(Message) /\ \A i \in DOMAIN msgs : Told(msgs[i])
  BY DEF OrderInv, TypeInv, TypeOK, MsgsInv
<1>2. /\ \A i \in DOMAIN msgs : i \in DOMAIN msgs' /\ msgs'[i] = msgs[i]
      /\ \A i \in DOMAIN out : Len(msgs) + i \in DOMAIN msgs' /\ msgs'[Len(msgs) + i] = out[i]
  BY <1>1
<1> SUFFICES ASSUME NEW s \in Step
             PROVE  /\ Announced(s) => Announced(s)'
                    /\ Spoken(s) => Spoken(s)'
                    /\ (\E i \in DOMAIN out : out[i] = <<s>>) => Spoken(s)'
  OBVIOUS
<1>3. ASSUME Announced(s) PROVE Announced(s)'
  <2>1. PICK i \in DOMAIN msgs : s \in Target(msgs[i])
    BY <1>3 DEF Announced
  <2>2. PICK m \in Message : m = msgs[i] /\ Told(m)
    BY <1>1, <2>1
  <2>3. s \in Target(m)'
    BY <2>1, <2>2, TargetLasts
  <2>4. msgs'[i] = m /\ i \in DOMAIN msgs'
    BY <1>2, <2>1, <2>2
  <2> QED
    BY <2>3, <2>4 DEF Announced
<1>4. ASSUME Spoken(s) PROVE Spoken(s)'
  <2>1. PICK i \in DOMAIN msgs : Speaks(msgs[i], s)
    BY <1>4 DEF Spoken
  <2>2. PICK m \in Message : m = msgs[i] /\ Told(m)
    BY <1>1, <2>1
  <2>3. Speaks(m, s)'
    BY <2>1, <2>2, SpeaksLasts
  <2>4. msgs'[i] = m /\ i \in DOMAIN msgs'
    BY <1>2, <2>1, <2>2
  <2> QED
    BY <2>3, <2>4 DEF Spoken
<1>5. ASSUME NEW i \in DOMAIN out, out[i] = <<s>> PROVE Spoken(s)'
  <2>1. PICK j : j = Len(msgs) + i /\ j \in DOMAIN msgs' /\ msgs'[j] = <<s>>
    BY <1>2, <1>5
  <2>2. Speaks(<<s>>, s)'
    BY OwnTaskSpeaks
  <2> QED
    BY <2>1, <2>2 DEF Spoken
<1> QED
  BY <1>3, <1>4, <1>5

-----------------------------------------------------------------------------
(* A step is handled.                                                      *)

\* The one that handles a message is all there is: who comes to a step.
LEMMA OneAsks ==
    ASSUME NEW w \in Worker, Alone(w), Alone(w)', NEW k, k = worker[w]
    PROVE  \A s : /\ Asked(s) <=> Spoken(s) \/ AskedBy(k, s)
                  /\ Called(s) <=> LoadedRow(s).status \in Under \/ Announced(s) \/ CalledBy(k, s)
BY DEF Alone, Asked, Called, AskedBy, CalledBy

LEMMA OneAsksNext ==
    ASSUME NEW w \in Worker, Alone(w), Alone(w)', worker' \in [Worker -> {Idle} \cup Busy], NEW c, c = worker'[w]
    PROVE  \A s : /\ Asked(s)' <=> Spoken(s)' \/ AskedBy(c, s)'
                  /\ Called(s)' <=> LoadedRow(s)'.status \in Under \/ Announced(s)' \/ CalledBy(c, s)'
<1>1. \A v \in Worker : v # w => worker'[v] = Idle
  BY DEF Alone
<1> QED
  BY <1>1 DEF Asked, Called, AskedBy, CalledBy

\* What a worker goes on with after step s.
Moves(k, k0, s, status, out) ==
    /\ k.msg = k0.msg /\ k.target = k0.target /\ k.level = k0.level
    /\ k.todo = k0.todo \ {s} /\ k.out = out /\ k.view.step = step'
    /\ ~k.bad => ~k0.bad /\ status # "error"
    /\ \A t \in Step : k.view.row[t].status \in Under =>
                           LoadedRow(t)'.status \in Under \/ Announced(t)

\* The status of s and its resource change as a handler comes to it.
LEMMA Handled ==
    ASSUME OrderInv, TypeInv', Pursued, NEW w \in Worker, Alone(w), Alone(w)', NEW k0 \in Busy, k0 = worker[w],
           WorkerOK(k0), k0.pc \in {"steps", "claimed"}, Lasts, UNCHANGED wf,
           msgs' = msgs \o k0.out, NEW s \in k0.level, k0.pc = "claimed" => s = k0.cur,
           NEW status, Puts(step', step, s, status),
           status \in {"done", "error"} \cup Waiting \cup Under,
           Agrees(status, LoadedRow(s)'),
           \A t \in Step \ {s} : LoadedRow(t)' = LoadedRow(t),
           status \in Under => LoadedRow(s)'.status \in Under \/ Announced(s),
           NEW k \in Busy, NEW out \in {<< >>, << <<s>> >>}, Moves(k, k0, s, status, out),
           status \in Waiting => out = << <<s>> >>,
           NEW c, c = Continue(k), Puts(worker', worker, w, c)
    PROVE  Pursued'
<1>0. /\ k.msg = k0.msg /\ k.target = k0.target /\ k.level = k0.level
      /\ k.todo = k0.todo \ {s} /\ k.out = out /\ k.view.step = step'
      /\ ~k.bad => ~k0.bad /\ status # "error"
      /\ \A t \in Step : k.view.row[t].status \in Under =>
                             LoadedRow(t)'.status \in Under \/ Announced(t)
  BY DEF Moves
<1>1. /\ step \in [Step -> StepStatus] /\ s \in Step /\ GraphOK
      /\ k0.out \in Seq(Message) /\ k0.msg \in Message /\ Told(k0.msg)
      /\ k0.todo \subseteq k0.level /\ k0.level \subseteq Step /\ k0.target \subseteq Step
      /\ k0 # Idle
  BY BusyIsNotIdle DEF OrderInv, TypeInv, TypeOK, Busy, WorkerOK, Holds
<1>2. step'[s] = status /\ \A t \in Step \ {s} : step'[t] = step[t]
  BY <1>1 DEF Puts
<1>3. /\ Begun(step) /\ Goes(k0) /\ \A t \in Step : Turn(t)
  BY <1>1 DEF Pursued, AllGo
<1>4. OnLevel(k0, step) /\ k0.target = Target(k0.msg) /\ Heard(k0)
      /\ \A t \in Step : (\E i \in DOMAIN k0.out : k0.out[i] = <<t>>) => Speaks(k0.msg, t)
  BY <1>3 DEF Goes
<1>5. \A t \in Step : step[t] = "done" => step'[t] = "done"
  BY DEF Lasts
<1>6. \A t \in Step : /\ Announced(t) => Announced(t)'
                      /\ Spoken(t) => Spoken(t)'
                      /\ (\E i \in DOMAIN k0.out : k0.out[i] = <<t>>) => Spoken(t)'
  BY <1>1, MessagesLast
<1>7. PICK v : v = step'
  OBVIOUS
<1>8. \A t \in Step : LowerDone(step, t) => LowerDone(v, t)
  BY <1>5, <1>7 DEF LowerDone
<1>9. Begun(v)
  BY <1>1, <1>2, <1>3, <1>4, <1>7, <1>8 DEF Begun, OnLevel, Waiting, Under
<1>10. OnLevel(k, v)
  <2>1. \A t \in k.level : LowerDone(v, t)
    BY <1>0, <1>1, <1>4, <1>8 DEF OnLevel
  <2>2. k.level # k.target => \A p \in k.target : v[p] = "done"
    BY <1>0, <1>1, <1>4, <1>5, <1>7 DEF OnLevel
  <2>3. ~k.bad => \A t \in k.level \ k.todo : v[t] \notin {"pending", "error"}
    BY <1>0, <1>1, <1>2, <1>4, <1>7 DEF OnLevel, Waiting, Under
  <2> QED
    BY <2>1, <2>2, <2>3 DEF OnLevel
<1>11. k.todo \subseteq k.level
  BY <1>0, <1>1
<1>12. /\ Keeps(c, k) /\ c.pc \notin {"enter", "claimed"}
       /\ c.pc = "steps" => OnLevel(c, v)
       /\ c.pc = "end" => Going(v)
       /\ \A t \in k.todo : v[t] \in Waiting => c.pc = "steps" /\ t \in c.todo
  BY <1>0, <1>1, <1>7, <1>9, <1>10, <1>11, ContinueGoes
<1>13. c \in Busy /\ c # Idle /\ c.msg = k0.msg /\ c.target = k0.target /\ c.out = k.out
       /\ c.view = k.view /\ c.level \subseteq Step
  BY <1>0, <1>12, BusyIsNotIdle DEF Keeps, Busy
<1>14. worker' \in [Worker -> {Idle} \cup Busy] /\ worker'[w] = c
  BY <1>13 DEF Puts, OrderInv, TypeInv, TypeOK
<1>15. Begun(step)'
  BY <1>7, <1>9, LowerSame DEF Lasts
<1>16. ASSUME NEW t \in Step PROVE Turn(t)'
  <2>1. Start' = Start
    BY Frame DEF Lasts
  <2>2. CASE t = s
    <3>1. Agrees(step[s], LoadedRow(s))'
      BY <1>2, <2>1 DEF Agrees
    <3>2. ASSUME step'[s] \in Waiting PROVE Asked(s)'
      <4>1. c.out = << <<s>> >>
        BY <1>0, <1>2, <1>13, <3>2
      <4>2. AskedBy(c, s)'
        BY <1>13, <4>1 DEF AskedBy
      <4> QED
        BY <1>14, <4>2, OneAsksNext
    <3>3. ASSUME step'[s] \in Under PROVE Called(s)'
      BY <1>1, <1>2, <1>6, <1>14, <3>3, OneAsksNext
    <3> QED
      BY <2>2, <3>1, <3>2, <3>3 DEF Turn
  <2>3. CASE t # s
    <3>1. step'[t] = step[t] /\ LoadedRow(t)' = LoadedRow(t) /\ Turn(t)
      BY <1>2, <1>3, <2>3
    <3>2. Agrees(step[t], LoadedRow(t))'
      BY <2>1, <3>1 DEF Agrees, Turn
    <3>3. ASSUME step[t] \in Waiting PROVE Asked(t)'
      <4>1. Spoken(t) \/ AskedBy(k0, t)
        BY <3>1, <3>3, OneAsks DEF Turn
      <4>2. CASE Spoken(t)
        BY <1>6, <1>14, <4>2, OneAsksNext
      <4>3. CASE \E i \in DOMAIN k0.out : k0.out[i] = <<t>>
        BY <1>6, <1>14, <4>3, OneAsksNext
      <4>4. CASE t \in k0.todo
        <5>1. c.pc = "steps" /\ t \in c.todo
          BY <1>0, <1>7, <1>12, <2>3, <3>1, <3>3, <4>4
        <5>2. AskedBy(c, t)'
          BY <1>13, <5>1 DEF AskedBy
        <5> QED
          BY <1>14, <5>2, OneAsksNext
      <4> QED
        BY <4>1, <4>2, <4>3, <4>4 DEF AskedBy
    <3>4. ASSUME step[t] \in Under PROVE Called(t)'
      <4>1. LoadedRow(t).status \in Under \/ Announced(t) \/ CalledBy(k0, t)
        BY <3>1, <3>4, OneAsks DEF Turn
      <4>2. ~CalledBy(k0, t)
        BY <1>1, <2>3 DEF CalledBy, WorkerOK, Holds
      <4> QED
        BY <1>6, <1>14, <3>1, <4>1, <4>2, OneAsksNext
    <3> QED
      BY <3>1, <3>2, <3>3, <3>4 DEF Turn
  <2> QED
    BY <2>2, <2>3
<1>17. Goes(c)'
  <2>1. c.target = Target(c.msg)'
    BY <1>1, <1>4, <1>13, TargetLasts
  <2>2. Heard(c)'
    BY <1>0, <1>6, <1>13 DEF Heard
  <2>3. ASSUME NEW t \in Step, NEW i \in DOMAIN c.out, c.out[i] = <<t>>
        PROVE  Speaks(c.msg, t)'
    <3>1. t = s
      BY <1>0, <1>13, <2>3
    <3>2. \A p \in k0.target : p = s \/ v[p] = "done"
      <4>1. CASE k0.level # k0.target
        BY <1>1, <1>4, <1>5, <1>7, <4>1 DEF OnLevel
      <4>2. CASE k0.level = k0.target
        BY <4>2 DEF WorkerOK, Holds
      <4> QED
        BY <4>1, <4>2
    <3> QED
      BY <1>7, <1>13, <2>1, <3>1, <3>2 DEF Speaks
  <2>4. c.pc \in {"steps", "claimed"} => OnLevel(c, step)'
    BY <1>7, <1>12, <1>13, LowerSame DEF Lasts
  <2>5. c.pc = "end" => Going(step)'
    BY <1>7, <1>12 DEF Going
  <2> QED
    BY <1>12, <2>1, <2>2, <2>3, <2>4, <2>5 DEF Goes
<1>18. AllGo'
  <2> SUFFICES ASSUME NEW x \in Worker, worker'[x] # Idle PROVE Goes(worker[x])'
    BY DEF AllGo
  <2>1. x = w
    BY DEF Alone
  <2> QED
    BY <1>14, <1>17, <2>1
<1>19. Driven'
  BY <1>13, <1>14 DEF Driven
<1> QED
  BY <1>15, <1>16, <1>18, <1>19 DEF Pursued

-----------------------------------------------------------------------------
(* Steps that leave the status of every step alone.                        *)

\* Workers hold what they held: a task starts or ends, or a user sends a start.
LEMMA Elsewhere ==
    ASSUME OrderInv, Pursued, UNCHANGED <<action, needs, wf, step, link, worker>>,
           NEW out \in Seq(Message), msgs' = msgs \o out,
           \A s \in Step :
               \/ LoadedRow(s)' = LoadedRow(s)
               \/ /\ LoadedRow(s).status \in Under
                  /\ LoadedRow(s)'.status \in Under \cup {"done", "error"}
                  /\ LoadedRow(s)'.status \in Under \/ Announced(s)'
    PROVE  Pursued'
<1>1. Lasts
  BY DEF Lasts
<1>2. \A s \in Step : (Announced(s) => Announced(s)') /\ (Spoken(s) => Spoken(s)')
  BY <1>1, MessagesLast
<1>3. Begun(step)'
  BY LowerSame DEF Pursued
<1>4. \A s \in Step : LoadedRow(s).status \in Under => LoadedRow(s)'.status \in Under \/ Announced(s)'
  BY <1>2
<1>5. ASSUME NEW s \in Step PROVE Turn(s)'
  <2>1. Start' = Start /\ Start.status \notin Under
    BY Frame, Kinds DEF OrderInv, TypeInv
  <2>2. Turn(s)
    BY DEF Pursued
  <2>3. Agrees(step[s], LoadedRow(s))'
    <3>1. CASE LoadedRow(s)' = LoadedRow(s)
      BY <2>1, <2>2, <3>1 DEF Agrees, Turn
    <3>2. CASE LoadedRow(s).status \in Under /\ LoadedRow(s)'.status \in Under \cup {"done", "error"}
      <4>1. step[s] \notin Waiting /\ step[s] # "error"
        BY <2>1, <2>2, <3>2 DEF Agrees, Turn, Waiting, Under
      <4> QED
        BY <3>2, <4>1 DEF Agrees
    <3> QED
      BY <3>1, <3>2
  <2>4. ASSUME step[s] \in Waiting PROVE Asked(s)'
    <3>1. CASE Spoken(s)
      BY <1>2, <3>1 DEF Asked
    <3>2. CASE \E w \in Worker : AskedBy(worker[w], s)
      <4>1. PICK w \in Worker : AskedBy(worker[w], s)
        BY <3>2
      <4>2. PICK k : k = worker[w] /\ k \in Busy /\ WorkerOK(k)
        BY <4>1, WorkerIsBusy DEF AskedBy, OrderInv, WorkerInv
      <4>3. Speaks(k.msg, s) => Speaks(k.msg, s)'
        BY <1>1, <4>2, SpeaksLasts DEF WorkerOK, Holds, Busy
      <4>4. AskedBy(k, s)'
        BY <4>1, <4>2, <4>3 DEF AskedBy
      <4> QED
        BY <4>2, <4>4 DEF Asked
    <3> QED
      BY <2>2, <2>4, <3>1, <3>2 DEF Turn, Asked
  <2>5. ASSUME step[s] \in Under PROVE Called(s)'
    <3>1. LoadedRow(s).status \in Under \/ Announced(s) \/ \E w \in Worker : CalledBy(worker[w], s)
      BY <2>2, <2>5 DEF Turn, Called
    <3>2. \A w \in Worker : CalledBy(worker[w], s) => CalledBy(worker[w], s)'
      BY DEF CalledBy
    <3> QED
      BY <1>2, <1>4, <3>1, <3>2 DEF Called
  <2> QED
    BY <2>3, <2>4, <2>5 DEF Turn
<1>6. AllGo'
  <2> SUFFICES ASSUME NEW w \in Worker, worker[w] # Idle PROVE Goes(worker[w])'
    BY DEF AllGo
  <2>1. PICK k : k = worker[w] /\ k \in Busy /\ WorkerOK(k) /\ Goes(k)
    BY WorkerIsBusy DEF OrderInv, WorkerInv, Pursued, AllGo
  <2>2. Target(k.msg)' = Target(k.msg) /\ \A s \in Step : Speaks(k.msg, s) => Speaks(k.msg, s)'
    BY <1>1, <2>1, TargetLasts, SpeaksLasts DEF WorkerOK, Holds, Busy
  <2>3. Heard(k)'
    BY <1>2, <1>4, <2>1 DEF Goes, Heard
  <2>4. k.level \subseteq Step
    BY <2>1 DEF Busy
  <2>5. OnLevel(k, step)' <=> OnLevel(k, step)
    BY <2>4, LowerSame
  <2>6. Goes(k)'
    BY <2>1, <2>2, <2>3, <2>5 DEF Goes, Going
  <2> QED
    BY <2>1, <2>6
<1>7. Driven'
  <2>1. msgs # << >> => msgs' # << >>
    BY DEF OrderInv, TypeInv, TypeOK
  <2> QED
    BY <2>1 DEF Pursued, Driven, Going
<1> QED
  BY <1>3, <1>5, <1>6, <1>7 DEF Pursued

LEMMA ExecuteStall == ASSUME OrderInv, Pursued, Execute PROVE Pursued'
<1>1. /\ UNCHANGED <<action, needs, wf, step, link, worker, row>>
      /\ msgs' = msgs \o << <<>> >> /\ << <<>> >> \in Seq(Message)
  BY DEF Execute, Publish, rows, Message
<1>2. \A s \in Step : LoadedRow(s)' = LoadedRow(s)
  BY <1>1, RowsSame
<1> QED
  BY <1>1, <1>2, Elsewhere

LEMMA StutterStall == ASSUME OrderInv, Pursued, UNCHANGED vars PROVE Pursued'
<1>1. /\ UNCHANGED <<action, needs, wf, step, link, worker, row>>
      /\ msgs' = msgs \o << >> /\ << >> \in Seq(Message)
  BY DEF vars, OrderInv, TypeInv, TypeOK
<1>2. \A s \in Step : LoadedRow(s)' = LoadedRow(s)
  BY <1>1, RowsSame
<1> QED
  BY <1>1, <1>2, Elsewhere

\* The task of a resource goes on; what ends it has been announced.
LEMMA StartTaskStall ==
    ASSUME OrderInv, TypeInv', Pursued, NEW r \in Res, StartTask(r) PROVE Pursued'
<1>1. /\ row[r].status = "queued" /\ row' = [row EXCEPT ![r] = MakeInProgress(row[r])]
      /\ UNCHANGED <<action, needs, wf, step, link, worker>>
      /\ msgs' = msgs \o << >> /\ << >> \in Seq(Message)
  <2>1. row[r].status = "queued" /\ row' = [row EXCEPT ![r] = MakeInProgress(row[r])]
    BY StartTaskOrder
  <2>2. UNCHANGED <<action, needs, wf, step, link, worker, msgs>>
    BY DEF StartTask
  <2>3. msgs = msgs \o << >> /\ << >> \in Seq(Message)
    BY DEF OrderInv, TypeInv, TypeOK
  <2> QED
    BY <2>1, <2>2, <2>3
<1>2. r[1] \in Step /\ r = <<r[1], 1>> /\ link[r[1]] = 1 /\ row[r] = LoadedRow(r[1])
  BY <1>1, RowUnder DEF OrderInv, Under
<1>3. MakeInProgress(row[r]).status = "in_progress"
  BY <1>1 DEF MakeInProgress, Runnable, At
<1>4. row'[r] = MakeInProgress(row[r]) /\ \A q \in Res : q # r => row'[q] = row[q]
  BY <1>1 DEF OrderInv, TypeInv, TypeOK
<1>5. ASSUME NEW s \in Step
      PROVE  \/ LoadedRow(s)' = LoadedRow(s)
             \/ LoadedRow(s).status \in Under /\ LoadedRow(s)'.status \in Under
  <2>1. CASE s = r[1]
    <3>1. LoadedRow(s)' = row'[r]
      BY <1>1, <1>2, <2>1 DEF LoadedRow
    <3> QED
      BY <1>1, <1>2, <1>3, <1>4, <2>1, <3>1 DEF Under
  <2>2. CASE s # r[1]
    <3>1. link[s] # 0 => <<s, link[s]>> \in Res /\ <<s, link[s]>> # r
      BY <1>2, <2>2 DEF OrderInv, TypeInv, TypeOK, Res, Numbers
    <3> QED
      BY <1>1, <1>4, <3>1 DEF LoadedRow
  <2> QED
    BY <2>1, <2>2
<1> QED
  BY <1>1, <1>5, Elsewhere

LEMMA EndTaskStall ==
    ASSUME OrderInv, TypeInv', Pursued, dropped' = {}, NEW r \in Res, EndTask(r)
    PROVE  Pursued'
<1>1. /\ row[r].status = "in_progress"
      /\ row' = [row EXCEPT ![r] = MakeDone(row[r])] \/ row' = [row EXCEPT ![r] = MakeFailed(row[r])]
  BY EndTaskOrder
<1>2. /\ UNCHANGED <<action, needs, wf, step, link, worker>>
      /\ msgs' = msgs \o <<r>> /\ <<r>> \in Seq(Message)
  <2>1. PICK kind : /\ Publish(IF kind = "callback" THEN << >> ELSE <<r>>)
                    /\ dropped' = IF kind = "callback" THEN dropped \cup {r[1]} ELSE dropped
    BY DEF EndTask
  <2>2. kind # "callback"
    BY <2>1
  <2>3. r \in Message
    BY DEF Message
  <2>4. UNCHANGED <<action, needs, wf, step, link, worker>>
    BY DEF EndTask
  <2> QED
    BY <2>1, <2>2, <2>3, <2>4 DEF Publish
<1>3. /\ r[1] \in Step /\ r = <<r[1], 1>> /\ link[r[1]] = 1 /\ row[r] = LoadedRow(r[1])
      /\ row[r] = At("in_progress", Aim)
  BY <1>1, RowUnder DEF OrderInv, Under
<1>4. MakeDone(row[r]).status = "done" /\ MakeFailed(row[r]).status = "error"
  BY <1>3 DEF MakeDone, MakeFailed, At, Aim
<1>5. row'[r].status \in {"done", "error"} /\ \A q \in Res : q # r => row'[q] = row[q]
  BY <1>1, <1>4 DEF OrderInv, TypeInv, TypeOK
<1>6. Announced(r[1])'
  <2>1. msgs \in Seq(Message)
    BY DEF OrderInv, TypeInv, TypeOK
  <2>2. Len(msgs) + 1 \in DOMAIN msgs' /\ msgs'[Len(msgs) + 1] = r
    BY <1>2, <2>1
  <2>3. r[1] \in Target(r)'
    <3>1. PICK s \in Step : s = r[1]
      BY <1>3
    <3>2. r = <<s, 1>> /\ link'[s] = 1
      BY <1>2, <1>3, <3>1
    <3>3. r # << >> /\ r = <<s, link'[s]>>
      BY <3>2
    <3>4. s \in Target(r)'
      BY <3>3 DEF Target
    <3> QED
      BY <3>1, <3>4
  <2> QED
    BY <2>2, <2>3 DEF Announced
<1>7. ASSUME NEW s \in Step
      PROVE  \/ LoadedRow(s)' = LoadedRow(s)
             \/ /\ LoadedRow(s).status \in Under
                /\ LoadedRow(s)'.status \in {"done", "error"} /\ Announced(s)'
  <2>1. CASE s = r[1]
    <3>1. LoadedRow(s)' = row'[r]
      BY <1>2, <1>3, <2>1 DEF LoadedRow
    <3> QED
      BY <1>1, <1>3, <1>5, <1>6, <2>1, <3>1 DEF Under
  <2>2. CASE s # r[1]
    <3>1. link[s] # 0 => <<s, link[s]>> \in Res /\ <<s, link[s]>> # r
      BY <1>3, <2>2 DEF OrderInv, TypeInv, TypeOK, Res, Numbers
    <3> QED
      BY <1>2, <1>5, <3>1 DEF LoadedRow
  <2> QED
    BY <2>1, <2>2
<1> QED
  BY <1>2, <1>7, Elsewhere

-----------------------------------------------------------------------------
(* Steps of a worker that touch no resource.                               *)

\* With the status of each step, who comes to it changes hands.
LEMMA HandsOver ==
    ASSUME OrderInv, Pursued, NEW w \in Worker, Alone(w), Alone(w)', NEW k, k = worker[w],
           UNCHANGED <<action, needs, row, link, step>>, NEW c, c = worker'[w],
           worker' \in [Worker -> {Idle} \cup Busy],
           \A s \in Step : Announced(s) => Announced(s)' \/ CalledBy(c, s)',
           \A s \in Step : Spoken(s) => Spoken(s)' \/ AskedBy(c, s)',
           \A s \in Step : step[s] \in Waiting /\ AskedBy(k, s) => Spoken(s)' \/ AskedBy(c, s)',
           \A s \in Step : step[s] \in Under /\ CalledBy(k, s) => Announced(s)' \/ CalledBy(c, s)',
           c # Idle => Goes(c)',
           c = Idle /\ wf' = "in_progress" => msgs' # << >> \/ Going(step)
    PROVE  Pursued'
<1>1. \A s \in Step : LoadedRow(s)' = LoadedRow(s)
  BY RowsSame
<1>2. Begun(step)'
  BY LowerSame DEF Pursued
<1>3. ASSUME NEW s \in Step PROVE Turn(s)'
  <2>1. Turn(s) /\ Start' = Start
    BY Frame DEF Pursued
  <2>2. Agrees(step[s], LoadedRow(s))'
    BY <1>1, <2>1 DEF Agrees, Turn
  <2>3. step[s] \in Waiting => Asked(s)'
    BY <2>1, OneAsks, OneAsksNext DEF Turn
  <2>4. step[s] \in Under => Called(s)'
    BY <1>1, <2>1, OneAsks, OneAsksNext DEF Turn
  <2> QED
    BY <2>2, <2>3, <2>4 DEF Turn
<1>4. AllGo'
  <2> SUFFICES ASSUME NEW x \in Worker, worker'[x] # Idle PROVE Goes(worker[x])'
    BY DEF AllGo
  <2>1. x = w
    BY DEF Alone
  <2> QED
    BY <2>1
<1>5. Driven'
  BY DEF Driven, Going
<1> QED
  BY <1>2, <1>3, <1>4, <1>5 DEF Pursued

LEMMA SameLasts ==
    ASSUME UNCHANGED <<action, needs, link, step>>
    PROVE  /\ Lasts
           /\ \A m : Target(m)' = Target(m)
           /\ \A m, s : Speaks(m, s)' <=> Speaks(m, s)
BY DEF Lasts, Target, Speaks

LEMMA ReceiveStall ==
    ASSUME OrderInv, TypeInv', Pursued, NEW w \in Worker, Alone(w), Alone(w)', Receive(w) PROVE Pursued'
<1>1. /\ UNCHANGED <<action, needs, row, link, step, wf>> /\ worker[w] = Idle
      /\ msgs \in Seq(Message) /\ msgs # << >> /\ msgs' = Tail(msgs)
  BY DEF Receive, OrderInv, TypeInv, TypeOK
<1>2. PICK m : m = Head(msgs) /\ m = msgs[1]
  BY <1>1
<1>3. PICK c : c = worker'[w]
  OBVIOUS
<1>4. /\ c # Idle /\ c.pc = "enter" /\ c.msg = m /\ c.target = Target(m) /\ c.view = Loaded
      /\ c.out = << >>
  BY <1>2, <1>3 DEF Receive, OrderInv, TypeInv, TypeOK, Idle
<1>5. /\ \A n : Target(n)' = Target(n)
      /\ \A n, s : Speaks(n, s)' <=> Speaks(n, s)
  BY <1>1, SameLasts
<1>6. ASSUME NEW i \in DOMAIN msgs, i # 1
      PROVE  i - 1 \in DOMAIN msgs' /\ msgs'[i - 1] = msgs[i]
  BY <1>1, <1>6
<1>7. ASSUME NEW s \in Step, Announced(s) PROVE Announced(s)' \/ CalledBy(c, s)'
  <2>1. PICK i \in DOMAIN msgs : s \in Target(msgs[i])
    BY <1>7 DEF Announced
  <2>2. CASE i = 1
    BY <1>2, <1>4, <2>1, <2>2 DEF CalledBy
  <2>3. CASE i # 1
    BY <1>5, <1>6, <2>1, <2>3 DEF Announced
  <2> QED
    BY <2>2, <2>3
<1>8. ASSUME NEW s \in Step, Spoken(s) PROVE Spoken(s)' \/ AskedBy(c, s)'
  <2>1. PICK i \in DOMAIN msgs : Speaks(msgs[i], s)
    BY <1>8 DEF Spoken
  <2>2. CASE i = 1
    BY <1>2, <1>4, <1>5, <2>1, <2>2 DEF AskedBy
  <2>3. CASE i # 1
    BY <1>5, <1>6, <2>1, <2>3 DEF Spoken
  <2> QED
    BY <2>2, <2>3
<1>9. Goes(c)'
  <2>1. \A s \in Step : c.view.row[s] = LoadedRow(s)' 
    BY <1>1, <1>4, RowsSame DEF Loaded
  <2> QED
    BY <1>4, <1>5, <2>1 DEF Goes, Heard
<1>10. worker' \in [Worker -> {Idle} \cup Busy]
  BY DEF TypeInv, TypeOK
<1> QED
  BY <1>1, <1>3, <1>4, <1>7, <1>8, <1>9, <1>10, HandsOver DEF AskedBy, CalledBy

\* A message sets its worker on the step it is about, or on the level whose turn it is.
LEMMA EnterStall ==
    ASSUME OrderInv, TypeInv', Pursued, dropped' = {}, NEW w \in Worker, Alone(w), Alone(w)', Enter(w)
    PROVE  Pursued'
<1>1. PICK k0 : k0 = worker[w] /\ k0 \in Busy /\ WorkerOK(k0) /\ k0.pc = "enter"
                /\ Goes(k0) /\ k0 # Idle
  BY WorkerIsOK, BusyIsNotIdle DEF Enter, Pursued, AllGo
<1>2. UNCHANGED <<action, needs, row, link, step, msgs>>
  BY DEF Enter, rows
<1>3. PICK k : /\ k = [worker[w] EXCEPT !.view.wf = "in_progress"]
               /\ k \in Busy
  <2>1. [worker[w] EXCEPT !.view.wf = "in_progress"] \in Busy
    BY <1>1 DEF Busy, View, WorkflowStatus
  <2> QED
    BY <2>1
<1>4. /\ k.msg = k0.msg /\ k.target = k0.target /\ k.out = k0.out
      /\ k.view.step = step /\ k.view.row = k0.view.row
      /\ k.target \subseteq Step /\ \A s \in k.target : k.target = {s} /\ LoadedRow(s) # Start
  BY <1>1, <1>3 DEF Busy, View, WorkerOK, Holds, Sees
<1>5. PICK open : open = {s \in k.target : k.view.step[s] # "done"}
  OBVIOUS
<1>6. /\ worker' = [worker EXCEPT ![w] =
                IF open # {}
                THEN [k EXCEPT !.pc = "steps", !.level = open, !.todo = open]
                ELSE IF action = "destroy" /\ k.target # {}
                THEN [k EXCEPT !.pc = "end"]
                ELSE Launch(k)]
      /\ dropped' = IF action = "destroy" /\ open = {} THEN dropped \cup k.target ELSE dropped
  <2>1. worker' = [worker EXCEPT ![w] =
                IF open # {}
                THEN [k EXCEPT !.pc = "steps", !.level = open, !.todo = open]
                ELSE IF action = "destroy" /\ k.target # {}
                THEN [k EXCEPT !.pc = "end"]
                ELSE Launch(k)]
    BY <1>3, <1>5 DEF Enter
  <2>2. dropped' = IF action = "destroy" /\ open = {} THEN dropped \cup k.target ELSE dropped
    BY <1>3, <1>5 DEF Enter
  <2> QED
    BY <2>1, <2>2
<1>7. open = {} => ~(action = "destroy" /\ k.target # {})
  BY <1>6
<1>8. PICK c : /\ worker' = [worker EXCEPT ![w] = c]
               /\ c = IF open # {} THEN [k EXCEPT !.pc = "steps", !.level = open, !.todo = open]
                      ELSE Launch(k)
  BY <1>6, <1>7
<1>9. worker' \in [Worker -> {Idle} \cup Busy] /\ c = worker'[w]
  BY <1>8 DEF TypeInv, TypeOK, OrderInv
<1>10. Begun(step)
  BY DEF Pursued
<1>11. /\ \A n : Target(n)' = Target(n)
       /\ \A n, s : Speaks(n, s)' <=> Speaks(n, s)
  BY <1>2, SameLasts
<1>12. /\ c \in Busy /\ c.msg = k.msg /\ c.target = k.target /\ c.out = k.out /\ c.view = k.view
       /\ c.pc \notin {"enter", "claimed"}
       /\ c.pc = "steps" => OnLevel(c, step)
       /\ c.pc = "end" => Going(step)
       /\ \A s \in Step : step[s] \in Waiting /\ Speaks(k.msg, s) => c.pc = "steps" /\ s \in c.todo
       /\ \A s \in Step : step[s] \in Under /\ s \in k.target => CalledBy(c, s)
  <2>1. k.target = Target(k.msg)
    BY <1>1, <1>4 DEF Goes
  <2>2. CASE open # {}
    <3>1. open = k.target /\ open \subseteq Step
      BY <1>4, <1>5, <2>2
    <3>2. /\ c \in Busy /\ c.msg = k.msg /\ c.target = k.target /\ c.out = k.out
          /\ c.view = k.view /\ c.pc = "steps" /\ c.level = k.target /\ c.todo = k.target
          /\ c.bad = k.bad
      BY <1>3, <1>8, <2>2, <3>1 DEF Busy
    <3>3. \A s \in k.target : step[s] # "pending"
      BY <1>4 DEF OrderInv, StepsInv, Fits
    <3>4. OnLevel(c, step)
      BY <1>4, <1>10, <3>2, <3>3 DEF OnLevel, Begun
    <3>5. \A s \in Step : Speaks(k.msg, s) => s \in k.target
      BY <1>4, <1>5, <2>1, <2>2 DEF Speaks
    <3>6. \A s \in k.target : CalledBy(c, s)
      BY <3>2, BusyIsNotIdle DEF CalledBy
    <3> QED
      BY <3>2, <3>4, <3>5, <3>6
  <2>3. CASE open = {}
    <3>1. c = Launch(k) /\ \A p \in k.target : step[p] = "done"
      BY <1>4, <1>5, <1>8, <2>3
    <3>2. /\ Keeps(c, k) /\ c.pc \notin {"enter", "claimed"}
          /\ c.pc = "steps" => OnLevel(c, step)
          /\ c.pc = "end" => Going(step)
          /\ \A s \in Step : step[s] \in Waiting => c.pc = "steps" /\ s \in c.todo
      <4>1. PICK v : v = step
        OBVIOUS
      <4>2. v = k.view.step /\ Begun(v) /\ GraphOK /\ \A p \in k.target : v[p] = "done"
        BY <1>4, <1>10, <3>1, <4>1 DEF OrderInv, TypeInv
      <4>3. /\ Keeps(c, k) /\ c.pc \notin {"enter", "claimed"}
            /\ c.pc = "steps" => OnLevel(c, v)
            /\ c.pc = "end" => Going(v)
            /\ \A s \in Step : v[s] \in Waiting => c.pc = "steps" /\ s \in c.todo
        BY <1>3, <3>1, <4>2, LaunchGoes
      <4> QED
        BY <4>1, <4>3
    <3>3. ~\E s \in Step : step[s] \in Under /\ s \in k.target
      BY <3>1 DEF Under
    <3> QED
      BY <3>2, <3>3 DEF Keeps
  <2> QED
    BY <2>2, <2>3
<1>13. c # Idle /\ c.level \subseteq Step
  BY <1>12, BusyIsNotIdle DEF Busy
<1>14. \A s \in Step : (Announced(s) => Announced(s)') /\ (Spoken(s) => Spoken(s)')
  BY <1>2, <1>11 DEF Announced, Spoken
<1>15. ASSUME NEW s \in Step, step[s] \in Waiting, AskedBy(k0, s) PROVE AskedBy(c, s)'
  BY <1>1, <1>4, <1>12, <1>13, <1>15 DEF AskedBy
<1>16. ASSUME NEW s \in Step, step[s] \in Under, CalledBy(k0, s) PROVE CalledBy(c, s)'
  BY <1>1, <1>4, <1>12, <1>16 DEF CalledBy
<1>17. Goes(c)'
  <2>1. c.target = Target(c.msg)'
    BY <1>1, <1>4, <1>11, <1>12 DEF Goes
  <2>2. Heard(c)'
    BY <1>1, <1>2, <1>4, <1>12, <1>14, RowsSame DEF Goes, Heard
  <2>3. \A s \in Step : (\E i \in DOMAIN c.out : c.out[i] = <<s>>) => Speaks(c.msg, s)'
    BY <1>1, <1>4, <1>11, <1>12 DEF Goes
  <2>4. c.pc = "steps" => OnLevel(c, step)'
    BY <1>2, <1>12, <1>13, LowerSame
  <2>5. c.pc = "end" => Going(step)'
    BY <1>2, <1>12 DEF Going
  <2> QED
    BY <1>12, <2>1, <2>2, <2>3, <2>4, <2>5 DEF Goes
<1> QED
  BY <1>1, <1>2, <1>9, <1>13, <1>14, <1>15, <1>16, <1>17, HandsOver

\* What the worker has buffered goes out; it has nothing left to handle.
LEMMA Flushed ==
    ASSUME OrderInv, NEW w \in Worker, NEW k \in Busy, k = worker[w],
           UNCHANGED <<action, needs, link, step>>, msgs' = msgs \o k.out, k.pc # "enter"
    PROVE  /\ \A s \in Step : (Announced(s) => Announced(s)') /\ (Spoken(s) => Spoken(s)')
           /\ k.pc \notin {"steps", "claimed"} =>
                \A s \in Step : ~CalledBy(k, s) /\ (AskedBy(k, s) => Spoken(s)')
<1>1. k.out \in Seq(Message)
  BY DEF Busy
<1>2. Lasts
  BY SameLasts
<1>3. \A s \in Step : /\ Announced(s) => Announced(s)'
                      /\ Spoken(s) => Spoken(s)'
                      /\ (\E i \in DOMAIN k.out : k.out[i] = <<s>>) => Spoken(s)'
  BY <1>1, <1>2, MessagesLast
<1> QED
  BY <1>3 DEF AskedBy, CalledBy

LEMMA ConcludeStall ==
    ASSUME OrderInv, TypeInv', Pursued, NEW w \in Worker, Alone(w), Alone(w)', Conclude(w) PROVE Pursued'
<1>1. PICK k : k = worker[w] /\ k \in Busy /\ WorkerOK(k) /\ k.pc \in {"complete", "fail"}
               /\ Goes(k)
  BY WorkerIsOK, BusyIsNotIdle DEF Conclude, Pursued, AllGo
<1>2. PICK status : status = IF k.pc = "complete" THEN "done" ELSE "error"
  OBVIOUS
<1>3. PICK c : c = [k EXCEPT !.pc = "end", !.view.wf = status, !.out = << >>]
  OBVIOUS
<1>4. /\ UNCHANGED <<action, needs, row, link, step>> /\ msgs' = msgs \o k.out
      /\ CommitWorkflow(w, status) /\ worker' = [worker EXCEPT ![w] = c]
  BY <1>1, <1>2, <1>3 DEF Conclude, Flush, Publish
<1>5. wf' # "in_progress"
  BY <1>1, <1>2, <1>4 DEF CommitWorkflow, Changed, WorkerOK, Holds, Sees
<1>6. worker' \in [Worker -> {Idle} \cup Busy] /\ c = worker'[w]
  BY <1>4 DEF TypeInv, TypeOK, OrderInv
<1>7. /\ \A s \in Step : (Announced(s) => Announced(s)') /\ (Spoken(s) => Spoken(s)')
      /\ \A s \in Step : ~CalledBy(k, s) /\ (AskedBy(k, s) => Spoken(s)')
  BY <1>1, <1>4, Flushed
<1>8. /\ c.pc = "end" /\ c.out = << >> /\ c.msg = k.msg /\ c.target = k.target
      /\ c.view.row = k.view.row
  BY <1>1, <1>3 DEF Busy, View
<1>9. Goes(c)'
  <2>1. c.target = Target(c.msg)'
    BY <1>1, <1>4, <1>8, SameLasts DEF Goes
  <2>2. Heard(c)'
    BY <1>1, <1>4, <1>7, <1>8, RowsSame DEF Goes, Heard
  <2> QED
    BY <1>5, <1>8, <2>1, <2>2 DEF Goes
<1> QED
  BY <1>1, <1>4, <1>5, <1>6, <1>7, <1>9, HandsOver

LEMMA FinishStall ==
    ASSUME OrderInv, TypeInv', Pursued, NEW w \in Worker, Alone(w), Alone(w)', Finish(w) PROVE Pursued'
<1>1. PICK k : k = worker[w] /\ k \in Busy /\ WorkerOK(k) /\ k.pc = "end" /\ Goes(k)
  BY WorkerIsOK, BusyIsNotIdle DEF Finish, Pursued, AllGo
<1>2. /\ UNCHANGED <<action, needs, row, link, step, wf>> /\ msgs' = msgs \o k.out
      /\ worker' = [worker EXCEPT ![w] = Idle]
  BY <1>1 DEF Finish, Flush, Publish
<1>3. worker' \in [Worker -> {Idle} \cup Busy] /\ worker'[w] = Idle
  BY <1>2 DEF TypeInv, TypeOK, OrderInv
<1>4. /\ \A s \in Step : (Announced(s) => Announced(s)') /\ (Spoken(s) => Spoken(s)')
      /\ \A s \in Step : ~CalledBy(k, s) /\ (AskedBy(k, s) => Spoken(s)')
  BY <1>1, <1>2, Flushed
<1>5. wf' = "in_progress" => Going(step)
  BY <1>1, <1>2 DEF Goes
<1>6. PICK c : c = worker'[w] /\ c = Idle
  BY <1>3
<1> QED
  BY <1>1, <1>2, <1>3, <1>4, <1>5, <1>6, HandsOver

\* A message that is redelivered speaks for all that its worker meant to do.
LEMMA CrashStall ==
    ASSUME OrderInv, TypeInv', Pursued, dropped' = {}, NEW w \in Worker, Alone(w), Alone(w)', Crash(w)
    PROVE  Pursued'
<1>1. PICK k : k = worker[w] /\ k \in Busy /\ WorkerOK(k) /\ Goes(k)
  BY WorkerIsBusy DEF Crash, OrderInv, WorkerInv, Pursued, AllGo
<1>2. /\ UNCHANGED <<action, needs, row, link, step, wf>> /\ msgs' = <<k.msg>> \o msgs
      /\ worker' = [worker EXCEPT ![w] = Idle] /\ k.pc # "claimed"
  BY <1>1 DEF Crash, rows
<1>3. msgs \in Seq(Message) /\ k.msg \in Message
  BY <1>1 DEF OrderInv, TypeInv, TypeOK, Busy
<1>4. worker' \in [Worker -> {Idle} \cup Busy] /\ worker'[w] = Idle
  BY <1>2 DEF TypeInv, TypeOK, OrderInv
<1>5. /\ 1 \in DOMAIN msgs' /\ msgs'[1] = k.msg /\ msgs' # << >>
      /\ \A i \in DOMAIN msgs : i + 1 \in DOMAIN msgs' /\ msgs'[i + 1] = msgs[i]
  BY <1>2, <1>3
<1>6. /\ \A n : Target(n)' = Target(n)
      /\ \A n, s : Speaks(n, s)' <=> Speaks(n, s)
  BY <1>2, SameLasts
<1>7. \A s \in Step : (Announced(s) => Announced(s)') /\ (Spoken(s) => Spoken(s)')
  BY <1>5, <1>6 DEF Announced, Spoken
<1>8. \A s \in Step : (Speaks(k.msg, s) => Spoken(s)') /\ (s \in k.target => Announced(s)')
  BY <1>1, <1>5, <1>6 DEF Announced, Spoken, Goes
<1>9. ASSUME NEW s \in Step, AskedBy(k, s) PROVE Speaks(k.msg, s)
  <2>1. CASE \E i \in DOMAIN k.out : k.out[i] = <<s>>
    BY <1>1, <2>1 DEF Goes
  <2>2. CASE k.pc = "steps" /\ s \in k.todo
    <3>1. \A p \in k.target : p = s \/ step[p] = "done"
      <4>1. CASE k.level # k.target
        BY <1>1, <2>2, <4>1 DEF Goes, OnLevel
      <4>2. CASE k.level = k.target
        BY <1>1, <2>2, <4>2 DEF WorkerOK, Holds
      <4> QED
        BY <4>1, <4>2
    <3> QED
      BY <1>1, <3>1 DEF Speaks, Goes
  <2> QED
    BY <1>2, <1>9, <2>1, <2>2 DEF AskedBy
<1>10. ASSUME NEW s \in Step, CalledBy(k, s) PROVE s \in k.target
  BY <1>1, <1>2, <1>10 DEF CalledBy, WorkerOK
<1>11. PICK c : c = worker'[w] /\ c = Idle
  BY <1>4
<1> QED
  BY <1>1, <1>2, <1>4, <1>5, <1>7, <1>8, <1>9, <1>10, <1>11, HandsOver

\* A claimed step is the worker's, until its resource is ordered or created.
LEMMA ClaimStall ==
    ASSUME OrderInv, OrderInv', Pursued, NEW w \in Worker, Alone(w), Alone(w)', NEW s \in Step, Claim(w, s)
    PROVE  Pursued'
<1>1. PICK k : k = worker[w] /\ k \in Busy /\ WorkerOK(k) /\ k.pc = "steps" /\ Goes(k)
  BY WorkerIsOK, BusyIsNotIdle DEF Claim, Handles, Pursued, AllGo
<1>2. PICK c : c = [k EXCEPT !.pc = "claimed", !.cur = s, !.out = << >>,
                             !.view.step[s] = "in_progress"]
  OBVIOUS
<1>3. /\ UNCHANGED <<action, needs, row, link, wf>> /\ msgs' = msgs \o k.out
      /\ Handles(w, s) /\ Claims(k, s) /\ CommitStep(w, s, "in_progress")
      /\ worker' = [worker EXCEPT ![w] = c]
  BY <1>1, <1>2 DEF Claim, Flush, Publish
<1>4. step' = [step EXCEPT ![s] = "in_progress"] /\ step \in [Step -> StepStatus]
  BY <1>1, <1>3, CommitStepIs DEF OrderInv, TypeInv, TypeOK
<1>5. step'[s] = "in_progress" /\ \A t \in Step \ {s} : step'[t] = step[t]
  BY <1>4
<1>6. /\ c.pc = "claimed" /\ c.cur = s /\ c.out = << >> /\ c.msg = k.msg /\ c.target = k.target
      /\ c.level = k.level /\ c.todo = k.todo /\ c.bad = k.bad /\ c.view.row = k.view.row
  BY <1>1, <1>2 DEF Busy, View
<1>7. worker' \in [Worker -> {Idle} \cup Busy] /\ c = worker'[w]
  BY <1>3 DEF TypeInv, TypeOK, OrderInv
<1>8. c # Idle /\ s \in k.todo /\ k.todo \subseteq k.level /\ k.level \subseteq Step
  BY <1>1, <1>3, <1>6 DEF Idle, Handles, Remaining, WorkerOK, Busy
<1>9. step[s] # "done"
  BY <1>1, <1>3 DEF Claims, WorkerOK, Holds, Sees, OrderInv, TypeInv, GraphOK
<1>10. LoadedRow(s)' = Start'
  BY <1>6, <1>7, <1>8 DEF OrderInv, WorkerInv, WorkerOK
<1>11. Lasts
  BY <1>3, <1>5, <1>9 DEF Lasts
<1>12. \A t \in Step : LoadedRow(t)' = LoadedRow(t)
  BY <1>3, RowsSame
<1>13. \A t \in Step : /\ Announced(t) => Announced(t)'
                       /\ Spoken(t) => Spoken(t)'
                       /\ (\E i \in DOMAIN k.out : k.out[i] = <<t>>) => Spoken(t)'
  <2>1. k.out \in Seq(Message)
    BY <1>1 DEF Busy
  <2> QED
    BY <1>3, <1>11, <2>1, MessagesLast
<1>14. PICK v : v = step'
  OBVIOUS
<1>15. \A t \in Step : LowerDone(step, t) => LowerDone(v, t)
  BY <1>11, <1>14, LowerLasts DEF Lasts
<1>16. OnLevel(k, step) /\ Begun(step)
  BY <1>1 DEF Goes, Pursued
<1>17. Begun(v)
  BY <1>5, <1>8, <1>14, <1>15, <1>16 DEF Begun, OnLevel
<1>18. OnLevel(c, v)
  <2>1. \A t \in k.level : LowerDone(v, t)
    BY <1>8, <1>15, <1>16 DEF OnLevel
  <2>2. k.level # k.target => \A p \in k.target : v[p] = "done"
    BY <1>1, <1>5, <1>9, <1>14, <1>16 DEF OnLevel, Busy
  <2>3. ~k.bad => \A t \in k.level \ k.todo : v[t] \notin {"pending", "error"}
    BY <1>5, <1>8, <1>14, <1>16 DEF OnLevel
  <2> QED
    BY <1>6, <2>1, <2>2, <2>3 DEF OnLevel
<1>19. ASSUME NEW t \in Step PROVE Turn(t)'
  <2>1. CASE t = s
    <3>1. CalledBy(c, s)'
      BY <1>6, <1>8 DEF CalledBy
    <3>2. Called(s)'
      BY <1>7, <3>1, OneAsksNext
    <3> QED
      BY <1>5, <1>10, <2>1, <3>2 DEF Turn, Agrees, Waiting, Under
  <2>2. CASE t # s
    <3>1. step'[t] = step[t] /\ Turn(t) /\ Start' = Start
      BY <1>3, <1>5, <2>2, Frame DEF Pursued
    <3>2. Agrees(step[t], LoadedRow(t))'
      BY <1>12, <3>1 DEF Agrees, Turn
    <3>3. ASSUME step[t] \in Waiting PROVE Asked(t)'
      <4>1. Spoken(t) \/ AskedBy(k, t)
        BY <1>1, <3>1, <3>3, OneAsks DEF Turn
      <4>2. AskedBy(k, t) => Spoken(t)' \/ AskedBy(c, t)'
        BY <1>1, <1>6, <1>8, <1>13 DEF AskedBy
      <4> QED
        BY <1>7, <1>13, <4>1, <4>2, OneAsksNext
    <3>4. ASSUME step[t] \in Under PROVE Called(t)'
      <4>1. LoadedRow(t).status \in Under \/ Announced(t) \/ CalledBy(k, t)
        BY <1>1, <3>1, <3>4, OneAsks DEF Turn
      <4>2. ~CalledBy(k, t)
        BY <1>1, <1>8, <2>2 DEF CalledBy, WorkerOK, Holds
      <4> QED
        BY <1>7, <1>12, <1>13, <4>1, <4>2, OneAsksNext
    <3> QED
      BY <3>1, <3>2, <3>3, <3>4 DEF Turn
  <2> QED
    BY <2>1, <2>2
<1>20. Goes(c)'
  <2>1. c.target = Target(c.msg)'
    BY <1>1, <1>6, <1>11, TargetLasts DEF Goes, WorkerOK, Holds, Busy
  <2>2. Heard(c)'
    BY <1>1, <1>6, <1>12, <1>13 DEF Goes, Heard
  <2>3. OnLevel(c, step)'
    BY <1>3, <1>6, <1>8, <1>14, <1>18, LowerSame
  <2> QED
    BY <1>6, <1>8, <2>1, <2>2, <2>3 DEF Goes
<1>21. AllGo'
  <2> SUFFICES ASSUME NEW x \in Worker, worker'[x] # Idle PROVE Goes(worker[x])'
    BY DEF AllGo
  <2>1. x = w
    BY DEF Alone
  <2> QED
    BY <1>7, <1>20, <2>1
<1>22. Begun(step)' /\ Driven'
  BY <1>3, <1>7, <1>8, <1>14, <1>17, LowerSame DEF Driven
<1> QED
  BY <1>19, <1>21, <1>22 DEF Pursued

-----------------------------------------------------------------------------
(* Steps of a worker that give a step a status.                            *)

\* What a worker holds after a step, with the message it buffers.
After(k, s, status, seen, out) ==
    [k EXCEPT !.todo = @ \ {s}, !.cur = s, !.view.step[s] = status, !.view.row[s] = seen,
              !.out = out]

Alike(k1, k0) ==
    /\ k1.msg = k0.msg /\ k1.target = k0.target /\ k1.level = k0.level
    /\ k1.todo = k0.todo /\ k1.bad = k0.bad
    /\ k1.view.step = k0.view.step /\ k1.view.row = k0.view.row

Took(k, k0, s, out) ==
    /\ k.msg = k0.msg /\ k.target = k0.target /\ k.level = k0.level
    /\ k.todo = k0.todo \ {s} /\ k.bad = k0.bad /\ k.out = out

LEMMA AfterIs ==
    ASSUME NEW k0, NEW k1 \in Busy, Alike(k1, k0), NEW s \in Step, NEW status \in StepStatus,
           NEW seen \in Row \cup {Absent}, NEW out \in {<< >>, << <<s>> >>},
           NEW k, k = After(k1, s, status, seen, out)
    PROVE  /\ k \in Busy /\ Took(k, k0, s, out)
           /\ Puts(k.view.step, k0.view.step, s, status)
           /\ Puts(k.view.row, k0.view.row, s, seen)
<1>1. /\ k.msg = k1.msg /\ k.target = k1.target /\ k.level = k1.level
      /\ k.todo = k1.todo \ {s} /\ k.bad = k1.bad /\ k.out = out
  BY DEF After, Busy
<1>2. /\ k.view.step = [k1.view.step EXCEPT ![s] = status]
      /\ k.view.row = [k1.view.row EXCEPT ![s] = seen]
  BY DEF After, Busy, View
<1>3. out \in Seq(Message)
  BY MessageTypes
<1>4. k \in Busy
  BY <1>3 DEF After, Busy, View
<1>5. Took(k, k0, s, out)
  BY <1>1 DEF Took, Alike
<1> QED
  BY <1>2, <1>4, <1>5 DEF Puts, Alike

\* w, which held k0, goes on to c after the step s, whose resource it saw; k1 is k0
\* with the new link.
Advances(w, k0, k1, s, status, seen, out, c) ==
    /\ Alone(w) /\ Alone(w)' /\ k0 \in Busy /\ k0 = worker[w] /\ WorkerOK(k0)
    /\ k0.pc \in {"steps", "claimed"} /\ s \in k0.level /\ (k0.pc = "claimed" => s = k0.cur)
    /\ k1 \in Busy /\ Alike(k1, k0) /\ Lasts /\ UNCHANGED wf /\ msgs' = msgs \o k0.out
    /\ Puts(step', step, s, status) /\ status \in {"done"} \cup Waiting \cup Under
    /\ Agrees(status, LoadedRow(s)')
    /\ \A t \in Step \ {s} : LoadedRow(t)' = LoadedRow(t)
    /\ status \in Under => LoadedRow(s)'.status \in Under \/ Announced(s)
    /\ seen \in Row \cup {Absent}
    /\ seen.status \in Under => LoadedRow(s)'.status \in Under \/ Announced(s)
    /\ out \in {<< >>, << <<s>> >>} /\ (status \in Waiting => out = << <<s>> >>)
    /\ c = Continue(After(k1, s, status, seen, out)) /\ Puts(worker', worker, w, c)

\* Whatever is pursued goes on being so when a worker goes on after a step.
LEMMA SteppedStall ==
    ASSUME OrderInv, TypeInv', Pursued, NEW w \in Worker, NEW k0, NEW k1, NEW s, NEW status,
           NEW seen, NEW out, NEW c, Advances(w, k0, k1, s, status, seen, out, c)
    PROVE  Pursued'
<1> USE DEF Advances
<1>1. s \in Step /\ status \in StepStatus /\ step \in [Step -> StepStatus]
  BY DEF Busy, StepStatus, ModelStatus, Waiting, Under, OrderInv, TypeInv, TypeOK
<1>0. PICK k : k = After(k1, s, status, seen, out)
  OBVIOUS
<1>2. /\ k \in Busy /\ Took(k, k0, s, out)
      /\ Puts(k.view.step, k0.view.step, s, status) /\ Puts(k.view.row, k0.view.row, s, seen)
  BY <1>0, <1>1, AfterIs
<1>8. c = Continue(k)
  BY <1>0
<1>3. k.view.step = step' /\ k0.view.row \in [Step -> Row \cup {Absent}]
  BY <1>2 DEF WorkerOK, Holds, Sees, Puts, Busy, View
<1>4. \A t \in Step : k.view.row[t] = IF t = s THEN seen ELSE k0.view.row[t]
  BY <1>2, <1>3 DEF Puts
<1>5. Heard(k0)
  BY BusyIsNotIdle DEF Pursued, AllGo, Goes
<1>6. \A t \in Step : k.view.row[t].status \in Under => LoadedRow(t)'.status \in Under \/ Announced(t)
  BY <1>4, <1>5 DEF Heard
<1>7. Moves(k, k0, s, status, out)
  BY <1>2, <1>3, <1>6 DEF Moves, Took, Waiting, Under
<1>9. status \in {"done", "error"} \cup Waiting \cup Under
  OBVIOUS
<1> QED
  BY <1>2, <1>7, <1>8, <1>9, Handled

\* A resource waits for approval only while its step does.
LEMMA PendingTogether ==
    ASSUME OrderInv, Pursued, NEW s \in Step, LoadedRow(s).status = "approval_pending"
    PROVE  step[s] = "approval_pending"
<1>1. step[s] \in StepStatus /\ Fits(step[s], LoadedRow(s)) /\ Agrees(step[s], LoadedRow(s))
      /\ step[s] # "rejected"
  BY DEF OrderInv, TypeInv, TypeOK, StepsInv, Pursued, Turn, Begun
<1>2. LoadedRow(s) # Start /\ LoadedRow(s) # Goal
  BY DEF Start, Goal, Absent, At
<1> QED
  BY <1>1, <1>2 DEF Fits, Agrees, Waiting, Under, StepStatus, ModelStatus

\* What a handler finds at a step it has not claimed.
LEMMA CallIs ==
    ASSUME OrderInv, Pursued, NEW w \in Worker, NEW k, k = worker[w], NEW s \in Step,
           Handles(w, s), ~Claims(k, s), NEW r, r = k.view.row[s]
    PROVE  /\ s \in k.todo /\ k.todo \subseteq k.level
           /\ step[s] # "pending" /\ r # Absent
           /\ r.status = "approval_pending" => Call(k, s) = "approve"
           /\ r.status = "ready" /\ Call(k, s) = "follow" =>
                    action = "create" /\ step[s] = "approval_pending"
           /\ r.status = "error" => Call(k, s) # "follow" /\ r = LoadedRow(s)
           /\ r.status \in {"done"} \cup Under => Call(k, s) = "follow"
           /\ Call(k, s) = "approve" => r.status = "approval_pending"
                                        /\ (action = "create" => step[s] = "approval_pending")
<1>1. k \in Busy /\ WorkerOK(k) /\ k.view.step = step /\ k.pc = "steps"
  BY WorkerIsOK DEF Handles, WorkerOK, Holds, Sees
<1>2. s \in k.todo /\ k.todo \subseteq k.level
  BY <1>1 DEF Handles, Remaining, WorkerOK
<1>3. /\ LoadedRow(s) # Start /\ r \in {Goal} \cup Between
      /\ r.status \notin Under => r = LoadedRow(s)
  BY NotClaimed
<1>4. step[s] # "pending" /\ r # Absent
  BY <1>3, Kinds DEF OrderInv, TypeInv, StepsInv, Fits
<1>5. action \in {"create", "destroy"}
  BY DEF OrderInv, TypeInv, GraphOK
<1>6. r.status = "approval_pending" => step[s] = "approval_pending"
  BY <1>3, PendingTogether DEF Under
<1>7. Agrees(step[s], LoadedRow(s))
  BY DEF Pursued, Turn
<1>8. r.status = "approval_pending" => Call(k, s) = "approve"
  BY <1>1, <1>4, <1>5, <1>6 DEF Call
<1>9. r.status = "ready" /\ Call(k, s) = "follow" => action = "create" /\ step[s] = "approval_pending"
  BY <1>1, <1>4, <1>5 DEF Call
<1>10. r.status = "error" => Call(k, s) # "follow" /\ r = LoadedRow(s)
  <2> SUFFICES ASSUME r.status = "error" PROVE Call(k, s) # "follow" /\ r = LoadedRow(s)
    OBVIOUS
  <2>1. r = LoadedRow(s)
    BY <1>3 DEF Under
  <2>2. step[s] # "approval_pending"
    BY <1>7, <2>1 DEF Agrees, Waiting
  <2> QED
    BY <1>1, <1>4, <1>5, <2>1, <2>2 DEF Call
<1>11. r.status \in {"done"} \cup Under => Call(k, s) = "follow"
  BY <1>1, <1>4 DEF Call, Under
<1>12. Call(k, s) = "approve" => r.status = "approval_pending"
  BY <1>1, <1>4, <1>5 DEF Call
<1> QED
  BY <1>2, <1>4, <1>6, <1>8, <1>9, <1>10, <1>11, <1>12

LEMMA FollowStall ==
    ASSUME OrderInv, TypeInv', Pursued, NEW w \in Worker, Alone(w), Alone(w)', NEW s \in Step, Follow(w, s)
    PROVE  Pursued'
<1>1. PICK k : k = worker[w] /\ k \in Busy /\ WorkerOK(k) /\ k.pc = "steps" /\ k # Idle
  BY WorkerIsOK, BusyIsNotIdle DEF Follow, Handles
<1>2. PICK seen : seen = k.view.row[s]
  OBVIOUS
<1>3. PICK status : status = seen.status
  OBVIOUS
<1>4. PICK c : c = Stepped(k, s, status, seen, Resends(k, s))
  OBVIOUS
<1>5. /\ UNCHANGED <<action, needs, row, link, wf>> /\ msgs' = msgs \o k.out
      /\ Handles(w, s) /\ ~Claims(k, s) /\ Call(k, s) = "follow"
      /\ CommitStep(w, s, status) /\ worker' = [worker EXCEPT ![w] = c]
  BY <1>1, <1>2, <1>3, <1>4 DEF Follow, Flush, Publish
<1>6. /\ LoadedRow(s) # Start /\ seen \in {Goal} \cup Between
      /\ status \notin Under => seen = LoadedRow(s)
  BY <1>1, <1>2, <1>3, <1>5, NotClaimed
<1>7. /\ s \in k.todo /\ k.todo \subseteq k.level /\ step[s] # "pending"
      /\ status # "approval_pending" /\ status # "error"
      /\ status = "ready" => action = "create" /\ step[s] = "approval_pending"
  BY <1>1, <1>2, <1>3, <1>5, CallIs
<1>8. status \in {"done", "ready"} \cup Under
  BY <1>3, <1>6, <1>7, Kinds DEF OrderInv, TypeInv, Under
<1>9. step' = [step EXCEPT ![s] = status] /\ Puts(step', step, s, status)
  BY <1>1, <1>5, CommitStepIs DEF Puts
<1>10. \A t \in Step : LoadedRow(t)' = LoadedRow(t)
  BY <1>5, RowsSame
<1>11. Lasts
  <2>1. step[s] = "done" => status = "done"
    BY <1>1, <1>2, <1>3, Kinds DEF WorkerOK, Holds, Sees, OrderInv, TypeInv
  <2>2. \A t \in Step : step[t] = "done" => step'[t] = "done"
    BY <1>9, <2>1 DEF OrderInv, TypeInv, TypeOK
  <2> QED
    BY <1>5, <2>2 DEF Lasts
<1>12. Agrees(status, LoadedRow(s))
  <2>1. SeesRow(k, s)
    BY <1>1 DEF WorkerOK, Holds, Sees
  <2>2. status \in Under => LoadedRow(s).status \in Under \cup {"done", "error"}
    BY <1>2, <1>3, <2>1, Kinds DEF SeesRow, OrderInv, TypeInv, Under
  <2>3. status \in Waiting => LoadedRow(s).status = status
    BY <1>3, <1>6, <1>8 DEF Waiting, Under
  <2> QED
    BY <1>7, <2>2, <2>3 DEF Agrees
<1>13. Agrees(status, LoadedRow(s)')
  BY <1>5, <1>10, <1>12, Frame DEF Agrees
<1>14. status \in Under => LoadedRow(s)'.status \in Under \/ Announced(s)
  BY <1>1, <1>2, <1>3, <1>10 DEF Pursued, AllGo, Goes, Heard
<1>15. PICK out \in {<< >>, << <<s>> >>} : out = IF Resends(k, s) THEN << <<s>> >> ELSE << >>
  OBVIOUS
<1>16. c = Continue(After(k, s, status, seen, out))
  BY <1>4, <1>15 DEF Stepped, After
<1>17. status \in Waiting => out = << <<s>> >>
  <2>1. status \in Waiting => Resends(k, s)
    BY <1>1, <1>7, <1>8 DEF Resends, Waiting, Under, WorkerOK, Holds, Sees
  <2> QED
    BY <1>15, <2>1
<1>18. seen \in Row \cup {Absent}
  BY <1>1, <1>2 DEF Busy, View
<1>19. Puts(worker', worker, w, c) /\ Alike(k, k) /\ s \in k.level /\ UNCHANGED wf
       /\ k.pc \in {"steps", "claimed"} /\ (k.pc = "claimed" => s = k.cur)
  BY <1>1, <1>5, <1>7 DEF Puts, Alike
<1>20. status \in {"done"} \cup Waiting \cup Under
  BY <1>8 DEF Waiting
<1>21. msgs' = msgs \o k.out /\ \A t \in Step \ {s} : LoadedRow(t)' = LoadedRow(t)
  BY <1>5, <1>10
<1>22. seen.status \in Under => LoadedRow(s)'.status \in Under \/ Announced(s)
  BY <1>3, <1>14
<1>23. Advances(w, k, k, s, status, seen, out, c)
  BY <1>1, <1>9, <1>11, <1>13, <1>14, <1>16, <1>17, <1>18, <1>19, <1>20, <1>21, <1>22
     DEF Advances
<1> QED
  BY <1>23, SteppedStall

LEMMA CommitsStall ==
    ASSUME OrderInv, TypeInv', Pursued, NEW w \in Worker, Alone(w), Alone(w)', NEW k \in Busy, k = worker[w],
           WorkerOK(k), k.pc \in {"steps", "claimed"}, Known(k.view, row), NEW s \in Step,
           NEW call \in {"approve", "execute", "destroy"}, NEW sends,
           Commits(w, s, call, sends), Acts(k, s, call), LoadedRow(s) # Absent,
           s \in k.level, k.pc = "claimed" => s = k.cur,
           NEW new, new = Effect(LoadedRow(s), call),
           NEW out \in {<< >>, << <<s>> >>},
           out = IF (IF sends THEN Resends(k, s) ELSE new.status = "approval_pending")
                 THEN << <<s>> >> ELSE << >>,
           new.status \in Waiting => out = << <<s>> >>
    PROVE  Pursued'
<1>1. /\ k.view.link[s] = 1 /\ link[s] = 1 /\ <<s, 1>> \in Res
      /\ row[<<s, 1>>] = LoadedRow(s) /\ row[<<s, 1>>] \in Row
      /\ new \in Row
      /\ Merged(row[<<s, 1>>], k.view.row[s], Effect(k.view.row[s], call)) = new
  BY RowOfCall DEF WorkerOK
<1>2. PICK c : c = Stepped(k, s, new.status, new,
                           IF sends THEN Resends(k, s) ELSE new.status = "approval_pending")
  OBVIOUS
<1>3. /\ row' = [row EXCEPT ![<<s, 1>>] = new] /\ CommitStep(w, s, new.status)
      /\ msgs' = msgs \o k.out /\ worker' = [worker EXCEPT ![w] = c]
      /\ UNCHANGED <<action, needs, wf, link>>
  BY <1>1, <1>2 DEF Commits, Flush, Publish
<1>4. /\ new.status \in {"approval_pending", "ready", "queued"}
      /\ LoadedRow(s) # Goal
  BY DEF Acts
<1>5. PICK status : status = new.status
  OBVIOUS
<1>6. Puts(step', step, s, status)
  <2>1. step' = [step EXCEPT ![s] = new.status]
    BY <1>3, CommitStepIs
  <2> QED
    BY <1>5, <2>1 DEF Puts
<1>7. step \in [Step -> StepStatus] /\ row \in [Res -> Row \cup {Absent}]
  BY DEF OrderInv, TypeInv, TypeOK
<1>8. LoadedRow(s)' = new
  BY <1>1, <1>3, <1>7 DEF LoadedRow
<1>9. \A t \in Step \ {s} : LoadedRow(t)' = LoadedRow(t)
  BY <1>3 DEF LoadedRow
<1>10. Lasts
  <2>1. step[s] # "done"
    BY <1>4 DEF OrderInv, StepsInv, Fits
  <2>2. \A t \in Step : step[t] = "done" => step'[t] = "done"
    BY <1>6, <1>7, <2>1 DEF Puts
  <2> QED
    BY <1>3, <2>2 DEF Lasts
<1>11. Agrees(status, LoadedRow(s)')
  BY <1>4, <1>5, <1>8 DEF Agrees, Waiting, Under
<1>12. status \in {"done"} \cup Waiting \cup Under /\ new.status = status
  BY <1>4, <1>5 DEF Waiting, Under
<1>13. c = Continue(After(k, s, status, new, out))
  BY <1>2, <1>5 DEF Stepped, After
<1>14. status \in Under => LoadedRow(s)'.status \in Under \/ Announced(s)
  BY <1>5, <1>8
<1>15. new \in Row \cup {Absent} /\ Puts(worker', worker, w, c) /\ Alike(k, k) /\ UNCHANGED wf
  BY <1>1, <1>3 DEF Puts, Alike
<1>16. /\ status \in Waiting => out = << <<s>> >>
       /\ new.status \in Under => LoadedRow(s)'.status \in Under \/ Announced(s)
  BY <1>5, <1>14
<1>17. Advances(w, k, k, s, status, new, out, c)
  BY <1>3, <1>6, <1>9, <1>10, <1>11, <1>12, <1>13, <1>14, <1>15, <1>16 DEF Advances
<1> QED
  BY <1>17, SteppedStall

\* What a handler asks for a step it has not claimed.
LEMMA AskActs ==
    ASSUME OrderInv, NEW w \in Worker, NEW k \in Busy, k = worker[w], WorkerOK(k), NEW s \in Step,
           Handles(w, s), ~Claims(k, s), NEW call \in {"approve", "execute"}, call = Call(k, s),
           Accepts(k, s, call)
    PROVE  /\ Acts(k, s, call) /\ LoadedRow(s) # Absent
           /\ call = "approve" => LoadedRow(s).status = "approval_pending"
           /\ call = "execute" => CanBeExecuted(LoadedRow(s))
           /\ Effect(LoadedRow(s), call).status = (IF call = "execute" THEN "queued" ELSE "ready")
<1>1. PICK r : r = k.view.row[s]
  OBVIOUS
<1>2. /\ LoadedRow(s) # Start /\ r \in {Goal} \cup Between
      /\ r.status \notin Under => r = LoadedRow(s)
  BY <1>1, NotClaimed
<1>3. call = "approve" => r.status = "approval_pending"
  BY <1>1 DEF Accepts
<1>4. call = "execute" => r.status \in {"ready", "error"} /\ CanBeExecuted(r)
  <2>1. call = "execute" => CanBeExecuted(r)
    BY <1>1 DEF Accepts
  <2>2. Call(k, s) = "execute" => r.status \in {"ready", "error"}
    <3>1. CASE r.status \in {"ready", "error"}
      BY <3>1
    <3>2. CASE r = Absent \/ r.status = "approval_pending"
      BY <1>1, <3>2 DEF Call, Absent, OrderInv, TypeInv, GraphOK
    <3>3. CASE r # Absent /\ r.status \notin {"approval_pending", "ready", "error"}
      BY <1>1, <3>3 DEF Call
    <3> QED
      BY <3>1, <3>2, <3>3
  <2> QED
    BY <2>1, <2>2
<1>5. /\ r \in Between /\ r = LoadedRow(s) /\ r.status \notin Under /\ r.state = Aim
      /\ r # Absent /\ r # Goal
  BY <1>2, <1>3, <1>4, Kinds DEF Under, OrderInv, TypeInv
<1>6. Effect(r, call) = At(IF call = "execute" THEN "queued" ELSE "ready", Aim)
  BY <1>5 DEF Effect, ApproveEntity, ExecuteEntity
<1>7. /\ Effect(r, call) \in Between
      /\ Effect(r, call).status = (IF call = "execute" THEN "queued" ELSE "ready")
  BY <1>6, Kinds DEF Between, Under, OrderInv, TypeInv
<1>8. Acts(k, s, call)
  BY <1>1, <1>2, <1>5, <1>7 DEF Acts
<1> QED
  BY <1>3, <1>4, <1>5, <1>7, <1>8

\* What a claimed step of a cascade asks for.
LEMMA OrderActs ==
    ASSUME OrderInv, NEW w \in Worker, NEW k \in Busy, k = worker[w], WorkerOK(k), k.pc = "claimed",
           NEW s \in Step, s = k.cur, Order(w)
    PROVE  /\ Commits(w, s, "destroy", FALSE) /\ Acts(k, s, "destroy") /\ action = "destroy"
           /\ step[s] = "in_progress" /\ LoadedRow(s) = At("done", "provisioned")
           /\ LoadedRow(s) # Absent
           /\ Effect(LoadedRow(s), "destroy").status = Gate(gated)
<1>1. LoadedRow(s) = Start /\ SeesRow(k, s) /\ action = "destroy" /\ step[s] = "in_progress"
      /\ \A d \in Before(s) : step[d] = "done" /\ d \in Step
  BY PositionOrder DEF WorkerOK, Holds, Sees, Order, OrderInv, TypeInv
<1>2. Start = At("done", "provisioned")
  BY <1>1 DEF Start
<1>3. k.view.row[s] = LoadedRow(s)
  BY <1>1, Kinds DEF SeesRow, OrderInv, TypeInv
<1>4. k.view.row[s].state # "destroy" /\ Start.status \notin Under /\ Start # Absent
  BY <1>1, <1>2, <1>3 DEF At, Under, Absent
<1>5. Commits(w, s, "destroy", FALSE)
  BY <1>4 DEF Order
<1>6. Effect(Start, "destroy") = At(Gate(gated), Aim) /\ Aim = "destroy"
  BY <1>1 DEF Effect, DestroyEntity, Aim
<1>7. /\ Effect(Start, "destroy") \in Between
      /\ Effect(Start, "destroy").status \in {"approval_pending", "ready"}
      /\ Effect(Start, "destroy").status = Gate(gated)
  BY <1>6, Kinds DEF Between, Gate, OrderInv, TypeInv
<1>8. \A d \in Before(s) : LoadedRow(d) = Goal
  BY <1>1 DEF OrderInv, StepsInv, Fits
<1>9. Acts(k, s, "destroy")
  BY <1>1, <1>3, <1>4, <1>7, <1>8, Kinds DEF Acts, OrderInv, TypeInv
<1> QED
  BY <1>1, <1>2, <1>4, <1>5, <1>7, <1>9

\* A creation links the first resource of its step.
Relinked(k, s) == [k EXCEPT !.view.link[s] = 1]

LEMMA CreateIs ==
    ASSUME OrderInv, NEW w \in Worker, NEW k \in Busy, k = worker[w], WorkerOK(k), k.pc = "claimed",
           NEW s \in Step, s = k.cur, Create(w), NEW new, new = At(Gate(gated), "provision"),
           NEW c, c = Stepped(Relinked(k, s), s, "approval_pending", new, TRUE)
    PROVE  /\ LoadedRow(s) = Start /\ Start = Absent /\ step[s] = "in_progress" /\ action = "create"
           /\ \A d \in Before(s) : step[d] = "done" /\ d \in Step
           /\ <<s, 1>> \in Res /\ row[<<s, 1>>] = Absent
           /\ Puts(row', row, <<s, 1>>, new) /\ Puts(link', link, s, 1)
           /\ Puts(step', step, s, "approval_pending") /\ Flush(w, {})
           /\ Puts(worker', worker, w, c)
           /\ UNCHANGED <<action, gated, needs, wf, run, starts, faults, dropped>>
           /\ new \in Between /\ new.status \in {"approval_pending", "ready"} /\ new \in Row
<1>1. LoadedRow(s) = Start /\ action = "create" /\ step[s] = "in_progress"
      /\ \A d \in Before(s) : step[d] = "done" /\ d \in Step
  BY PositionOrder DEF WorkerOK, Holds, Sees, Create, OrderInv, TypeInv
<1>2. Start = Absent /\ Aim = "provision"
  BY <1>1 DEF Start, Aim
<1>3. \A n \in Numbers : row[<<s, n>>] = Absent
  <2>1. link[s] = 0
    BY <1>1, <1>2 DEF OrderInv, RowsInv, LoadedRow
  <2>2. \A n \in Numbers : n # 0
    BY BoundsAssumption DEF Numbers
  <2>3. \A n \in Numbers : n # link[s] => row[<<s, n>>] = Absent
    BY DEF OrderInv, RowsInv
  <2> QED
    BY <2>1, <2>2, <2>3
<1>4. Cardinality({n \in Numbers : row[<<s, n>>] # Absent}) = 0
  <2>1. {n \in Numbers : row[<<s, n>>] # Absent} = {}
    BY <1>3
  <2> QED
    BY <2>1, FS_EmptySet
<1>5. /\ row' = [row EXCEPT ![<<s, 1>>] = new] /\ link' = [link EXCEPT ![s] = 1]
      /\ CommitStep(w, s, "approval_pending") /\ Flush(w, {})
      /\ worker' = [worker EXCEPT ![w] = c]
      /\ UNCHANGED <<action, gated, needs, wf, run, starts, faults, dropped>>
  <2> DEFINE n == Cardinality({m \in Numbers : row[<<s, m>>] # Absent}) + 1
  <2>1. /\ row' = [row EXCEPT ![<<s, n>>] = new] /\ link' = [link EXCEPT ![s] = n]
        /\ CommitStep(w, s, "approval_pending") /\ Flush(w, {})
        /\ worker' = [worker EXCEPT ![w] = Stepped([k EXCEPT !.view.link[s] = n], s,
                                                   "approval_pending", new, TRUE)]
        /\ UNCHANGED <<action, gated, needs, wf, run, starts, faults, dropped>>
    BY DEF Create
  <2>2. n = 1
    BY <1>4
  <2> HIDE DEF n
  <2> QED
    BY <2>1, <2>2 DEF Relinked
<1>6. step' = [step EXCEPT ![s] = "approval_pending"]
  BY <1>5, CommitStepIs
<1>7. /\ new \in Between /\ new.status \in {"approval_pending", "ready"} /\ new \in Row
  <2>1. new = At(Gate(gated), Aim) /\ Gate(gated) \in {"approval_pending", "ready"}
    BY <1>2 DEF Gate
  <2> QED
    BY <1>2, <2>1, Kinds DEF Between, Row, At, ModelStatus, ModelState, OrderInv, TypeInv
<1>8. <<s, 1>> \in Res /\ row[<<s, 1>>] = Absent
  BY <1>3, BoundsAssumption DEF Res, Numbers
<1> QED
  BY <1>1, <1>2, <1>5, <1>6, <1>7, <1>8 DEF Puts

LEMMA RelinkedIs ==
    ASSUME NEW k \in Busy, NEW s \in Step, NEW k2, k2 = Relinked(k, s),
           NEW l \in [Step -> 0 .. MaxResources], Puts(l, k.view.link, s, 1)
    PROVE  /\ k2 \in Busy /\ k2.view.link = l /\ Alike(k2, k) /\ k2.view.wf = k.view.wf
<1>1. l = [k.view.link EXCEPT ![s] = 1]
  BY DEF Puts
<1>2. k2 \in Busy /\ k2.view.link = l
  BY <1>1 DEF Busy, View, Relinked
<1>3. Alike(k2, k) /\ k2.view.wf = k.view.wf
  BY DEF Busy, View, Relinked, Alike
<1> QED
  BY <1>2, <1>3

LEMMA AskStall ==
    ASSUME OrderInv, TypeInv', Pursued, NEW w \in Worker, Alone(w), Alone(w)', NEW s \in Step, Ask(w, s)
    PROVE  Pursued'
<1>1. PICK k \in Busy : k = worker[w] /\ WorkerOK(k) /\ k.pc = "steps" /\ Known(k.view, row)
  BY WorkerIsOK, PcIsBusy DEF Ask, Handles, OrderInv
<1>2. PICK call : call = Call(k, s)
  OBVIOUS
<1>3. /\ Handles(w, s) /\ ~Claims(k, s) /\ call \in {"approve", "execute"}
      /\ Commits(w, s, call, TRUE) /\ Accepts(k, s, call)
  BY <1>1, <1>2 DEF Ask, Commits
<1>4. /\ Acts(k, s, call) /\ LoadedRow(s) # Absent
      /\ Effect(LoadedRow(s), call).status = (IF call = "execute" THEN "queued" ELSE "ready")
  BY <1>1, <1>2, <1>3, AskActs
<1>5. /\ s \in k.level /\ k.pc \in {"steps", "claimed"} /\ (k.pc = "claimed" => s = k.cur)
      /\ call = "approve" => (action = "create" => step[s] = "approval_pending")
  BY <1>1, <1>2, <1>3, CallIs
<1>6. PICK new : new = Effect(LoadedRow(s), call)
  OBVIOUS
<1>7. PICK out \in {<< >>, << <<s>> >>} :
        out = IF (IF TRUE THEN Resends(k, s) ELSE new.status = "approval_pending")
              THEN << <<s>> >> ELSE << >>
  OBVIOUS
<1>8. new.status \in Waiting => out = << <<s>> >>
  <2>1. new.status \in Waiting => call = "approve"
    BY <1>3, <1>4, <1>6 DEF Waiting
  <2>2. k.view.step = step /\ action \in {"create", "destroy"}
    BY <1>1 DEF WorkerOK, Holds, Sees, OrderInv, TypeInv, GraphOK
  <2>3. call = "approve" => Resends(k, s)
    BY <1>2, <1>5, <2>2 DEF Resends
  <2> QED
    BY <1>7, <2>1, <2>3
<1>9. CASE call = "approve"
  BY <1>1, <1>3, <1>4, <1>5, <1>6, <1>7, <1>8, <1>9, CommitsStall
<1>10. CASE call = "execute"
  BY <1>1, <1>3, <1>4, <1>5, <1>6, <1>7, <1>8, <1>10, CommitsStall
<1> QED
  BY <1>3, <1>9, <1>10

LEMMA OrderStall ==
    ASSUME CascadesGated, OrderInv, TypeInv', Pursued, NEW w \in Worker, Alone(w), Alone(w)', Order(w)
    PROVE  Pursued'
<1>1. PICK k \in Busy : k = worker[w] /\ WorkerOK(k) /\ k.pc = "claimed" /\ Known(k.view, row)
                        /\ Goes(k)
  BY WorkerIsOK, PcIsBusy, BusyIsNotIdle DEF Order, OrderInv, Pursued, AllGo
<1>2. PICK s \in Step : s = k.cur
  BY <1>1 DEF Busy
<1>3. /\ Commits(w, s, "destroy", FALSE) /\ Acts(k, s, "destroy") /\ action = "destroy"
      /\ LoadedRow(s) # Absent /\ Effect(LoadedRow(s), "destroy").status = Gate(gated)
  BY <1>1, <1>2, OrderActs
<1>4. gated = TRUE
  <2>1. "destroy" \in Actions /\ gated \in Approvals /\ gated \in BOOLEAN
    BY <1>3, InstanceAssumption DEF OrderInv, TypeInv, TypeOK
  <2> QED
    BY <2>1 DEF CascadesGated
<1>5. Effect(LoadedRow(s), "destroy").status = "approval_pending"
  BY <1>3, <1>4 DEF Gate
<1>6. PICK new : new = Effect(LoadedRow(s), "destroy")
  OBVIOUS
<1>7. PICK out \in {<< >>, << <<s>> >>} :
        out = IF (IF FALSE THEN Resends(k, s) ELSE new.status = "approval_pending")
              THEN << <<s>> >> ELSE << >>
  OBVIOUS
<1>8. out = << <<s>> >>
  BY <1>5, <1>6, <1>7
<1>9. s \in k.level
  BY <1>1, <1>2 DEF Goes, WorkerOK
<1> QED
  BY <1>1, <1>2, <1>3, <1>6, <1>7, <1>8, <1>9, CommitsStall

LEMMA CreateStall ==
    ASSUME OrderInv, TypeInv', Pursued, NEW w \in Worker, Alone(w), Alone(w)', Create(w)
    PROVE  Pursued'
<1>1. PICK k \in Busy : k = worker[w] /\ WorkerOK(k) /\ k.pc = "claimed" /\ Goes(k)
  BY WorkerIsOK, BusyIsNotIdle DEF Create, Pursued, AllGo
<1>2. PICK s \in Step : s = k.cur
  BY <1>1 DEF Busy
<1>3. PICK new : new = At(Gate(gated), "provision")
  OBVIOUS
<1>4. PICK c : c = Stepped(Relinked(k, s), s, "approval_pending", new, TRUE)
  OBVIOUS
<1>5. /\ LoadedRow(s) = Start /\ Start = Absent /\ step[s] = "in_progress"
      /\ Puts(row', row, <<s, 1>>, new) /\ Puts(link', link, s, 1)
      /\ Puts(step', step, s, "approval_pending") /\ Flush(w, {})
      /\ Puts(worker', worker, w, c) /\ <<s, 1>> \in Res
      /\ UNCHANGED <<action, gated, needs, wf, run, starts, faults, dropped>>
      /\ new \in Between /\ new.status \in {"approval_pending", "ready"} /\ new \in Row
  <2>1. /\ LoadedRow(s) = Start /\ Start = Absent /\ step[s] = "in_progress"
        /\ Puts(row', row, <<s, 1>>, new) /\ Puts(link', link, s, 1)
        /\ Puts(step', step, s, "approval_pending") /\ Flush(w, {})
        /\ Puts(worker', worker, w, c) /\ <<s, 1>> \in Res
    BY <1>1, <1>2, <1>3, <1>4, CreateIs
  <2>2. UNCHANGED <<action, gated, needs, wf, run, starts, faults, dropped>>
    BY <1>1, <1>2, <1>3, <1>4, CreateIs
  <2>3. new \in Between /\ new \in Row
    BY <1>1, <1>2, <1>3, <1>4, CreateIs
  <2>4. new.status \in {"approval_pending", "ready"}
    BY <1>3 DEF At, Gate
  <2> QED
    BY <2>1, <2>2, <2>3, <2>4
<1>6. /\ step \in [Step -> StepStatus] /\ row \in [Res -> Row \cup {Absent}]
      /\ link \in [Step -> 0 .. MaxResources]
  BY DEF OrderInv, TypeInv, TypeOK
<1>7. LoadedRow(s)' = new
  <2>1. link'[s] = 1 /\ row'[<<s, 1>>] = new
    BY <1>5, <1>6 DEF Puts
  <2> QED
    BY <2>1 DEF LoadedRow
<1>8. \A t \in Step \ {s} : LoadedRow(t)' = LoadedRow(t)
  BY <1>5, <1>6 DEF LoadedRow, Puts
<1>9. Lasts
  BY <1>5, <1>6 DEF Lasts, Puts
<1>10. PICK k2 : k2 = Relinked(k, s)
  OBVIOUS
<1>11. k2 \in Busy /\ Alike(k2, k)
  <2>1. PICK l \in [Step -> 0 .. MaxResources] : l = link'
    BY DEF TypeInv, TypeOK
  <2>2. Puts(l, k.view.link, s, 1)
    BY <1>1, <1>5, <2>1 DEF WorkerOK, Holds, Sees
  <2> QED
    BY <1>10, <2>2, RelinkedIs
<1>12. PICK out \in {<< >>, << <<s>> >>} : out = << <<s>> >>
  OBVIOUS
<1>13. c = Continue(After(k2, s, "approval_pending", new, out))
  BY <1>4, <1>10, <1>12 DEF Stepped, After
<1>14. s \in k.level
  BY <1>1, <1>2 DEF Goes, WorkerOK
<1>15. PICK status : status = "approval_pending"
  OBVIOUS
<1>16. /\ Agrees(status, LoadedRow(s)')
       /\ status \in {"done"} \cup Waiting \cup Under /\ status \notin Under
       /\ new.status \notin Under
  BY <1>5, <1>7, <1>15 DEF Agrees, Waiting, Under
<1>17. msgs' = msgs \o k.out /\ UNCHANGED wf
  BY <1>1, <1>5 DEF Flush, Publish
<1>18. /\ Puts(step', step, s, status) /\ c = Continue(After(k2, s, status, new, out))
       /\ new \in Row \cup {Absent}
  BY <1>5, <1>13, <1>15
<1>19. Advances(w, k, k2, s, status, new, out, c)
  BY <1>1, <1>2, <1>5, <1>8, <1>9, <1>11, <1>12, <1>14, <1>16, <1>17, <1>18 DEF Advances
<1> QED
  BY <1>19, SteppedStall

\* An exception is followed by the end of the workflow, in ERROR.
LEMMA RaiseStall ==
    ASSUME CascadesAccepted, OrderInv, TypeInv', Pursued, dropped' = {},
           NEW w \in Worker, Alone(w), Alone(w)', NEW s \in Step, Raise(w, s)
    PROVE  Pursued'
<1>1. PICK k : k = worker[w] /\ k \in Busy /\ WorkerOK(k) /\ k.pc \in {"steps", "claimed"}
               /\ Goes(k)
  BY WorkerIsOK, BusyIsNotIdle DEF Raise, Handles, Pursued, AllGo
<1>2. PICK again : again = IF k.level = k.target THEN k.view ELSE Loaded
  OBVIOUS
<1>3. /\ again \in View /\ again.step = step
      /\ \A t \in Step : again.row[t] = k.view.row[t] \/ again.row[t] = LoadedRow(t)
  <2>1. k.view \in View /\ k.view.step = step
    BY <1>1 DEF Busy, WorkerOK, Holds, Sees
  <2>2. Loaded \in View /\ Loaded.step = step /\ \A t \in Step : Loaded.row[t] = LoadedRow(t)
    BY LoadedType DEF OrderInv, Loaded
  <2> QED
    BY <1>2, <2>1, <2>2
<1>4. PICK k2 : k2 = [k EXCEPT !.todo = @ \ {s}, !.cur = s, !.bad = TRUE, !.out = << >>,
                               !.view = [again EXCEPT !.step[s] = "error"]]
  OBVIOUS
<1>5. PICK c : c = Continue(k2)
  OBVIOUS
<1>6. /\ UNCHANGED <<action, needs, row, link, wf>> /\ msgs' = msgs \o k.out
      /\ step' = [step EXCEPT ![s] = Changed(@, again.step[s], "error")]
      /\ worker' = [worker EXCEPT ![w] = c] /\ Refused(w, s)
      /\ \/ Handles(w, s) /\ ~Claims(k, s)
         \/ k.pc = "claimed" /\ s = k.cur
  BY <1>1, <1>2, <1>4, <1>5 DEF Raise, Flush, Publish
<1>7. ~(faults' # faults /\ k.view.row[s].status = "approval_pending")
  BY <1>1 DEF Raise
<1>8. step' = [step EXCEPT ![s] = "error"] /\ Puts(step', step, s, "error")
  BY <1>3, <1>6 DEF Changed, Puts
<1>9. \A t \in Step : LoadedRow(t)' = LoadedRow(t)
  BY <1>6, RowsSame
<1>10. /\ s \in k.level /\ (k.pc = "claimed" => s = k.cur) /\ step[s] # "done"
       /\ Agrees("error", LoadedRow(s))
  <2>1. CASE k.pc = "claimed" /\ s = k.cur
    BY <1>1, <2>1 DEF Goes, WorkerOK, Agrees, Waiting, Under
  <2>2. CASE Handles(w, s) /\ ~Claims(k, s)
    <3>1. PICK r : r = k.view.row[s]
      OBVIOUS
    <3>2. PICK call : call = Call(k, s)
      OBVIOUS
    <3>3. /\ k.pc = "steps" /\ s \in k.level /\ r # Absent
          /\ r.status = "error" => r = LoadedRow(s)
          /\ r.status \in {"done"} \cup Under => call = "follow"
          /\ call = "approve" => r.status = "approval_pending"
      BY <1>1, <2>2, <3>1, <3>2, CallIs DEF Handles
    <3>4. /\ r \in {Goal} \cup Between
          /\ r.status \notin Under => r = LoadedRow(s)
      BY <1>1, <2>2, <3>1, NotClaimed
    <3>5. \/ call = "raise"
          \/ call \in {"approve", "execute"} /\ ~Accepts(k, s, call)
          \/ call \notin {"raise", "follow"} /\ faults' # faults
      <4>1. faults \in Nat
        BY BoundsAssumption DEF OrderInv, TypeInv, TypeOK
      <4>2. call \in {"raise", "follow", "approve", "execute"}
        BY <3>2 DEF Call, OrderInv, TypeInv, GraphOK
      <4>3. \/ call = "raise"
            \/ call \in {"approve", "execute"} /\ ~Accepts(k, s, call)
            \/ call \notin {"raise", "follow"} /\ faults' = faults + 1
        BY <1>1, <1>6, <3>2, <3>3, <4>2 DEF Refused, Fault
      <4> QED
        BY <4>1, <4>3
    <3>6. call # "follow" /\ r.status # "approval_pending"
      <4>1. call = "approve" => Accepts(k, s, call)
        BY <3>1, <3>3 DEF Accepts
      <4>2. r.status = "approval_pending" => call = "approve"
        BY <1>1, <2>2, <3>1, <3>2, CallIs
      <4> QED
        BY <1>7, <3>1, <3>5, <4>1, <4>2
    <3>7. r.status \in {"ready", "error"} /\ r = LoadedRow(s)
      BY <3>3, <3>4, <3>6, Kinds DEF Under, OrderInv, TypeInv
    <3>8. step[s] # "done"
      BY <1>1, <3>1, <3>7, Kinds DEF WorkerOK, Holds, Sees, OrderInv, TypeInv
    <3> QED
      BY <3>3, <3>7, <3>8 DEF Agrees, Waiting, Under
  <2> QED
    BY <1>6, <2>1, <2>2
<1>11. Lasts
  BY <1>6, <1>8, <1>10 DEF Lasts, OrderInv, TypeInv, TypeOK
<1>12. Agrees("error", LoadedRow(s)')
  BY <1>6, <1>9, <1>10, Frame DEF Agrees
<1>13. /\ k2 \in Busy /\ k2.msg = k.msg /\ k2.target = k.target /\ k2.level = k.level
       /\ k2.todo = k.todo \ {s} /\ k2.bad = TRUE /\ k2.out = << >>
       /\ k2.view = [again EXCEPT !.step[s] = "error"]
  BY <1>1, <1>3, <1>4, MessageTypes DEF Busy, View, StepStatus, ModelStatus
<1>14. k2.view.step = step' /\ k2.view.row = again.row
  BY <1>3, <1>8, <1>13 DEF View
<1>15. \A t \in Step : k2.view.row[t].status \in Under => LoadedRow(t)'.status \in Under \/ Announced(t)
  BY <1>1, <1>3, <1>9, <1>14 DEF Goes, Heard
<1>16. PICK status : status = "error"
  OBVIOUS
<1>17. PICK out \in {<< >>, << <<s>> >>} : out = << >>
  OBVIOUS
<1>18. Moves(k2, k, s, status, out)
  BY <1>13, <1>14, <1>15, <1>16, <1>17 DEF Moves
<1>19. /\ status \in {"done", "error"} \cup Waiting \cup Under
       /\ status \notin Waiting /\ status \notin Under
       /\ Agrees(status, LoadedRow(s)') /\ Puts(step', step, s, status)
  BY <1>8, <1>12, <1>16 DEF Waiting, Under
<1>20. Puts(worker', worker, w, c) /\ UNCHANGED wf
  BY <1>6 DEF Puts
<1> QED
  BY <1>1, <1>5, <1>6, <1>9, <1>10, <1>11, <1>13, <1>17, <1>18, <1>19, <1>20, Handled

-----------------------------------------------------------------------------
(* No stall.                                                               *)

LEMMA InitStall == ASSUME Init PROVE StallInv
<1>1. TypeInv
  BY InitType
<1>2. /\ step = [s \in Step |-> "pending"] /\ wf = "pending" /\ \A w \in Worker : worker[w] = Idle
  BY DEF Init
<1>3. Begun(step)
  BY <1>2 DEF Begun
<1>4. \A s \in Step : Turn(s)
  BY <1>2 DEF Turn, Agrees, Waiting, Under
<1>5. AllGo /\ Driven
  BY <1>2 DEF AllGo, Driven
<1> QED
  BY <1>3, <1>4, <1>5 DEF StallInv, Pursued

\* What has been lost stays lost.
LEMMA DroppedGrows == ASSUME [Next]_vars PROVE dropped \subseteq dropped'
<1>1. ASSUME NEW w \in Worker, Receive(w) PROVE dropped \subseteq dropped'
  BY <1>1 DEF Receive
<1>2. ASSUME NEW w \in Worker, Enter(w) PROVE dropped \subseteq dropped'
  BY <1>2 DEF Enter
<1>3. ASSUME NEW w \in Worker, Order(w) PROVE dropped \subseteq dropped'
  BY <1>3 DEF Order, Commits
<1>4. ASSUME NEW w \in Worker, Create(w) PROVE dropped \subseteq dropped'
  BY <1>4 DEF Create
<1>5. ASSUME NEW w \in Worker, Conclude(w) \/ Finish(w) PROVE dropped \subseteq dropped'
  BY <1>5 DEF Conclude, Finish
<1>6. ASSUME NEW w \in Worker, Crash(w) PROVE dropped \subseteq dropped'
  BY <1>6 DEF Crash
<1>7. ASSUME NEW w \in Worker, NEW s \in Step, Claim(w, s) PROVE dropped \subseteq dropped'
  BY <1>7 DEF Claim
<1>8. ASSUME NEW w \in Worker, NEW s \in Step, Follow(w, s) PROVE dropped \subseteq dropped'
  BY <1>8 DEF Follow
<1>9. ASSUME NEW w \in Worker, NEW s \in Step, Ask(w, s) PROVE dropped \subseteq dropped'
  BY <1>9 DEF Ask, Commits
<1>10. ASSUME NEW w \in Worker, NEW s \in Step, Raise(w, s) PROVE dropped \subseteq dropped'
  BY <1>10 DEF Raise
<1>11. ASSUME NEW r \in Res, StartTask(r) PROVE dropped \subseteq dropped'
  BY <1>11 DEF StartTask
<1>12. ASSUME NEW r \in Res, EndTask(r) PROVE dropped \subseteq dropped'
  BY <1>12 DEF EndTask
<1>13. CASE Execute
  BY <1>13 DEF Execute
<1>14. CASE UNCHANGED vars
  BY <1>14 DEF vars
<1> QED
  BY <1>1, <1>2, <1>3, <1>4, <1>5, <1>6, <1>7, <1>8, <1>9, <1>10, <1>11, <1>12, <1>13, <1>14
  DEF Next, Handle, Tasks

LEMMA NextStall ==
    ASSUME CascadesAccepted, CascadesGated, OrderInv, OrderInv', HandlersApart, HandlersApart',
           StallInv, [Next]_vars
    PROVE  StallInv'
<1> SUFFICES ASSUME dropped' = {} PROVE Pursued'
  BY DEF StallInv
<1>0. \A w \in Worker : Receive(w) \/ Handle(w) \/ Crash(w) => Alone(w) /\ Alone(w)'
  BY OnesAtWork DEF OrderInv
<1>1. Pursued
  BY DroppedGrows DEF StallInv
<1>2. TypeInv'
  BY DEF OrderInv
<1>3. ASSUME NEW w \in Worker, Receive(w) \/ Enter(w) \/ Conclude(w) \/ Finish(w) \/ Crash(w)
      PROVE  Pursued'
  BY <1>0, <1>1, <1>2, <1>3, ReceiveStall, EnterStall, ConcludeStall, FinishStall, CrashStall
  DEF Handle
<1>4. ASSUME NEW w \in Worker, Order(w) \/ Create(w) PROVE Pursued'
  BY <1>0, <1>1, <1>2, <1>4, OrderStall, CreateStall DEF Handle
<1>5. ASSUME NEW w \in Worker, NEW s \in Step,
             Claim(w, s) \/ Follow(w, s) \/ Ask(w, s) \/ Raise(w, s)
      PROVE  Pursued'
  BY <1>0, <1>1, <1>2, <1>5, ClaimStall, FollowStall, AskStall, RaiseStall DEF Handle
<1>6. ASSUME NEW r \in Res, StartTask(r) \/ EndTask(r) PROVE Pursued'
  BY <1>1, <1>2, <1>6, StartTaskStall, EndTaskStall
<1>7. ASSUME Execute \/ UNCHANGED vars PROVE Pursued'
  BY <1>1, <1>7, ExecuteStall, StutterStall
<1> QED
  BY <1>3, <1>4, <1>5, <1>6, <1>7 DEF Next, Handle, Tasks

\* A workflow that waits for nothing has come to an end.  As long as it says
\* IN_PROGRESS some step waits for its resource, whose task, or the callback that
\* announces its end, is still on its way; or a message that will make a worker
\* come back to the step is: unless a step has lost its turn.
THEOREM NeverStalls ==
    ASSUME CascadesAccepted, CascadesGated PROVE Spec /\ []HandlersApart => []NoSilentStall
<1>1. OrderInv /\ StallInv => NoSilentStall
  <2> SUFFICES ASSUME OrderInv, StallInv, Quiet, wf = "in_progress", dropped = {} PROVE FALSE
    BY DEF NoSilentStall
  <2>1. Pursued /\ msgs = << >> /\ \A w \in Worker : worker[w] = Idle
    BY DEF StallInv, Quiet
  <2>2. PICK s \in Step : step[s] \in Waiting \cup Under
    BY <2>1 DEF Pursued, Driven, Going
  <2>3. ~Spoken(s) /\ ~Announced(s)
    BY <2>1 DEF Spoken, Announced
  <2>4. \A w \in Worker : ~AskedBy(worker[w], s) /\ ~CalledBy(worker[w], s)
    BY <2>1 DEF AskedBy, CalledBy
  <2>5. step[s] \in Under /\ LoadedRow(s).status \in Under
    BY <2>1, <2>2, <2>3, <2>4 DEF Pursued, Turn, Asked, Called
  <2>6. LoadedRow(s) # Absent
    BY <2>5 DEF Absent, Under
  <2>7. link[s] # 0
    BY <2>6 DEF LoadedRow
  <2>8. PICK r \in Res : row[r].status \in Under
    <3>1. <<s, link[s]>> \in Res /\ LoadedRow(s) = row[<<s, link[s]>>]
      BY <2>7 DEF LoadedRow, Res, Numbers, OrderInv, TypeInv, TypeOK
    <3> QED
      BY <2>5, <3>1
  <2>9. task[r] = 0 /\ run[r] = 0
    BY DEF Quiet
  <2> QED
    BY <2>8, <2>9 DEF OrderInv, TasksInv, Under
<1>2. Init => StallInv
  BY InitStall
<1>3. OrderInv /\ OrderInv' /\ HandlersApart /\ HandlersApart' /\ StallInv /\ [Next]_vars
        => StallInv'
  BY NextStall
<1> QED
  BY <1>1, <1>2, <1>3, OrderHolds, PTL DEF Spec

=============================================================================
