------------------------- MODULE BlueprintForm_proofs -------------------------
(***************************************************************************)
(* Theorems about BlueprintForm, for every hierarchy of templates, every   *)
(* set of default wires and constants, and every bound.                    *)
(***************************************************************************)
EXTENDS BlueprintForm, Induction, FiniteSetTheorems, SequenceTheorems, TLAPS

-----------------------------------------------------------------------------
(* Sorting by hierarchy (sortByHierarchy).                                 *)

\* The position in q of the last known parent of t, or 0.
Parents(q, t, known) == {i \in DOMAIN q : t \in known /\ q[i] \in ParentsOf[t]}
LastOf(q, t, known) == Max({0} \cup Parents(q, t, known))

IndexOf(ids, t) == CHOOSE i \in DOMAIN ids : ids[i] = t

\* Kahn's queue takes s before t.
Precedes(q, s, t, ids, known) ==
    \/ LastOf(q, s, known) < LastOf(q, t, known)
    \/ LastOf(q, s, known) = LastOf(q, t, known) /\ IndexOf(ids, s) < IndexOf(ids, t)

Ordered(q, ids, known) ==
    \A i, j \in DOMAIN q : i < j => Precedes(q, q[i], q[j], ids, known)

LEMMA CountInterval ==
    ASSUME NEW n \in Nat
    PROVE  IsFiniteSet(1 .. n) /\ Cardinality(1 .. n) = n
<1>1. 1 \in Int /\ n \in Int
  OBVIOUS
<1>2. IsFiniteSet(1 .. n) /\ Cardinality(1 .. n) = IF 1 > n THEN 0 ELSE n - 1 + 1
  BY <1>1, FS_Interval
<1> QED
  BY <1>2

LEMMA LastParent ==
    ASSUME NEW q \in Seq(Template), NEW t, NEW known
    PROVE  /\ LastOf(q, t, known) \in 0 .. Len(q)
           /\ \A i \in 1 .. Len(q) : t \in known /\ q[i] \in ParentsOf[t] =>
                i <= LastOf(q, t, known)
           /\ LastOf(q, t, known) # 0 =>
                t \in known /\ q[LastOf(q, t, known)] \in ParentsOf[t]
<1>1. PICK n \in Nat : n = Len(q) /\ DOMAIN q = 1 .. n
  BY LenProperties
<1>2. PICK P : P = {0} \cup Parents(q, t, known)
  OBVIOUS
<1>3. P \subseteq 0 .. n
  BY <1>1, <1>2 DEF Parents
<1>4. IsFiniteSet(P)
  <2>1. 0 \in Int /\ n \in Int
    BY <1>1
  <2>2. IsFiniteSet(0 .. n)
    BY <2>1, FS_Interval
  <2> QED
    BY <1>3, <2>2, FS_Subset
<1>5. P \in SUBSET Nat /\ P # {}
  BY <1>2, <1>3
<1>6. Max(P) \in P /\ \A x \in P : Max(P) >= x
  BY <1>4, <1>5, GreatestNatural
<1>7. PICK m : m = Max(P)
  OBVIOUS
<1>8. m \in P /\ \A x \in P : m >= x
  BY <1>6, <1>7
<1>9. m = LastOf(q, t, known)
  BY <1>2, <1>7 DEF LastOf
<1>10. m \in 0 .. n
  BY <1>3, <1>8
<1>11. \A i \in 1 .. n : t \in known /\ q[i] \in ParentsOf[t] => i <= m
  BY <1>1, <1>2, <1>8, <1>10 DEF Parents
<1>12. m # 0 => t \in known /\ q[m] \in ParentsOf[t]
  BY <1>2, <1>8 DEF Parents
<1> QED
  BY <1>1, <1>9, <1>10, <1>11, <1>12

\* A template that is put behind the others changes the position of the last
\* parent of its children only.
LEMMA LastAppend ==
    ASSUME NEW q \in Seq(Template), NEW u \in Template, NEW t, NEW known
    PROVE  LastOf(Append(q, u), t, known) =
              IF t \in known /\ u \in ParentsOf[t] THEN Len(q) + 1 ELSE LastOf(q, t, known)
<1>1. PICK n \in Nat : n = Len(q) /\ DOMAIN q = 1 .. n
  BY LenProperties
<1>2. PICK p : p = Append(q, u)
  OBVIOUS
<1>3. /\ p \in Seq(Template) /\ Len(p) = n + 1 /\ DOMAIN p = 1 .. n + 1
      /\ p[n + 1] = u /\ \A i \in 1 .. n : p[i] = q[i]
  BY <1>1, <1>2, AppendProperties, LenProperties
<1>4. CASE t \in known /\ u \in ParentsOf[t]
  <2>1. LastOf(p, t, known) \in 0 .. n + 1 /\ n + 1 <= LastOf(p, t, known)
    BY <1>3, <1>4, LastParent
  <2> QED
    BY <1>1, <1>2, <1>4, <2>1
<1>5. CASE ~ (t \in known /\ u \in ParentsOf[t])
  <2>1. Parents(p, t, known) = Parents(q, t, known)
    <3>1. n + 1 \notin Parents(p, t, known)
      BY <1>3, <1>5 DEF Parents
    <3>2. Parents(p, t, known) \subseteq 1 .. n + 1 /\ Parents(q, t, known) \subseteq 1 .. n
      BY <1>1, <1>3 DEF Parents
    <3>3. \A i \in 1 .. n : i \in Parents(p, t, known) <=> i \in Parents(q, t, known)
      BY <1>1, <1>3 DEF Parents
    <3>4. \A i \in 1 .. n + 1 : i = n + 1 \/ i \in 1 .. n
      BY <1>1
    <3>5. Parents(p, t, known) \subseteq 1 .. n
      BY <3>1, <3>2, <3>4
    <3> QED
      BY <3>2, <3>3, <3>5
  <2> QED
    BY <1>2, <1>5, <2>1 DEF LastOf
<1> QED
  BY <1>4, <1>5

\* What is left to sort and has nothing left to wait for.
Available(q, ids, known) ==
    {t \in Range(ids) \ Range(q) : t \in known => ParentsOf[t] \cap Range(ids) \subseteq Range(q)}

\* The sequence that Kahn's algorithm has made so far.
SortedSoFar(q, ids, known) ==
    /\ q \in Seq(Template) /\ IsInjective(q) /\ Range(q) \subseteq Range(ids)
    /\ \A t \in Range(q) : t \in known => ParentsOf[t] \cap Range(ids) \subseteq Range(q)
    /\ Ordered(q, ids, known)
    /\ \A t \in Available(q, ids, known), i \in DOMAIN q : Precedes(q, q[i], t, ids, known)

LEMMA Indices ==
    ASSUME NEW ids \in Seq(Template), NEW t \in Range(ids)
    PROVE  IndexOf(ids, t) \in 1 .. Len(ids) /\ ids[IndexOf(ids, t)] = t
<1>1. \E i \in DOMAIN ids : ids[i] = t
  BY DEF Range
<1> QED
  BY <1>1, LenProperties DEF IndexOf

\* The queue has a first element: the least by last parent and by index.
LEMMA FirstInQueue ==
    ASSUME NEW q \in Seq(Template), NEW ids \in Seq(Template), NEW known,
           NEW A \in SUBSET Range(ids), A # {}
    PROVE  \E u \in A : \A t \in A : t # u => Precedes(q, u, t, ids, known)
<1>1. \A t \in A : LastOf(q, t, known) \in Nat /\ IndexOf(ids, t) \in Nat
  BY LastParent, Indices, LenProperties
<1>2. PICK Lasts : Lasts = {LastOf(q, t, known) : t \in A}
  OBVIOUS
<1>3. Lasts \in SUBSET Nat /\ Lasts # {}
  BY <1>1, <1>2
<1>4. PICK m \in Lasts : \A x \in Lasts : m <= x
  BY <1>3, LeastNatural
<1>5. PICK Firsts : Firsts = {t \in A : LastOf(q, t, known) = m}
  OBVIOUS
<1>6. PICK Indexes : Indexes = {IndexOf(ids, t) : t \in Firsts}
  OBVIOUS
<1>7. Firsts # {} /\ Firsts \subseteq A
  BY <1>2, <1>4, <1>5
<1>8. Indexes \in SUBSET Nat /\ Indexes # {}
  BY <1>1, <1>6, <1>7
<1>9. PICK k \in Indexes : \A x \in Indexes : k <= x
  BY <1>8, LeastNatural
<1>10. PICK u \in Firsts : k = IndexOf(ids, u)
  BY <1>6, <1>9
<1>11. ASSUME NEW t \in A, t # u PROVE Precedes(q, u, t, ids, known)
  <2>1. LastOf(q, u, known) = m /\ u \in A
    BY <1>5, <1>10
  <2>2. m <= LastOf(q, t, known)
    BY <1>2, <1>4, <1>11
  <2>3. CASE LastOf(q, t, known) = m
    <3>1. t \in Firsts
      BY <1>5, <1>11, <2>3
    <3>2. k <= IndexOf(ids, t)
      BY <1>6, <1>9, <3>1
    <3>3. IndexOf(ids, t) # k
      BY <1>10, <1>11, <2>1, Indices
    <3>4. k \in Nat /\ IndexOf(ids, t) \in Nat
      BY <1>1, <1>8, <1>9, <1>11
    <3> QED
      BY <1>10, <2>1, <2>3, <3>2, <3>3, <3>4 DEF Precedes
  <2>4. CASE LastOf(q, t, known) # m
    BY <1>1, <1>3, <1>4, <1>11, <2>1, <2>2, <2>4 DEF Precedes
  <2> QED
    BY <2>3, <2>4
<1> QED
  BY <1>5, <1>10, <1>11

\* Until all are sorted there is a next one, as the hierarchy has no cycle.
LEMMA SortedFurther ==
    ASSUME NEW ids \in Seq(Template), NEW known, NEW q, SortedSoFar(q, ids, known),
           Range(q) # Range(ids)
    PROVE  \E u \in Range(ids) \ Range(q) : SortedSoFar(Append(q, u), ids, known)
<1>0. Range(ids) \subseteq Template
  BY ElementOfSeq, LenProperties DEF Range
<1>1. q \in Seq(Template) /\ Range(q) \subseteq Range(ids)
  BY DEF SortedSoFar
<1>2. PICK S : S = Range(ids) \ Range(q)
  OBVIOUS
<1>3. S \in SUBSET Template /\ S # {}
  BY <1>0, <1>1, <1>2
<1>4. PICK t0 \in S : ParentsOf[t0] \cap S = {}
  BY <1>3, HierarchyAssumption
<1>5. PICK A : A = Available(q, ids, known)
  OBVIOUS
<1>6. t0 \in A /\ A \subseteq Range(ids) /\ A \subseteq S
  BY <1>2, <1>4, <1>5 DEF Available
<1>7. PICK u \in A : \A t \in A : t # u => Precedes(q, u, t, ids, known)
  BY <1>1, <1>6, FirstInQueue
<1>8. u \in Template /\ u \in Range(ids) /\ u \notin Range(q)
      /\ (u \in known => ParentsOf[u] \cap Range(ids) \subseteq Range(q))
  BY <1>0, <1>2, <1>5, <1>6, <1>7 DEF Available
<1>9. PICK n \in Nat : n = Len(q) /\ DOMAIN q = 1 .. n
  BY <1>1, LenProperties
<1>10. PICK p : p = Append(q, u)
  OBVIOUS
<1>11. /\ p \in Seq(Template) /\ Len(p) = n + 1 /\ DOMAIN p = 1 .. n + 1
       /\ p[n + 1] = u /\ \A i \in 1 .. n : p[i] = q[i]
  BY <1>1, <1>8, <1>9, <1>10, AppendProperties, LenProperties
<1>12. Range(p) = Range(q) \cup {u}
  BY <1>9, <1>11 DEF Range
<1>13. IsInjective(p)
  <2> SUFFICES ASSUME NEW i \in 1 .. n + 1, NEW j \in 1 .. n + 1, p[i] = p[j] PROVE i = j
    BY <1>11 DEF IsInjective
  <2>1. \A k \in 1 .. n : q[k] \in Range(q) /\ p[k] # u
    BY <1>8, <1>9, <1>11 DEF Range
  <2>2. CASE i = n + 1
    BY <1>11, <2>1, <2>2
  <2>3. CASE j = n + 1
    BY <1>11, <2>1, <2>3
  <2>4. CASE i # n + 1 /\ j # n + 1
    BY <1>9, <1>11, <2>4 DEF SortedSoFar, IsInjective
  <2> QED
    BY <2>2, <2>3, <2>4
<1>14. u \notin ParentsOf[u]
  <2>1. {u} \in SUBSET Template /\ {u} # {}
    BY <1>8
  <2>2. \E t \in {u} : ParentsOf[t] \cap {u} = {}
    BY <2>1, HierarchyAssumption
  <2> QED
    BY <2>2
<1>15. \A t \in Range(p) : t \in known => u \notin ParentsOf[t]
  BY <1>8, <1>12, <1>14 DEF SortedSoFar
<1>16. \A t \in Range(p) : LastOf(p, t, known) = LastOf(q, t, known)
  BY <1>1, <1>8, <1>10, <1>15, LastAppend
<1>17. \A t : LastOf(q, t, known) \in 0 .. n
  BY <1>1, <1>9, LastParent
<1>18. \A t \in Range(p) : t \in known => ParentsOf[t] \cap Range(ids) \subseteq Range(p)
  BY <1>8, <1>12 DEF SortedSoFar
<1>19. \A i \in 1 .. n : q[i] \in Range(q) /\ Precedes(q, q[i], u, ids, known)
  BY <1>5, <1>7, <1>9 DEF SortedSoFar, Range
<1>20. Ordered(p, ids, known)
  <2> SUFFICES ASSUME NEW i \in 1 .. n + 1, NEW j \in 1 .. n + 1, i < j
               PROVE  Precedes(p, p[i], p[j], ids, known)
    BY <1>11 DEF Ordered
  <2>1. i \in 1 .. n /\ p[i] = q[i] /\ p[i] \in Range(p) /\ p[j] \in Range(p)
    BY <1>11 DEF Range
  <2>2. Precedes(q, p[i], p[j], ids, known)
    <3>1. CASE j = n + 1
      BY <1>11, <1>19, <2>1, <3>1
    <3>2. CASE j # n + 1
      <4>1. j \in 1 .. n /\ p[j] = q[j]
        BY <1>11, <3>2
      <4> QED
        BY <1>9, <2>1, <4>1 DEF SortedSoFar, Ordered
    <3> QED
      BY <3>1, <3>2
  <2> QED
    BY <1>16, <2>1, <2>2 DEF Precedes
<1>21. ASSUME NEW t \in Available(p, ids, known), NEW i \in 1 .. n + 1
       PROVE  Precedes(p, p[i], t, ids, known)
  <2>1. /\ t \in Range(ids) /\ t \notin Range(q) /\ t # u
        /\ t \in known => ParentsOf[t] \cap Range(ids) \subseteq Range(q) \cup {u}
    BY <1>12 DEF Available
  <2>2. p[i] \in Range(p)
    BY <1>11 DEF Range
  <2>3. CASE t \in A
    <3>1. t \in known => u \notin ParentsOf[t]
      BY <1>5, <1>8, <2>3 DEF Available
    <3>2. LastOf(p, t, known) = LastOf(q, t, known)
      BY <1>1, <1>8, <1>10, <3>1, LastAppend
    <3>3. Precedes(q, p[i], t, ids, known)
      <4>1. CASE i = n + 1
        BY <1>7, <1>11, <2>1, <2>3, <4>1
      <4>2. CASE i # n + 1
        BY <1>5, <1>9, <1>11, <2>3, <4>2 DEF SortedSoFar
      <4> QED
        BY <4>1, <4>2
    <3> QED
      BY <1>16, <2>2, <3>2, <3>3 DEF Precedes
  <2>4. CASE t \notin A
    <3>1. t \in known /\ u \in ParentsOf[t]
      BY <1>5, <2>1, <2>4 DEF Available
    <3>2. LastOf(p, t, known) = n + 1
      BY <1>1, <1>8, <1>9, <1>10, <3>1, LastAppend
    <3>3. LastOf(p, p[i], known) \in 0 .. n
      BY <1>16, <1>17, <2>2
    <3> QED
      BY <3>2, <3>3 DEF Precedes
  <2> QED
    BY <2>3, <2>4
<1>22. SortedSoFar(p, ids, known)
  BY <1>8, <1>1, <1>11, <1>12, <1>13, <1>18, <1>20, <1>21 DEF SortedSoFar
<1> QED
  BY <1>8, <1>10, <1>22

\* A sequence without repetitions has as many elements as its range, and is one of
\* the permutations of it.
LEMMA Permutation ==
    ASSUME NEW q \in Seq(Template), IsInjective(q)
    PROVE  IsFiniteSet(Range(q)) /\ q \in SetToSeqs(Range(q))
<1>1. PICK n \in Nat : n = Len(q) /\ DOMAIN q = 1 .. n
  BY LenProperties
<1>2. PICK S : S = Range(q)
  OBVIOUS
<1>3. q \in [1 .. n -> S] /\ \A s \in S : \E i \in 1 .. n : q[i] = s
  <2>1. \A i \in 1 .. n : q[i] \in S
    BY <1>1, <1>2 DEF Range
  <2>2. q = [i \in 1 .. n |-> q[i]]
    BY <1>1
  <2> QED
    BY <1>1, <1>2, <2>1, <2>2 DEF Range
<1>4. q \in Surjection(1 .. n, S)
  BY <1>3 DEF Surjection
<1>5. q \in Injection(1 .. n, S)
  BY <1>1, <1>3 DEF Injection, IsInjective
<1>6. IsFiniteSet(1 .. n) /\ Cardinality(1 .. n) = n
  BY <1>1, CountInterval
<1>7. IsFiniteSet(S) /\ Cardinality(S) = n
  BY <1>4, <1>5, <1>6, FS_Surjection
<1>8. \A i, j \in 1 .. n : i # j => q[i] # q[j]
  BY <1>1 DEF IsInjective
<1>9. q \in SetToSeqs(S)
  BY <1>3, <1>7, <1>8 DEF SetToSeqs
<1> QED
  BY <1>2, <1>7, <1>9

\* Kahn's algorithm sorts them all.
LEMMA SortExists ==
    ASSUME NEW ids \in Seq(Template), IsInjective(ids), NEW known
    PROVE  \E q \in SetToSeqs(Range(ids)) : Ordered(q, ids, known)
<1>1. IsFiniteSet(Range(ids))
  BY Permutation
<1>2. PICK F : F = {X \in SUBSET Range(ids) :
                      \E q : SortedSoFar(q, ids, known) /\ X = Range(ids) \ Range(q)}
  OBVIOUS
<1>3. SortedSoFar(<< >>, ids, known)
  BY DEF SortedSoFar, Range, IsInjective, Ordered
<1>4. F # {}
  BY <1>2, <1>3
<1>5. PICK M \in F : \A N \in F : N \subseteq M => N = M
  <2>1. \A X \in F : X \subseteq Range(ids)
    BY <1>2
  <2>2. PICK S : S = Range(ids)
    OBVIOUS
  <2>3. IsFiniteSet(S) /\ \A X \in F : X \subseteq S
    BY <1>1, <2>1, <2>2
  <2> QED
    BY <1>4, <2>3, MinimalSubset
<1>6. PICK q : SortedSoFar(q, ids, known) /\ M = Range(ids) \ Range(q)
  BY <1>2, <1>5
<1>7. Range(q) = Range(ids)
  <2> SUFFICES ASSUME Range(q) # Range(ids) PROVE FALSE
    OBVIOUS
  <2>1. PICK u \in Range(ids) \ Range(q) : SortedSoFar(Append(q, u), ids, known)
    BY <1>6, SortedFurther
  <2>2. PICK N : N = Range(ids) \ Range(Append(q, u))
    OBVIOUS
  <2>3. N \in F
    BY <1>2, <2>1, <2>2
  <2>4. Range(Append(q, u)) = Range(q) \cup {u}
    <3>1. q \in Seq(Template)
      BY <1>6 DEF SortedSoFar
    <3>2. u \in Template
      BY ElementOfSeq, LenProperties DEF Range
    <3>3. /\ Len(Append(q, u)) = Len(q) + 1 /\ DOMAIN Append(q, u) = 1 .. Len(q) + 1
          /\ Append(q, u)[Len(q) + 1] = u
          /\ \A i \in 1 .. Len(q) : Append(q, u)[i] = q[i]
      BY <3>1, <3>2, AppendProperties, LenProperties
    <3>4. Len(q) \in Nat /\ DOMAIN q = 1 .. Len(q)
      BY <3>1, LenProperties
    <3> QED
      BY <3>3, <3>4 DEF Range
  <2> QED
    BY <1>5, <1>6, <2>1, <2>2, <2>3, <2>4
<1>8. q \in SetToSeqs(Range(ids))
  BY <1>6, <1>7, Permutation DEF SortedSoFar
<1> QED
  BY <1>6, <1>8 DEF SortedSoFar

\* What sorting returns: the same templates, in an order in which no known child
\* comes before its parents.
LEMMA Sorted ==
    ASSUME NEW ids \in Seq(Template), IsInjective(ids), NEW known,
           NEW q, q = Hierarchical(ids, known)
    PROVE  /\ q \in Seq(Template) /\ IsInjective(q) /\ Range(q) = Range(ids)
           /\ Range(q) \subseteq known =>
                \A i, j \in DOMAIN q : i < j => q[j] \notin ParentsOf[q[i]]
<1>1. q = CHOOSE p \in SetToSeqs(Range(ids)) : Ordered(p, ids, known)
  BY DEF Hierarchical, Ordered, Precedes, LastOf, Parents, IndexOf
<1>2. q \in SetToSeqs(Range(ids)) /\ Ordered(q, ids, known)
  BY <1>1, SortExists
<1>3. IsFiniteSet(Range(ids))
  BY Permutation
<1>4. PICK n \in Nat : n = Cardinality(Range(ids))
  BY <1>3, FS_CardinalityType
<1>5. q \in [1 .. n -> Range(ids)] /\ \A i, j \in 1 .. n : i # j => q[i] # q[j]
  BY <1>2, <1>4 DEF SetToSeqs
<1>6. Range(ids) \subseteq Template
  BY ElementOfSeq, LenProperties DEF Range
<1>7. q \in Seq(Template) /\ DOMAIN q = 1 .. n
  <2>1. q \in [1 .. n -> Template]
    BY <1>5, <1>6
  <2> QED
    BY <1>4, <2>1, SeqDef
<1>8. IsInjective(q)
  BY <1>5, <1>7 DEF IsInjective
<1>9. Range(q) = Range(ids)
  <2>1. q \in Injection(1 .. n, Range(ids))
    BY <1>5, <1>7, <1>8 DEF Injection, IsInjective
  <2>2. Cardinality(1 .. n) = n
    BY <1>4, CountInterval
  <2>3. q \in Surjection(1 .. n, Range(ids))
    BY <1>3, <1>4, <2>1, <2>2, FS_Injection
  <2>4. \A s \in Range(ids) : \E i \in 1 .. n : q[i] = s
    BY <2>3 DEF Surjection
  <2>5. Range(q) = {q[i] : i \in 1 .. n}
    BY <1>7 DEF Range
  <2> QED
    BY <1>5, <2>4, <2>5
<1>10. ASSUME Range(q) \subseteq known, NEW i \in 1 .. n, NEW j \in 1 .. n, i < j,
              q[j] \in ParentsOf[q[i]]
       PROVE  FALSE
  <2> DEFINE last(k) == LastOf(q, q[k], known)
  <2>1. Len(q) = n
    BY <1>4, <1>7, LenProperties
  <2>2. q[i] \in known /\ last(i) >= j /\ last(i) \in 0 .. n
    BY <1>7, <1>10, <2>1, LastParent DEF Range
  <2>3. \A k \in i .. n : last(k) >= j
    <3> SUFFICES ASSUME NEW k \in i .. n, k # i PROVE last(k) >= j
      BY <2>2
    <3>1. k \in 1 .. n /\ i < k
      OBVIOUS
    <3>2. Precedes(q, q[i], q[k], ids, known)
      BY <1>2, <1>7, <3>1 DEF Ordered
    <3>3. last(k) \in 0 .. n
      BY <1>7, <2>1, LastParent
    <3> QED
      BY <2>2, <3>2, <3>3 DEF Precedes
  <2>4. PICK S : S = {q[k] : k \in i .. n}
    OBVIOUS
  <2>5. S \in SUBSET Template /\ S # {}
    <3>1. \A k \in i .. n : k \in 1 .. n
      OBVIOUS
    <3> QED
      BY <1>5, <1>6, <2>4, <3>1
  <2>6. PICK t \in S : ParentsOf[t] \cap S = {}
    BY <2>5, HierarchyAssumption
  <2>7. PICK k \in i .. n : t = q[k]
    BY <2>4, <2>6
  <2>8. last(k) \in 0 .. n /\ (last(k) # 0 => q[last(k)] \in ParentsOf[t])
    BY <1>7, <2>1, <2>7, LastParent
  <2>9. last(k) >= j
    BY <2>3, <2>7
  <2>10. PICK m : m = last(k)
    OBVIOUS
  <2>11. m \in i .. n /\ q[m] \in ParentsOf[t]
    BY <1>10, <2>8, <2>9, <2>10
  <2> QED
    BY <2>4, <2>6, <2>11
<1> QED
  BY <1>7, <1>8, <1>9, <1>10

-----------------------------------------------------------------------------
(* The invariant.                                                          *)

Rows == [ids : Seq(Template), externals : SUBSET Template, constants : SUBSET Constant,
         wiring : SUBSET Wire, constantWires : SUBSET Wire]
Drafts == [selected : Seq(Template), ids : Seq(Template), externals : SUBSET Template,
           constants : SUBSET Constant, wiring : SUBSET Wire]
Asks == [ids : SUBSET Template, extra : SUBSET Template, wire : BOOLEAN]

\* What is saved and what the server keeps: wires between templates that are
\* there, and wires of constants that are there.
Whole(d, away) ==
    /\ d \in Rows /\ IsInjective(d.ids)
    /\ \A w \in d.constantWires : w[1] \in d.constants
    /\ \A w \in d.wiring :
        /\ w[1] \in Template
        /\ \/ w[1] \in Range(d.ids) \cup d.externals /\ w[2] \in Range(d.ids)
           \/ {w[1], w[2]} \cap away # {}

\* A wire of a constant never outlives it; the others are as WiresFit says.
Wired(d, away, kept) ==
    \A w \in d.wiring :
        /\ w[1] \in Constant => w[1] \in d.constants
        /\ \/ w[1] \in Blocks(d) /\ w[2] \in Range(d.selected)
           \/ {w[1], w[2]} \cap away # {}
           \/ w \in kept

DraftOk(d) ==
    /\ d \in Drafts /\ d.ids = d.selected /\ IsInjective(d.selected)
    /\ Range(d.selected) \cap d.externals = {}

\* A request for default wires names blocks of the canvas, or blocks that were
\* removed meanwhile.
AsksOk(asked, d, away) ==
    /\ IsABag(asked)
    /\ \A q \in BagToSet(asked) :
        /\ q \in Asks
        /\ q.wire => /\ q.ids \subseteq Range(d.selected) \cup away
                     /\ q.extra \subseteq Range(d.selected) \cup d.externals \cup away

RowOk == Whole(row, late) /\ Range(row.ids) \cap row.externals = {}
SavesOk == \A s \in saves : s \in [data : Rows, mine : BOOLEAN] /\ Whole(s.data, late)
CanvasOk == /\ DraftOk(draft) /\ Wired(draft, late, row.constantWires)
            /\ AsksOk(requests, draft, late)
            /\ ports \in [Template -> {"none", "empty", "known"}]
            /\ parents \subseteq Template
RestOk == /\ open \in BOOLEAN /\ stale \in {0, 1, 2} /\ late \subseteq Template
          /\ edits \in 0 .. MaxEdits /\ failures \in 0 .. MaxFailures

FormInv == /\ RowOk /\ SavesOk /\ CanvasOk /\ RestOk
           /\ NothingForgotten /\ SortedWhenQuiet

-----------------------------------------------------------------------------
(* Lists and requests.                                                     *)

\* A template that is removed leaves the order of the others alone.
LEMMA Removal ==
    ASSUME NEW ids \in Seq(Template), IsInjective(ids), NEW t \in Range(ids),
           NEW r, r = RemoveFirst(ids, t)
    PROVE  /\ r \in Seq(Template) /\ IsInjective(r) /\ Range(r) = Range(ids) \ {t}
           /\ \A i, j \in DOMAIN r : i < j =>
                \E k, l \in DOMAIN ids : k < l /\ r[i] = ids[k] /\ r[j] = ids[l]
<1>1. PICK n \in Nat : n = Len(ids) /\ DOMAIN ids = 1 .. n
  BY LenProperties
<1>2. PICK m \in 1 .. n : ids[m] = t /\ r = RemoveAt(ids, m)
  BY <1>1, RemoveFirstIsRemoveAt
<1>3. /\ r \in Seq(Template) /\ Len(r) = n - 1
      /\ \A j \in 1 .. n - 1 : r[j] = IF j < m THEN ids[j] ELSE ids[j + 1]
  BY <1>1, <1>2, RemoveAtElements
<1>4. DOMAIN r = 1 .. n - 1
  BY <1>3, LenProperties
<1>5. PICK at : at = [j \in 1 .. n - 1 |-> IF j < m THEN j ELSE j + 1]
  OBVIOUS
<1>6. \A j \in 1 .. n - 1 : at[j] \in 1 .. n /\ at[j] # m /\ r[j] = ids[at[j]]
  BY <1>1, <1>2, <1>3, <1>5
<1>7. \A i, j \in 1 .. n - 1 : i < j => at[i] < at[j]
  BY <1>1, <1>2, <1>5
<1>8. \A k \in 1 .. n : k # m => \E j \in 1 .. n - 1 : at[j] = k
  <2> SUFFICES ASSUME NEW k \in 1 .. n, k # m PROVE \E j \in 1 .. n - 1 : at[j] = k
    OBVIOUS
  <2>1. CASE k < m
    <3>1. k \in 1 .. n - 1 /\ at[k] = k
      BY <1>1, <1>2, <1>5, <2>1
    <3> QED
      BY <3>1
  <2>2. CASE ~ (k < m)
    <3>1. k - 1 \in 1 .. n - 1 /\ at[k - 1] = k
      BY <1>1, <1>2, <1>5, <2>2
    <3> QED
      BY <3>1
  <2> QED
    BY <2>1, <2>2
<1>9. IsInjective(r)
  <2> SUFFICES ASSUME NEW i \in 1 .. n - 1, NEW j \in 1 .. n - 1, r[i] = r[j] PROVE i = j
    BY <1>4 DEF IsInjective
  <2>1. at[i] = at[j]
    BY <1>1, <1>6 DEF IsInjective
  <2>2. i \in Int /\ j \in Int /\ at[i] \in Int /\ at[j] \in Int
    BY <1>1, <1>6
  <2>3. ~ (i < j) /\ ~ (j < i)
    BY <1>7, <2>1, <2>2
  <2> QED
    BY <2>2, <2>3
<1>10. Range(r) = Range(ids) \ {t}
  <2>1. Range(r) = {r[j] : j \in 1 .. n - 1} /\ Range(ids) = {ids[k] : k \in 1 .. n}
    BY <1>1, <1>4 DEF Range
  <2>2. \A k \in 1 .. n : k # m => ids[k] # t
    BY <1>1, <1>2 DEF IsInjective
  <2>3. ASSUME NEW x \in Range(r) PROVE x \in Range(ids) \ {t}
    BY <1>6, <2>1, <2>2
  <2>4. ASSUME NEW x \in Range(ids) \ {t} PROVE x \in Range(r)
    <3>1. PICK k \in 1 .. n : x = ids[k]
      BY <2>1
    <3>2. PICK j \in 1 .. n - 1 : at[j] = k
      BY <1>2, <1>8, <3>1
    <3> QED
      BY <1>6, <2>1, <3>1, <3>2
  <2> QED
    BY <2>3, <2>4
<1>11. ASSUME NEW i \in 1 .. n - 1, NEW j \in 1 .. n - 1, i < j
       PROVE  \E k, l \in 1 .. n : k < l /\ r[i] = ids[k] /\ r[j] = ids[l]
  BY <1>6, <1>7, <1>11
<1>12. \A i, j \in DOMAIN r : i < j =>
            \E k, l \in DOMAIN ids : k < l /\ r[i] = ids[k] /\ r[j] = ids[l]
  <2> SUFFICES ASSUME NEW i \in DOMAIN r, NEW j \in DOMAIN r, i < j
               PROVE  \E k, l \in DOMAIN ids : k < l /\ r[i] = ids[k] /\ r[j] = ids[l]
    OBVIOUS
  <2>1. i \in 1 .. n - 1 /\ j \in 1 .. n - 1
    BY <1>4
  <2>2. PICK k \in 1 .. n, l \in 1 .. n : k < l /\ r[i] = ids[k] /\ r[j] = ids[l]
    BY <1>11, <2>1
  <2>3. k \in DOMAIN ids /\ l \in DOMAIN ids
    BY <1>1
  <2> QED
    BY <2>2, <2>3
<1> QED
  BY <1>3, <1>9, <1>10, <1>12

\* A template that is added is another one.
LEMMA Addition ==
    ASSUME NEW ids \in Seq(Template), IsInjective(ids), NEW t \in Template, t \notin Range(ids),
           NEW r, r = Append(ids, t)
    PROVE  /\ r \in Seq(Template) /\ IsInjective(r) /\ Range(r) = Range(ids) \cup {t}
<1>1. PICK n \in Nat : n = Len(ids) /\ DOMAIN ids = 1 .. n
  BY LenProperties
<1>2. /\ r \in Seq(Template) /\ DOMAIN r = 1 .. n + 1
      /\ r[n + 1] = t /\ \A i \in 1 .. n : r[i] = ids[i]
  BY <1>1, AppendProperties, LenProperties
<1>3. \A i \in 1 .. n : r[i] # t
  BY <1>1, <1>2 DEF Range
<1>4. \A i \in 1 .. n + 1 : i = n + 1 \/ i \in 1 .. n
  BY <1>1
<1>5. IsInjective(r)
  BY <1>1, <1>2, <1>3, <1>4 DEF IsInjective
<1>6. Range(r) = Range(ids) \cup {t}
  BY <1>1, <1>2, <1>4 DEF Range
<1> QED
  BY <1>2, <1>5, <1>6

\* Requests that are added.
LEMMA BagAdd ==
    ASSUME NEW B, IsABag(B), NEW x, NEW n \in {1, 2}
    PROVE  /\ IsABag(B (+) [q \in {x} |-> n])
           /\ BagToSet(B (+) [q \in {x} |-> n]) = BagToSet(B) \cup {x}
           /\ B (+) [q \in {x} |-> n] # EmptyBag
<1>1. PICK C : C = B (+) [q \in {x} |-> n]
  OBVIOUS
<1>2. IsABag(C) /\ BagToSet(C) = BagToSet(B) \cup {x}
  BY <1>1 DEF IsABag, BagToSet, (+)
<1>3. BagToSet(EmptyBag) = {}
  BY DEF BagToSet, EmptyBag, SetToBag
<1> QED
  BY <1>1, <1>2, <1>3

LEMMA BagAddNone ==
    ASSUME NEW B, IsABag(B)
    PROVE  IsABag(B (+) EmptyBag) /\ BagToSet(B (+) EmptyBag) = BagToSet(B)
  BY DEF IsABag, BagToSet, EmptyBag, SetToBag, (+)

LEMMA BagWithout ==
    ASSUME NEW B, IsABag(B), NEW x
    PROVE  /\ IsABag(B (-) SetToBag({x}))
           /\ BagToSet(B (-) SetToBag({x})) \subseteq BagToSet(B)
  BY DEF IsABag, BagToSet, SetToBag, (-)

LEMMA BagIsEmpty ==
    ASSUME NEW B, IsABag(B)
    PROVE  B = EmptyBag <=> BagToSet(B) = {}
  BY DEF IsABag, BagToSet, EmptyBag, SetToBag

\* The renders after a change: the effect asks for all that is missing.
LEMMA Rendered ==
    ASSUME NEW d \in Drafts, NEW p, NEW known, NEW n \in {1, 2}, NEW others, NEW away,
           AsksOk(others, d, away), Render(d, p, known, n, others)
    PROVE  /\ draft' = d /\ ports' = p /\ parents' = known
           /\ AsksOk(requests', d, away)
           /\ requests' = EmptyBag => others = EmptyBag /\ Missing(d, p, known) = {}
<1>1. PICK missing : missing = Missing(d, p, known)
  OBVIOUS
<1>2. missing \subseteq Template
  BY <1>1, ElementOfSeq, LenProperties DEF Missing, Drafts, Range
<1>3. CASE missing = {}
  <2>1. requests' = others (+) EmptyBag
    BY <1>1, <1>3 DEF Render
  <2>2. IsABag(requests') /\ BagToSet(requests') = BagToSet(others)
    BY <2>1, BagAddNone DEF AsksOk
  <2>3. requests' = EmptyBag => others = EmptyBag
    BY <2>2, BagIsEmpty DEF AsksOk
  <2> QED
    BY <1>1, <1>3, <2>2, <2>3 DEF Render, AsksOk
<1>4. CASE missing # {}
  <2>1. PICK x : x = Request(missing, {}, FALSE)
    OBVIOUS
  <2>2. x \in Asks /\ ~ x.wire
    BY <1>2, <2>1 DEF Request, Asks
  <2>3. requests' = others (+) [q \in {x} |-> n]
    BY <1>1, <1>4, <2>1 DEF Render
  <2>4. /\ IsABag(requests') /\ BagToSet(requests') = BagToSet(others) \cup {x}
        /\ requests' # EmptyBag
    BY <2>3, BagAdd DEF AsksOk
  <2> QED
    BY <2>2, <2>4 DEF Render, AsksOk
<1> QED
  BY <1>3, <1>4

\* The request for the default wires, where there are two blocks.
LEMMA AutoWired ==
    ASSUME NEW d \in Drafts, NEW away, AsksOk(requests, d, away), NEW asked, asked = AutoWire(d)
    PROVE  /\ AsksOk(asked, d, away)
           /\ asked = EmptyBag => requests = EmptyBag /\ Len(d.selected) < 2
<1>1. Range(d.selected) \subseteq Template /\ d.externals \subseteq Template
  BY ElementOfSeq, LenProperties DEF Drafts, Range
<1>2. Len(d.selected) \in Nat
  BY LenProperties DEF Drafts
<1>3. CASE Len(d.selected) >= 2 \/ (Len(d.selected) = 1 /\ d.externals # {})
  <2>1. PICK x : x = Request(Range(d.selected), d.externals, TRUE)
    OBVIOUS
  <2>2. x \in Asks /\ x.ids = Range(d.selected) /\ x.extra = d.externals
    BY <1>1, <2>1 DEF Request, Asks
  <2>3. SetToBag({x}) = [q \in {x} |-> 1]
    BY DEF SetToBag
  <2>4. asked = requests (+) [q \in {x} |-> 1]
    BY <1>3, <2>1, <2>3 DEF AutoWire
  <2>5. /\ IsABag(asked) /\ BagToSet(asked) = BagToSet(requests) \cup {x}
        /\ asked # EmptyBag
    BY <2>4, BagAdd DEF AsksOk
  <2> QED
    BY <2>2, <2>5 DEF AsksOk
<1>4. CASE ~ (Len(d.selected) >= 2 \/ (Len(d.selected) = 1 /\ d.externals # {}))
  <2>1. asked = requests
    BY <1>4 DEF AutoWire
  <2> QED
    BY <1>2, <1>4, <2>1
<1> QED
  BY <1>3, <1>4

-----------------------------------------------------------------------------
(* The user at the canvas.                                                 *)

\* What was saved stays whole when more blocks are noted as removed.
LEMMA StillWhole ==
    ASSUME NEW d, NEW away, NEW more, away \subseteq more, Whole(d, away)
    PROVE  Whole(d, more)
  BY DEF Whole

LEMMA CanvasAside ==
    ASSUME FormInv, OnCanvas, late \subseteq late', late' \subseteq Template
    PROVE  RowOk' /\ SavesOk' /\ RestOk'
<1>1. UNCHANGED <<row, open, saves, failures, stale>>
  BY DEF OnCanvas
<1>2. RowOk'
  BY <1>1, StillWhole DEF FormInv, RowOk
<1>3. SavesOk'
  BY <1>1, StillWhole DEF FormInv, SavesOk
<1>4. edits' \in 0 .. MaxEdits
  BY BoundsAssumption DEF OnCanvas, Edit, FormInv, RestOk
<1> QED
  BY <1>1, <1>2, <1>3, <1>4 DEF FormInv, RestOk

\* Where the templates and what is known of them stay, nothing more is missing.
LEMMA QuietKept ==
    ASSUME FormInv, UNCHANGED <<open, stale, ports, parents>>,
           draft'.selected = draft.selected, requests' = EmptyBag => requests = EmptyBag
    PROVE  NothingForgotten' /\ SortedWhenQuiet'
  BY DEF FormInv, NothingForgotten, SortedWhenQuiet

LEMMA NothingMissing ==
    ASSUME NEW d, NEW p, NEW known, Missing(d, p, known) = {}
    PROVE  \A t \in Range(d.selected) : t \in known /\ p[t] # "none"
  BY DEF Missing

LEMMA AddTemplateKeeps ==
    ASSUME FormInv, NEW t \in Template, AddTemplate(t)
    PROVE  FormInv'
<1>1. PICK ids : ids = Append(draft.selected, t)
  OBVIOUS
<1>2. PICK d : d = [draft EXCEPT !.selected = ids, !.ids = ids]
  OBVIOUS
<1>3. draft \in Drafts /\ IsInjective(draft.selected) /\ draft.selected \in Seq(Template)
  BY DEF FormInv, CanvasOk, DraftOk, Drafts
<1>4. t \notin Range(draft.selected) /\ t \notin draft.externals
  BY DEF AddTemplate, Offered
<1>5. ids \in Seq(Template) /\ IsInjective(ids) /\ Range(ids) = Range(draft.selected) \cup {t}
  BY <1>1, <1>3, <1>4, Addition
<1>6. /\ d \in Drafts /\ d.selected = ids /\ d.ids = ids /\ d.externals = draft.externals
      /\ d.constants = draft.constants /\ d.wiring = draft.wiring
  BY <1>2, <1>3, <1>5 DEF Drafts
<1>7. late' = late /\ OnCanvas
  BY DEF AddTemplate
<1>8. AsksOk(requests, d, late)
  BY <1>5, <1>6 DEF FormInv, CanvasOk, AsksOk
<1>9. PICK asked : asked = AutoWire(d)
  OBVIOUS
<1>10. AsksOk(asked, d, late) /\ (asked = EmptyBag => requests = EmptyBag /\ Len(d.selected) < 2)
  BY <1>6, <1>8, <1>9, AutoWired
<1>11. Render(d, ports, parents, 1, asked)
  BY <1>1, <1>2, <1>9 DEF AddTemplate, Reordered
<1>12. /\ draft' = d /\ ports' = ports /\ parents' = parents /\ AsksOk(requests', d, late)
       /\ requests' = EmptyBag => asked = EmptyBag /\ Missing(d, ports, parents) = {}
  BY <1>6, <1>10, <1>11, Rendered
<1>13. row' = row /\ open' = open
  BY <1>7 DEF OnCanvas
<1>14. Wired(d, late, row.constantWires)
  BY <1>5, <1>6 DEF FormInv, CanvasOk, Wired, Blocks
<1>15. DraftOk(d)
  BY <1>4, <1>5, <1>6 DEF DraftOk, FormInv, CanvasOk
<1>16. CanvasOk'
  BY <1>7, <1>12, <1>13, <1>14, <1>15 DEF FormInv, CanvasOk
<1>17. NothingForgotten'
  BY <1>12, NothingMissing DEF NothingForgotten
<1>18. SortedWhenQuiet'
  <2> SUFFICES ASSUME requests' = EmptyBag, NEW i \in DOMAIN ids, NEW j \in DOMAIN ids, i < j
               PROVE  FALSE
    BY <1>6, <1>12 DEF SortedWhenQuiet
  <2>1. Len(ids) < 2 /\ DOMAIN ids = 1 .. Len(ids) /\ Len(ids) \in Nat
    BY <1>5, <1>6, <1>10, <1>12, LenProperties
  <2> QED
    BY <2>1
<1> QED
  BY <1>7, <1>16, <1>17, <1>18, CanvasAside DEF FormInv, RestOk

LEMMA RemoveTemplateKeeps ==
    ASSUME FormInv, NEW t \in Template, RemoveTemplate(t)
    PROVE  FormInv'
<1>1. t \in Range(draft.selected) /\ OnCanvas
      /\ late' = (IF Wiring(t) THEN late \cup {t} ELSE late)
  BY DEF RemoveTemplate
<1>2. /\ draft \in Drafts /\ IsInjective(draft.selected) /\ draft.selected \in Seq(Template)
      /\ draft.ids = draft.selected
  BY DEF FormInv, CanvasOk, DraftOk, Drafts
<1>3. PICK ids : ids = RemoveFirst(draft.selected, t)
  OBVIOUS
<1>4. /\ ids \in Seq(Template) /\ IsInjective(ids) /\ Range(ids) = Range(draft.selected) \ {t}
      /\ \A i, j \in DOMAIN ids : i < j =>
            \E k, l \in DOMAIN draft.selected :
                k < l /\ ids[i] = draft.selected[k] /\ ids[j] = draft.selected[l]
  BY <1>1, <1>2, <1>3, Removal
<1>5. PICK wires : wires = {w \in draft.wiring : w[1] # t /\ w[2] # t}
  OBVIOUS
<1>6. PICK d : d = [draft EXCEPT !.selected = ids, !.ids = ids, !.wiring = wires]
  OBVIOUS
<1>7. d = Without(draft, t)
  BY <1>2, <1>3, <1>5, <1>6 DEF Without, Drafts
<1>8. /\ d \in Drafts /\ d.selected = ids /\ d.ids = ids /\ d.externals = draft.externals
      /\ d.constants = draft.constants /\ d.wiring = wires
  BY <1>2, <1>4, <1>5, <1>6 DEF Drafts
<1>9. late \subseteq late' /\ late' \subseteq Template
  BY <1>1 DEF FormInv, RestOk
<1>10. PICK away : away = late'
  OBVIOUS
<1>11. AsksOk(requests, d, away)
  <2> SUFFICES ASSUME NEW q \in BagToSet(requests), q.wire
               PROVE  /\ q.ids \subseteq Range(ids) \cup away
                      /\ q.extra \subseteq Range(ids) \cup draft.externals \cup away
    BY <1>8 DEF FormInv, CanvasOk, AsksOk
  <2>1. /\ q.ids \subseteq Range(draft.selected) \cup late
        /\ q.extra \subseteq Range(draft.selected) \cup draft.externals \cup late
    BY DEF FormInv, CanvasOk, AsksOk
  <2>2. t \in away \/ t \notin q.ids \cup q.extra
    BY <1>1, <1>10 DEF Wiring
  <2> QED
    BY <1>4, <1>9, <1>10, <2>1, <2>2
<1>12. PICK p : p = [ports EXCEPT ![t] = "none"]
  OBVIOUS
<1>13. Render(d, p, parents, 1, requests)
  BY <1>7, <1>12 DEF RemoveTemplate
<1>14. /\ draft' = d /\ ports' = p /\ parents' = parents /\ AsksOk(requests', d, away)
       /\ requests' = EmptyBag => requests = EmptyBag /\ Missing(d, p, parents) = {}
  BY <1>8, <1>11, <1>13, Rendered
<1>15. UNCHANGED <<row, open, stale>>
  BY <1>1 DEF OnCanvas
<1>16. Wired(d, away, row.constantWires)
  <2> SUFFICES ASSUME NEW w \in wires
               PROVE  /\ w[1] \in Constant => w[1] \in d.constants
                      /\ \/ w[1] \in Blocks(d) /\ w[2] \in Range(d.selected)
                         \/ {w[1], w[2]} \cap away # {}
                         \/ w \in row.constantWires
    BY <1>8 DEF Wired
  <2>1. w \in draft.wiring /\ w[1] # t /\ w[2] # t
    BY <1>5
  <2>2. Wired(draft, late, row.constantWires)
    BY DEF FormInv, CanvasOk
  <2> QED
    BY <1>4, <1>8, <1>9, <1>10, <2>1, <2>2 DEF Wired, Blocks
<1>17. DraftOk(d)
  BY <1>4, <1>8 DEF DraftOk, FormInv, CanvasOk
<1>18. p \in [Template -> {"none", "empty", "known"}]
  BY <1>12 DEF FormInv, CanvasOk
<1>19. CanvasOk'
  BY <1>10, <1>14, <1>15, <1>16, <1>17, <1>18 DEF FormInv, CanvasOk
<1>20. NothingForgotten'
  BY <1>14, NothingMissing DEF NothingForgotten
<1>21. SortedWhenQuiet'
  <2> SUFFICES ASSUME open, stale = 0, requests = EmptyBag,
                      NEW i \in DOMAIN ids, NEW j \in DOMAIN ids, i < j
               PROVE  ids[j] \notin ParentsOf[ids[i]]
    BY <1>8, <1>14, <1>15 DEF SortedWhenQuiet
  <2>1. PICK k \in DOMAIN draft.selected, l \in DOMAIN draft.selected :
            k < l /\ ids[i] = draft.selected[k] /\ ids[j] = draft.selected[l]
    BY <1>4
  <2> QED
    BY <2>1 DEF FormInv, SortedWhenQuiet
<1> QED
  BY <1>1, <1>9, <1>19, <1>20, <1>21, CanvasAside DEF FormInv, RestOk

\* The changes that leave the templates alone.
LEMMA ElsewhereKeeps ==
    ASSUME FormInv, OnCanvas, UNCHANGED <<ports, parents>>,
           late \subseteq late', late' \subseteq Template,
           NEW d \in Drafts, draft' = d, d.selected = draft.selected, d.ids = draft.ids,
           Range(d.selected) \cap d.externals = {},
           Wired(d, late', row.constantWires), AsksOk(requests', d, late'),
           requests' = EmptyBag => requests = EmptyBag
    PROVE  FormInv'
<1>1. UNCHANGED <<row, open, stale>>
  BY DEF OnCanvas
<1>2. CanvasOk'
  BY <1>1 DEF FormInv, CanvasOk, DraftOk
<1> QED
  BY <1>1, <1>2, CanvasAside, QuietKept DEF FormInv

LEMMA AddExternalKeeps ==
    ASSUME FormInv, NEW t \in Template, AddExternal(t)
    PROVE  FormInv'
<1>1. OnCanvas /\ t \notin Range(draft.selected) /\ UNCHANGED <<ports, parents, late>>
  BY DEF AddExternal, MissingParents
<1>2. PICK d : d = [draft EXCEPT !.externals = draft.externals \cup {t}]
  OBVIOUS
<1>3. draft \in Drafts /\ Range(draft.selected) \cap draft.externals = {}
  BY DEF FormInv, CanvasOk, DraftOk
<1>4. draft' = d
  BY <1>2, <1>3 DEF AddExternal, Drafts
<1>5. /\ d \in Drafts /\ d.selected = draft.selected /\ d.ids = draft.ids
      /\ d.externals = draft.externals \cup {t}
      /\ d.constants = draft.constants /\ d.wiring = draft.wiring
  BY <1>2, <1>3 DEF Drafts
<1>6. AsksOk(requests, d, late)
  BY <1>5 DEF FormInv, CanvasOk, AsksOk
<1>7. requests' = AutoWire(d)
  BY <1>4 DEF AddExternal, AutoWire
<1>8. AsksOk(requests', d, late) /\ (requests' = EmptyBag => requests = EmptyBag)
  BY <1>5, <1>6, <1>7, AutoWired
<1>9. Wired(d, late, row.constantWires)
  BY <1>5 DEF FormInv, CanvasOk, Wired, Blocks
<1>10. late \subseteq late' /\ late' \subseteq Template
  BY <1>1 DEF FormInv, RestOk
<1>11. Wired(d, late', row.constantWires) /\ AsksOk(requests', d, late')
  BY <1>1, <1>8, <1>9
<1>12. Range(d.selected) \cap d.externals = {}
  BY <1>1, <1>3, <1>5
<1> QED
  BY <1>1, <1>4, <1>5, <1>8, <1>10, <1>11, <1>12, ElsewhereKeeps

LEMMA RemoveExternalKeeps ==
    ASSUME FormInv, NEW t \in Template, RemoveExternal(t)
    PROVE  FormInv'
<1>1. /\ OnCanvas /\ UNCHANGED <<ports, parents, requests>>
      /\ late' = (IF Wiring(t) THEN late \cup {t} ELSE late)
  BY DEF RemoveExternal
<1>2. PICK wires : wires = {w \in draft.wiring : w[1] # t}
  OBVIOUS
<1>3. PICK d : d = [draft EXCEPT !.externals = draft.externals \ {t}, !.wiring = wires]
  OBVIOUS
<1>4. draft \in Drafts /\ Range(draft.selected) \cap draft.externals = {}
  BY DEF FormInv, CanvasOk, DraftOk
<1>5. draft' = d
  BY <1>2, <1>3, <1>4 DEF RemoveExternal, Drafts
<1>6. /\ d \in Drafts /\ d.selected = draft.selected /\ d.ids = draft.ids
      /\ d.externals = draft.externals \ {t}
      /\ d.constants = draft.constants /\ d.wiring = wires
  BY <1>2, <1>3, <1>4 DEF Drafts
<1>7. PICK away : away = late'
  OBVIOUS
<1>8. late \subseteq away /\ away \subseteq Template
  BY <1>1, <1>7 DEF FormInv, RestOk
<1>9. AsksOk(requests, d, away)
  <2> SUFFICES ASSUME NEW q \in BagToSet(requests), q.wire
               PROVE  /\ q.ids \subseteq Range(d.selected) \cup away
                      /\ q.extra \subseteq Range(d.selected) \cup d.externals \cup away
    BY DEF FormInv, CanvasOk, AsksOk
  <2>1. /\ q.ids \subseteq Range(draft.selected) \cup late
        /\ q.extra \subseteq Range(draft.selected) \cup draft.externals \cup late
    BY DEF FormInv, CanvasOk, AsksOk
  <2>2. t \in away \/ t \notin q.ids \cup q.extra
    BY <1>1, <1>7 DEF Wiring
  <2> QED
    BY <1>6, <1>8, <2>1, <2>2
<1>10. Wired(d, away, row.constantWires)
  <2> SUFFICES ASSUME NEW w \in wires
               PROVE  /\ w[1] \in Constant => w[1] \in d.constants
                      /\ \/ w[1] \in Blocks(d) /\ w[2] \in Range(d.selected)
                         \/ {w[1], w[2]} \cap away # {}
                         \/ w \in row.constantWires
    BY <1>6 DEF Wired
  <2>1. w \in draft.wiring /\ w[1] # t
    BY <1>2
  <2>2. Wired(draft, late, row.constantWires)
    BY DEF FormInv, CanvasOk
  <2> QED
    BY <1>6, <1>8, <2>1, <2>2 DEF Wired, Blocks
<1>11. AsksOk(requests', d, late') /\ Wired(d, late', row.constantWires)
  BY <1>1, <1>7, <1>9, <1>10
<1>12. Range(d.selected) \cap d.externals = {}
  BY <1>4, <1>6
<1> QED
  BY <1>1, <1>5, <1>6, <1>7, <1>8, <1>11, <1>12, ElsewhereKeeps

\* Changes of constants and of wires: blocks and requests stay, but for the
\* constants.
LEMMA WiresKeep ==
    ASSUME FormInv, OnCanvas, UNCHANGED <<ports, parents, requests, late>>,
           NEW constants \in SUBSET Constant, NEW wires \in SUBSET Wire,
           draft' = [draft EXCEPT !.constants = constants, !.wiring = wires],
           \A w \in wires :
                /\ w[1] \in Constant => w[1] \in constants
                /\ \/ /\ w[1] \in Range(draft.selected) \cup draft.externals \cup constants
                      /\ w[2] \in Range(draft.selected)
                   \/ {w[1], w[2]} \cap late # {}
                   \/ w \in row.constantWires
    PROVE  FormInv'
<1>1. draft \in Drafts /\ Range(draft.selected) \cap draft.externals = {}
  BY DEF FormInv, CanvasOk, DraftOk
<1>2. PICK d : d = draft'
  OBVIOUS
<1>3. /\ d \in Drafts /\ d.selected = draft.selected /\ d.ids = draft.ids
      /\ d.externals = draft.externals /\ d.constants = constants /\ d.wiring = wires
  BY <1>1, <1>2 DEF Drafts
<1>4. Wired(d, late, row.constantWires)
  BY <1>3 DEF Wired, Blocks
<1>5. AsksOk(requests, d, late)
  BY <1>3 DEF FormInv, CanvasOk, AsksOk
<1>6. late \subseteq late' /\ late' \subseteq Template
  BY DEF FormInv, RestOk
<1>7. Wired(d, late', row.constantWires) /\ AsksOk(requests', d, late')
  BY <1>4, <1>5
<1>8. Range(d.selected) \cap d.externals = {}
  BY <1>1, <1>3
<1> QED
  BY <1>2, <1>3, <1>6, <1>7, <1>8, ElsewhereKeeps

LEMMA ConstantsKeep ==
    ASSUME FormInv, NEW c \in Constant, AddConstant(c) \/ RemoveConstant(c)
    PROVE  FormInv'
<1>1. OnCanvas /\ UNCHANGED <<ports, parents, requests, late>>
  BY DEF AddConstant, RemoveConstant
<1>2. draft \in Drafts /\ Wired(draft, late, row.constantWires)
  BY DEF FormInv, CanvasOk, DraftOk
<1>3. draft.wiring \in SUBSET Wire /\ draft.constants \in SUBSET Constant
  BY <1>2 DEF Drafts
<1>4. CASE AddConstant(c)
  <2>1. PICK constants : constants = draft.constants \cup {c}
    OBVIOUS
  <2>2. PICK wires : wires = draft.wiring
    OBVIOUS
  <2>3. draft' = [draft EXCEPT !.constants = constants, !.wiring = wires]
    BY <1>2, <1>4, <2>1, <2>2 DEF AddConstant, Drafts
  <2>4. constants \in SUBSET Constant /\ wires \in SUBSET Wire
    BY <1>3, <2>1, <2>2
  <2>5. \A w \in wires :
            /\ w[1] \in Constant => w[1] \in constants
            /\ \/ /\ w[1] \in Range(draft.selected) \cup draft.externals \cup constants
                  /\ w[2] \in Range(draft.selected)
               \/ {w[1], w[2]} \cap late # {}
               \/ w \in row.constantWires
    BY <1>2, <2>1, <2>2 DEF Wired, Blocks
  <2> QED
    BY <1>1, <2>3, <2>4, <2>5, WiresKeep
<1>5. CASE RemoveConstant(c)
  <2>1. PICK constants : constants = draft.constants \ {c}
    OBVIOUS
  <2>2. PICK wires : wires = {w \in draft.wiring : w[1] # c}
    OBVIOUS
  <2>3. draft' = [draft EXCEPT !.constants = constants, !.wiring = wires]
    BY <1>2, <1>5, <2>1, <2>2 DEF RemoveConstant, Drafts
  <2>4. constants \in SUBSET Constant /\ wires \in SUBSET Wire
    BY <1>3, <2>1, <2>2
  <2>5. \A w \in wires :
            /\ w[1] \in Constant => w[1] \in constants
            /\ \/ /\ w[1] \in Range(draft.selected) \cup draft.externals \cup constants
                  /\ w[2] \in Range(draft.selected)
               \/ {w[1], w[2]} \cap late # {}
               \/ w \in row.constantWires
    BY <1>2, <2>1, <2>2 DEF Wired, Blocks
  <2> QED
    BY <1>1, <2>3, <2>4, <2>5, WiresKeep
<1> QED
  BY <1>4, <1>5

LEMMA ConnectKeeps ==
    ASSUME FormInv, NEW s \in Template \cup Constant, NEW t \in Template, Connect(s, t)
    PROVE  FormInv'
<1>1. OnCanvas /\ UNCHANGED <<ports, parents, requests, late>>
  BY DEF Connect
<1>2. draft \in Drafts /\ Wired(draft, late, row.constantWires)
  BY DEF FormInv, CanvasOk, DraftOk
<1>3. draft.wiring \in SUBSET Wire /\ draft.constants \in SUBSET Constant
      /\ draft.externals \subseteq Template /\ Range(draft.selected) \subseteq Template
  BY <1>2, ElementOfSeq, LenProperties DEF Drafts, Range
<1>4. s \in Blocks(draft) /\ t \in Range(draft.selected)
  BY DEF Connect
<1>5. s \in Constant => s \in draft.constants
  BY <1>3, <1>4, ConstantsAssumption DEF Blocks
<1>6. PICK wires : wires = draft.wiring \cup {<<s, t>>}
  OBVIOUS
<1>7. PICK constants : constants = draft.constants
  OBVIOUS
<1>8. draft' = [draft EXCEPT !.constants = constants, !.wiring = wires]
  BY <1>2, <1>6, <1>7 DEF Connect, Drafts
<1>9. constants \in SUBSET Constant /\ wires \in SUBSET Wire
  BY <1>3, <1>6, <1>7 DEF Wire
<1>10. \A w \in wires :
            /\ w[1] \in Constant => w[1] \in constants
            /\ \/ /\ w[1] \in Range(draft.selected) \cup draft.externals \cup constants
                  /\ w[2] \in Range(draft.selected)
               \/ {w[1], w[2]} \cap late # {}
               \/ w \in row.constantWires
  <2> SUFFICES ASSUME NEW w \in wires
               PROVE  /\ w[1] \in Constant => w[1] \in constants
                      /\ \/ /\ w[1] \in Range(draft.selected) \cup draft.externals \cup constants
                            /\ w[2] \in Range(draft.selected)
                         \/ {w[1], w[2]} \cap late # {}
                         \/ w \in row.constantWires
    OBVIOUS
  <2>1. CASE w \in draft.wiring
    BY <1>2, <1>7, <2>1 DEF Wired, Blocks
  <2>2. CASE w = <<s, t>>
    BY <1>4, <1>5, <1>7, <2>2 DEF Blocks
  <2> QED
    BY <1>6, <2>1, <2>2
<1> QED
  BY <1>1, <1>8, <1>9, <1>10, WiresKeep

LEMMA DisconnectKeeps ==
    ASSUME FormInv, NEW u \in draft.wiring, Disconnect(u)
    PROVE  FormInv'
<1>1. OnCanvas /\ UNCHANGED <<ports, parents, requests, late>>
  BY DEF Disconnect
<1>2. draft \in Drafts /\ Wired(draft, late, row.constantWires)
  BY DEF FormInv, CanvasOk, DraftOk
<1>3. draft.wiring \in SUBSET Wire /\ draft.constants \in SUBSET Constant
  BY <1>2 DEF Drafts
<1>4. PICK wires : wires = draft.wiring \ {u}
  OBVIOUS
<1>5. PICK constants : constants = draft.constants
  OBVIOUS
<1>6. draft' = [draft EXCEPT !.constants = constants, !.wiring = wires]
  BY <1>2, <1>4, <1>5 DEF Disconnect, Drafts
<1>7. constants \in SUBSET Constant /\ wires \in SUBSET Wire
  BY <1>3, <1>4, <1>5
<1>8. \A w \in wires :
            /\ w[1] \in Constant => w[1] \in constants
            /\ \/ /\ w[1] \in Range(draft.selected) \cup draft.externals \cup constants
                  /\ w[2] \in Range(draft.selected)
               \/ {w[1], w[2]} \cap late # {}
               \/ w \in row.constantWires
  BY <1>2, <1>4, <1>5 DEF Wired, Blocks
<1> QED
  BY <1>1, <1>6, <1>7, <1>8, WiresKeep

-----------------------------------------------------------------------------
(* Opening, closing and saving.                                            *)

LEMMA Unmounted ==
    ASSUME Unmount, late' \subseteq Template
    PROVE  CanvasOk' /\ NothingForgotten' /\ SortedWhenQuiet'
<1>1. PICK d : d = EmptyDraft
  OBVIOUS
<1>2. /\ d \in Drafts /\ d.selected = << >> /\ d.ids = << >> /\ d.externals = {} /\ d.wiring = {}
  BY <1>1 DEF EmptyDraft, Drafts
<1>3. DOMAIN << >> = {} /\ Range(<< >>) = {}
  BY DEF Range
<1>4. DraftOk(d)
  BY <1>2, <1>3 DEF DraftOk, IsInjective
<1>5. \A away, kept : Wired(d, away, kept)
  BY <1>2 DEF Wired
<1>6. IsABag(EmptyBag) /\ BagToSet(EmptyBag) = {}
  BY DEF IsABag, BagToSet, EmptyBag, SetToBag
<1>7. \A away : AsksOk(EmptyBag, d, away)
  BY <1>6 DEF AsksOk
<1>8. NoPorts \in [Template -> {"none", "empty", "known"}]
  BY DEF NoPorts
<1>9. CanvasOk'
  BY <1>1, <1>4, <1>5, <1>7, <1>8 DEF Unmount, CanvasOk
<1> QED
  BY <1>9 DEF Unmount, NothingForgotten, SortedWhenQuiet

LEMMA BagOfOne ==
    ASSUME NEW x
    PROVE  /\ IsABag(SetToBag({x})) /\ BagToSet(SetToBag({x})) = {x}
           /\ SetToBag({x}) # EmptyBag
<1>1. IsABag(SetToBag({x})) /\ BagToSet(SetToBag({x})) = {x}
  BY DEF IsABag, BagToSet, SetToBag
<1>2. BagToSet(EmptyBag) = {}
  BY DEF BagToSet, EmptyBag, SetToBag
<1> QED
  BY <1>1, <1>2

LEMMA OpenKeeps ==
    ASSUME FormInv, Open
    PROVE  FormInv'
<1>1. Whole(row, late) /\ row \in Rows /\ Range(row.ids) \cap row.externals = {}
  BY DEF FormInv, RowOk, Whole
<1>2. PICK d : d = [selected |-> row.ids, ids |-> row.ids, externals |-> row.externals,
                    constants |-> row.constants, wiring |-> row.wiring \cup row.constantWires]
  OBVIOUS
<1>3. /\ d \in Drafts /\ d.selected = row.ids /\ d.ids = row.ids
      /\ d.externals = row.externals /\ d.constants = row.constants
      /\ d.wiring = row.wiring \cup row.constantWires
  BY <1>1, <1>2 DEF Rows, Drafts
<1>4. PICK x : x = Request(Range(row.ids), row.externals, FALSE)
  OBVIOUS
<1>5. Range(row.ids) \subseteq Template /\ row.externals \subseteq Template
  BY <1>1, ElementOfSeq, LenProperties DEF Rows, Range
<1>6. x \in Asks /\ ~ x.wire
  BY <1>4, <1>5 DEF Request, Asks
<1>7. PICK others : others = SetToBag({x})
  OBVIOUS
<1>8. AsksOk(others, d, late) /\ others # EmptyBag
  BY <1>6, <1>7, BagOfOne DEF AsksOk
<1>9. Render(d, NoPorts, {}, 1, others)
  BY <1>2, <1>4, <1>7 DEF Open
<1>10. /\ draft' = d /\ ports' = NoPorts /\ parents' = {} /\ AsksOk(requests', d, late)
       /\ requests' # EmptyBag
  <2>1. PICK p, known : p = NoPorts /\ known = {}
    OBVIOUS
  <2>2. Render(d, p, known, 1, others)
    BY <1>9, <2>1
  <2>3. PICK away : away = late
    OBVIOUS
  <2>4. AsksOk(others, d, away)
    BY <1>8, <2>3
  <2>5. /\ draft' = d /\ ports' = p /\ parents' = known /\ AsksOk(requests', d, away)
        /\ requests' = EmptyBag => others = EmptyBag
    BY <1>3, <2>2, <2>4, Rendered
  <2> QED
    BY <1>8, <2>1, <2>3, <2>5
<1>11. DraftOk(d)
  BY <1>1, <1>3 DEF DraftOk, Whole
<1>12. Wired(d, late, row.constantWires)
  <2> SUFFICES ASSUME NEW w \in d.wiring
               PROVE  /\ w[1] \in Constant => w[1] \in d.constants
                      /\ \/ w[1] \in Blocks(d) /\ w[2] \in Range(d.selected)
                         \/ {w[1], w[2]} \cap late # {}
                         \/ w \in row.constantWires
    BY DEF Wired
  <2>1. CASE w \in row.constantWires
    BY <1>1, <1>3, <2>1 DEF Whole
  <2>2. CASE w \in row.wiring
    BY <1>1, <1>3, <2>2, ConstantsAssumption DEF Whole, Blocks
  <2> QED
    BY <1>3, <2>1, <2>2
<1>13. /\ UNCHANGED <<row, saves, edits, failures, late>>
       /\ open' = TRUE /\ stale' = 0
  BY DEF Open
<1>14. NoPorts \in [Template -> {"none", "empty", "known"}]
  BY DEF NoPorts
<1>15. CanvasOk'
  BY <1>10, <1>11, <1>12, <1>13, <1>14 DEF CanvasOk
<1>16. RowOk' /\ SavesOk' /\ RestOk'
  BY <1>13 DEF FormInv, RowOk, SavesOk, RestOk
<1> QED
  BY <1>10, <1>15, <1>16 DEF FormInv, NothingForgotten, SortedWhenQuiet

LEMMA CloseKeeps ==
    ASSUME FormInv, Close
    PROVE  FormInv'
<1>1. /\ Edit /\ Unmount /\ saves' = {[s EXCEPT !.mine = FALSE] : s \in saves}
      /\ UNCHANGED <<row, failures, late>>
  BY DEF Close
<1>2. CanvasOk' /\ NothingForgotten' /\ SortedWhenQuiet'
  BY <1>1, Unmounted DEF FormInv, RestOk
<1>3. SavesOk'
  <2> SUFFICES ASSUME NEW s \in saves
               PROVE  /\ [s EXCEPT !.mine = FALSE] \in [data : Rows, mine : BOOLEAN]
                      /\ Whole([s EXCEPT !.mine = FALSE].data, late)
    BY <1>1 DEF SavesOk
  <2>1. s \in [data : Rows, mine : BOOLEAN] /\ Whole(s.data, late)
    BY DEF FormInv, SavesOk
  <2>2. PICK u : u = [s EXCEPT !.mine = FALSE]
    OBVIOUS
  <2>3. u \in [data : Rows, mine : BOOLEAN] /\ u.data = s.data
    BY <2>1, <2>2
  <2> QED
    BY <2>1, <2>2, <2>3
<1>4. RowOk'
  BY <1>1 DEF FormInv, RowOk
<1>5. edits' \in 0 .. MaxEdits
  BY <1>1, BoundsAssumption DEF FormInv, RestOk, Edit
<1>6. RestOk'
  BY <1>1, <1>5 DEF FormInv, RestOk, Unmount
<1> QED
  BY <1>2, <1>3, <1>4, <1>6 DEF FormInv

LEMMA SaveKeeps ==
    ASSUME FormInv, Save
    PROVE  FormInv'
<1>1. /\ saves' = saves \cup {[data |-> Payload(draft), mine |-> TRUE]}
      /\ UNCHANGED <<row, open, draft, ports, parents, requests, edits, failures, late, stale>>
  BY DEF Save
<1>2. draft \in Drafts /\ DraftOk(draft) /\ Wired(draft, late, row.constantWires)
  BY DEF FormInv, CanvasOk, DraftOk
<1>3. PICK d : d = Payload(draft)
  OBVIOUS
<1>4. /\ d \in Rows /\ d.ids = draft.ids /\ d.externals = draft.externals
      /\ d.constants = draft.constants
      /\ d.wiring = {w \in draft.wiring : w[1] \notin draft.constants}
      /\ d.constantWires = {w \in draft.wiring : w[1] \in draft.constants}
  BY <1>2, <1>3 DEF Payload, Rows, Drafts
<1>5. ASSUME NEW w \in d.wiring
      PROVE  /\ w[1] \in Template
             /\ \/ w[1] \in Range(d.ids) \cup d.externals /\ w[2] \in Range(d.ids)
                \/ {w[1], w[2]} \cap late # {}
  <2>1. w \in draft.wiring /\ w[1] \notin draft.constants
    BY <1>4
  <2>2. w \in Wire
    BY <1>2, <2>1 DEF Drafts
  <2>3. w[1] \in Template
    BY <1>2, <2>1, <2>2 DEF Wire, Wired
  <2>4. w \notin row.constantWires
    <3>1. \A x \in row.constantWires : x[1] \in Constant
      BY DEF FormInv, RowOk, Whole, Rows
    <3> QED
      BY <2>3, <3>1, ConstantsAssumption
  <2> QED
    BY <1>2, <1>4, <2>1, <2>3, <2>4 DEF Wired, Blocks, DraftOk
<1>6. Whole(d, late)
  BY <1>2, <1>4, <1>5 DEF Whole, DraftOk
<1>7. SavesOk'
  <2>1. PICK u : u = [data |-> d, mine |-> TRUE]
    OBVIOUS
  <2>2. u \in [data : Rows, mine : BOOLEAN] /\ u.data = d
    BY <1>4, <2>1
  <2>3. saves' = saves \cup {u} /\ late' = late
    BY <1>1, <1>3, <2>1
  <2>4. \A s \in saves : s \in [data : Rows, mine : BOOLEAN] /\ Whole(s.data, late)
    BY DEF FormInv, SavesOk
  <2>5. \A s \in saves \cup {u} : s \in [data : Rows, mine : BOOLEAN] /\ Whole(s.data, late)
    BY <1>6, <2>2, <2>4
  <2> QED
    BY <2>3, <2>5 DEF SavesOk
<1> QED
  BY <1>1, <1>7 DEF FormInv, RowOk, CanvasOk, RestOk, NothingForgotten, SortedWhenQuiet

-----------------------------------------------------------------------------
(* The server.                                                             *)

LEMMA SavedKeeps ==
    ASSUME FormInv, Saved
    PROVE  FormInv'
<1>1. PICK s \in saves :
        LET new == Stored(row, s.data) IN
        /\ \/ /\ Storable(new) /\ row' = new /\ Unmount /\ UNCHANGED failures
              /\ saves' = {[x EXCEPT !.mine = FALSE] : x \in saves \ {s}}
           \/ /\ Fail \/ (~Storable(new) /\ UNCHANGED failures)
              /\ saves' = saves \ {s}
              /\ UNCHANGED <<row, open, draft, ports, parents, requests, stale>>
        /\ UNCHANGED <<edits, late>>
  BY DEF Saved
<1>2. PICK new : new = Stored(row, s.data)
  OBVIOUS
<1>3. PICK d : d = s.data
  OBVIOUS
<1>4. Whole(d, late) /\ d \in Rows
  BY <1>3 DEF FormInv, SavesOk, Whole
<1>5. Whole(row, late) /\ row \in Rows
  BY DEF FormInv, RowOk, Whole
<1>6. /\ new \in Rows
      /\ new.ids = IF d.ids = << >> THEN row.ids ELSE d.ids
      /\ new.externals = d.externals
      /\ new.constants = IF d.constants = {} THEN row.constants ELSE d.constants
      /\ new.wiring = d.wiring
      /\ new.constantWires = IF d.constants = {} THEN row.constantWires ELSE d.constantWires
  BY <1>2, <1>3, <1>4, <1>5 DEF Stored, Rows
<1>7. Whole(new, late)
  <2>1. IsInjective(new.ids)
    BY <1>4, <1>5, <1>6 DEF Whole
  <2>2. \A w \in new.constantWires : w[1] \in new.constants
    BY <1>4, <1>5, <1>6 DEF Whole
  <2>3. Range(<< >>) = {}
    BY DEF Range
  <2>4. Range(d.ids) \subseteq Range(new.ids)
    BY <1>6, <2>3
  <2>5. \A w \in new.wiring :
            /\ w[1] \in Template
            /\ \/ w[1] \in Range(new.ids) \cup new.externals /\ w[2] \in Range(new.ids)
               \/ {w[1], w[2]} \cap late # {}
    BY <1>4, <1>6, <2>4 DEF Whole
  <2> QED
    BY <1>6, <2>1, <2>2, <2>5 DEF Whole
<1>8. UNCHANGED <<edits, late>>
  BY <1>1
<1>9. SavesOk'
  <2>1. CASE saves' = saves \ {s}
    BY <1>8, <2>1 DEF FormInv, SavesOk
  <2>2. CASE saves' = {[x EXCEPT !.mine = FALSE] : x \in saves \ {s}}
    <3>1. \A x \in saves : /\ [x EXCEPT !.mine = FALSE] \in [data : Rows, mine : BOOLEAN]
                           /\ [x EXCEPT !.mine = FALSE].data = x.data /\ Whole(x.data, late)
      BY DEF FormInv, SavesOk
    <3> QED
      BY <1>8, <2>2, <3>1 DEF SavesOk
  <2> QED
    BY <1>1, <2>1, <2>2
<1>10. CASE Storable(new) /\ row' = new /\ Unmount /\ UNCHANGED failures
  <2>1. CanvasOk' /\ NothingForgotten' /\ SortedWhenQuiet'
    BY <1>8, <1>10, Unmounted DEF FormInv, RestOk
  <2>2. RowOk'
    BY <1>7, <1>8, <1>10 DEF RowOk, Storable
  <2>3. RestOk'
    BY <1>8, <1>10 DEF FormInv, RestOk, Unmount
  <2> QED
    BY <1>9, <2>1, <2>2, <2>3 DEF FormInv
<1>11. CASE /\ Fail \/ (~Storable(new) /\ UNCHANGED failures)
            /\ UNCHANGED <<row, open, draft, ports, parents, requests, stale>>
  <2>1. failures' \in 0 .. MaxFailures
    BY <1>11, BoundsAssumption DEF Fail, FormInv, RestOk
  <2> QED
    BY <1>8, <1>9, <1>11, <2>1
       DEF FormInv, RowOk, CanvasOk, RestOk, NothingForgotten, SortedWhenQuiet
<1> QED
  BY <1>1, <1>2, <1>10, <1>11

LEMMA NotFetchedKeeps ==
    ASSUME FormInv, open, NEW q \in BagToSet(requests), NotFetched(q),
           UNCHANGED <<row, open, saves, edits, late>>
    PROVE  FormInv'
<1>1. draft \in Drafts
  BY DEF FormInv, CanvasOk, DraftOk
<1>2. PICK others : others = requests (-) SetToBag({q})
  OBVIOUS
<1>3. AsksOk(others, draft, late)
  BY <1>2, BagWithout DEF FormInv, CanvasOk, AsksOk
<1>4. PICK p : p = [t \in Template |-> IF t \in q.ids \cup q.extra THEN "empty" ELSE ports[t]]
  OBVIOUS
<1>5. p \in [Template -> {"none", "empty", "known"}]
  BY <1>4 DEF FormInv, CanvasOk
<1>6. /\ Render(draft, p, parents, 1, others)
      /\ stale' \in {1, 2} /\ UNCHANGED failures
  BY <1>2, <1>4 DEF NotFetched
<1>7. /\ draft' = draft /\ ports' = p /\ parents' = parents /\ AsksOk(requests', draft, late)
      /\ requests' = EmptyBag => Missing(draft, p, parents) = {}
  BY <1>1, <1>3, <1>6, Rendered
<1>8. CanvasOk'
  BY <1>5, <1>7 DEF FormInv, CanvasOk
<1>9. NothingForgotten'
  BY <1>7, NothingMissing DEF NothingForgotten
<1>10. RowOk' /\ SavesOk'
  BY DEF FormInv, RowOk, SavesOk
<1>11. RestOk'
  BY <1>6 DEF FormInv, RestOk
<1> QED
  BY <1>6, <1>8, <1>9, <1>10, <1>11 DEF FormInv, SortedWhenQuiet

LEMMA FetchedKeeps ==
    ASSUME FormInv, open, NEW q \in BagToSet(requests), Fetched(q),
           UNCHANGED <<row, open, saves, edits, late>>
    PROVE  FormInv'
<1>1. draft \in Drafts /\ DraftOk(draft) /\ Wired(draft, late, row.constantWires)
  BY DEF FormInv, CanvasOk, DraftOk
<1>2. q \in Asks /\ AsksOk(requests, draft, late)
  BY DEF FormInv, CanvasOk, AsksOk
<1>3. PICK named : named = q.ids \cup q.extra
  OBVIOUS
<1>4. PICK known : known = parents \cup named
  OBVIOUS
<1>5. known \subseteq Template
  BY <1>2, <1>3, <1>4 DEF Asks, FormInv, CanvasOk
<1>6. PICK wires : wires = draft.wiring \cup
                     {w \in References : q.wire /\ w[1] \in named /\ w[2] \in q.ids}
  OBVIOUS
<1>7. PICK order : order = Hierarchical(draft.selected, known)
  OBVIOUS
<1>8. PICK d : d = [draft EXCEPT !.selected = order, !.ids = order, !.wiring = wires]
  OBVIOUS
<1>9. /\ order \in Seq(Template) /\ IsInjective(order) /\ Range(order) = Range(draft.selected)
      /\ Range(order) \subseteq known =>
            \A i, j \in DOMAIN order : i < j => order[j] \notin ParentsOf[order[i]]
  BY <1>1, <1>7, Sorted DEF DraftOk, Drafts
<1>10. wires \in SUBSET Wire
  BY <1>1, <1>6, HierarchyAssumption DEF Drafts, Wire
<1>11. /\ d \in Drafts /\ d.selected = order /\ d.ids = order /\ d.externals = draft.externals
       /\ d.constants = draft.constants /\ d.wiring = wires
  BY <1>1, <1>8, <1>9, <1>10 DEF Drafts
<1>12. PICK others : others = requests (-) SetToBag({q})
  OBVIOUS
<1>13. AsksOk(others, d, late)
  BY <1>2, <1>9, <1>11, <1>12, BagWithout DEF AsksOk
<1>14. PICK p : p = [t \in Template |-> IF t \in named THEN "known" ELSE ports[t]]
  OBVIOUS
<1>15. p \in [Template -> {"none", "empty", "known"}]
  BY <1>14 DEF FormInv, CanvasOk
<1>16. PICK n \in {1, 2} : Render(d, p, known, n, others)
  <2>1. draft.selected = draft.ids
    BY <1>1 DEF DraftOk
  <2>2. PICK wired : wired = [draft EXCEPT !.wiring = wires]
    OBVIOUS
  <2>3. wired = [draft EXCEPT !.wiring = @ \cup {w \in References :
                                    q.wire /\ w[1] \in named /\ w[2] \in q.ids}]
    BY <1>1, <1>6, <2>2 DEF Drafts
  <2>4. order # draft.selected => d = Reordered(wired, order)
    BY <1>1, <1>8, <2>2 DEF Reordered, Drafts
  <2>5. order = draft.selected => d = wired
    BY <1>1, <1>8, <2>1, <2>2 DEF Drafts
  <2>6. Render(IF order # draft.selected THEN Reordered(wired, order) ELSE wired,
               p, known, IF order # draft.selected THEN 2 ELSE 1, others)
    BY <1>3, <1>4, <1>7, <1>12, <1>14, <2>3 DEF Fetched, WithParents
  <2>7. CASE order # draft.selected
    BY <2>4, <2>6, <2>7
  <2>8. CASE order = draft.selected
    BY <2>5, <2>6, <2>8
  <2> QED
    BY <2>7, <2>8
<1>17. /\ draft' = d /\ ports' = p /\ parents' = known /\ AsksOk(requests', d, late)
       /\ requests' = EmptyBag => Missing(d, p, known) = {}
  BY <1>11, <1>13, <1>16, Rendered
<1>18. DraftOk(d)
  BY <1>1, <1>9, <1>11 DEF DraftOk
<1>19. Wired(d, late, row.constantWires)
  <2> SUFFICES ASSUME NEW w \in wires
               PROVE  /\ w[1] \in Constant => w[1] \in d.constants
                      /\ \/ w[1] \in Blocks(d) /\ w[2] \in Range(d.selected)
                         \/ {w[1], w[2]} \cap late # {}
                         \/ w \in row.constantWires
    BY <1>11 DEF Wired
  <2>1. CASE w \in draft.wiring
    BY <1>1, <1>9, <1>11, <2>1 DEF Wired, Blocks
  <2>2. CASE w \in References /\ q.wire /\ w[1] \in named /\ w[2] \in q.ids
    <3>1. w[1] \in Template
      BY <2>2, HierarchyAssumption
    <3>2. /\ q.ids \subseteq Range(draft.selected) \cup late
          /\ q.extra \subseteq Range(draft.selected) \cup draft.externals \cup late
      BY <1>2, <2>2 DEF AsksOk
    <3>3. w[1] \notin Constant
      BY <3>1, ConstantsAssumption
    <3> QED
      BY <1>3, <1>9, <1>11, <2>2, <3>2, <3>3 DEF Blocks
  <2> QED
    BY <1>6, <2>1, <2>2
<1>20. stale' = 0 /\ failures' = failures
  BY DEF Fetched
<1>21. CanvasOk'
  BY <1>5, <1>15, <1>17, <1>18, <1>19 DEF CanvasOk
<1>22. NothingForgotten'
  BY <1>17, NothingMissing DEF NothingForgotten
<1>23. SortedWhenQuiet'
  <2> SUFFICES ASSUME requests' = EmptyBag
               PROVE  \A i, j \in DOMAIN order : i < j => order[j] \notin ParentsOf[order[i]]
    BY <1>11, <1>17 DEF SortedWhenQuiet
  <2>1. \A t \in Range(order) : t \in known
    BY <1>11, <1>17, NothingMissing
  <2> QED
    BY <1>9, <2>1
<1>24. RowOk' /\ SavesOk' /\ RestOk'
  BY <1>20 DEF FormInv, RowOk, SavesOk, RestOk
<1> QED
  BY <1>21, <1>22, <1>23, <1>24 DEF FormInv

-----------------------------------------------------------------------------
(* The theorems.                                                           *)

LEMMA FormInit ==
    ASSUME Init PROVE FormInv
<1>1. /\ row = [ids |-> First, externals |-> {}, constants |-> {}, wiring |-> {},
                constantWires |-> {}]
      /\ open = FALSE /\ draft = EmptyDraft /\ ports = NoPorts /\ parents = {}
      /\ requests = EmptyBag /\ saves = {}
      /\ edits = 0 /\ failures = 0 /\ late = {} /\ stale = 0
  BY DEF Init
<1>2. First \in Seq(Template) /\ IsInjective(First)
  BY HierarchyAssumption
<1>3. RowOk
  BY <1>1, <1>2 DEF RowOk, Whole, Rows
<1>4. RestOk
  <2>1. edits \in 0 .. MaxEdits /\ failures \in 0 .. MaxFailures
    BY <1>1, BoundsAssumption
  <2>2. open \in BOOLEAN /\ stale \in {0, 1, 2} /\ late \subseteq Template
    BY <1>1
  <2> QED
    BY <2>1, <2>2 DEF RestOk
<1>5. Range(<< >>) = {}
  BY DEF Range
<1>6. DraftOk(draft) /\ draft.wiring = {}
  BY <1>1, <1>5 DEF DraftOk, Drafts, EmptyDraft, IsInjective
<1>7. IsABag(EmptyBag) /\ BagToSet(EmptyBag) = {}
  BY DEF IsABag, BagToSet, EmptyBag, SetToBag
<1>8. CanvasOk
  BY <1>1, <1>6, <1>7 DEF CanvasOk, Wired, AsksOk, NoPorts
<1> QED
  BY <1>1, <1>3, <1>4, <1>8 DEF FormInv, SavesOk, NothingForgotten, SortedWhenQuiet

LEMMA FormStep ==
    ASSUME FormInv, [Next]_vars PROVE FormInv'
<1>1. ASSUME NEW t \in Template,
             AddTemplate(t) \/ RemoveTemplate(t) \/ AddExternal(t) \/ RemoveExternal(t)
      PROVE  FormInv'
  BY <1>1, AddTemplateKeeps, RemoveTemplateKeeps, AddExternalKeeps, RemoveExternalKeeps
<1>2. ASSUME NEW c \in Constant, AddConstant(c) \/ RemoveConstant(c) PROVE FormInv'
  BY <1>2, ConstantsKeep
<1>3. ASSUME NEW s \in Template \cup Constant, NEW t \in Template, Connect(s, t)
      PROVE  FormInv'
  BY <1>3, ConnectKeeps
<1>4. ASSUME NEW w \in draft.wiring, Disconnect(w) PROVE FormInv'
  BY <1>4, DisconnectKeeps
<1>5. ASSUME Open \/ Close \/ Save \/ Saved PROVE FormInv'
  BY <1>5, OpenKeeps, CloseKeeps, SaveKeeps, SavedKeeps
<1>6. ASSUME Answer PROVE FormInv'
  <2>1. PICK q \in BagToSet(requests) : Fetched(q) \/ NotFetched(q)
    BY <1>6 DEF Answer
  <2>2. open /\ UNCHANGED <<row, open, saves, edits, late>>
    BY <1>6 DEF Answer
  <2> QED
    BY <2>1, <2>2, FetchedKeeps, NotFetchedKeeps
<1>7. ASSUME UNCHANGED vars PROVE FormInv'
  BY <1>7 DEF vars, FormInv, RowOk, SavesOk, CanvasOk, RestOk, NothingForgotten, SortedWhenQuiet
<1> QED
  BY <1>1, <1>2, <1>3, <1>4, <1>5, <1>6, <1>7 DEF Next, User

LEMMA FormInvariant == Spec => []FormInv
<1>1. Init => FormInv
  BY FormInit
<1>2. FormInv /\ [Next]_vars => FormInv'
  BY FormStep
<1> QED
  BY <1>1, <1>2, PTL DEF Spec

\* What the canvas, the requests and the row may hold; no template is on the
\* canvas twice, or inside and outside of the blueprint (useBlueprintForm.ts).
THEOREM TypeCorrect == Spec => []TypeOK
<1>1. FormInv => TypeOK
  BY DEF FormInv, RowOk, Whole, Rows, CanvasOk, DraftOk, Drafts, AsksOk, RestOk, TypeOK
<1> QED
  BY <1>1, FormInvariant, PTL

\* No wire of the canvas outlives its blocks, but one that a late answer brings
\* or that the server did not drop with its constant (removeTemplate,
\* removeExternalTemplate, removeConstant, refreshAutoWiring).
THEOREM WiresFollow == Spec => []WiresFit
<1>1. FormInv => WiresFit
  BY DEF FormInv, CanvasOk, Wired, WiresFit
<1> QED
  BY <1>1, FormInvariant, PTL

\* What would be saved is what is shown, in the same order, whichever answer
\* sorts the templates (addTemplate, removeTemplate and the sync effect).
THEOREM IdsFollowSelection == Spec => []IdsMatchSelection
<1>1. FormInv => IdsMatchSelection
  BY DEF FormInv, CanvasOk, DraftOk, IdsMatchSelection
<1> QED
  BY <1>1, FormInvariant, PTL

\* With nothing left to answer, parents come before their children: Kahn's
\* algorithm (sortByHierarchy) has an order for every hierarchy without a cycle,
\* and no later change of the canvas breaks it.
THEOREM ParentsComeFirst == Spec => []SortedWhenQuiet
<1>1. FormInv => SortedWhenQuiet
  BY DEF FormInv
<1> QED
  BY <1>1, FormInvariant, PTL

\* With nothing left to answer, nothing of what is shown was forgotten (the sync
\* effect of useBlueprintForm.ts).
THEOREM NothingIsForgotten == Spec => []NothingForgotten
<1>1. FormInv => NothingForgotten
  BY DEF FormInv
<1> QED
  BY <1>1, FormInvariant, PTL

\* The server keeps no wire between templates it does not keep, whatever draft
\* is saved over whichever row (update_blueprint, crud.update).
THEOREM RowIsWhole == Spec => []RowFits
<1>1. FormInv => RowFits
  BY DEF FormInv, RowOk, Whole, RowFits
<1> QED
  BY <1>1, FormInvariant, PTL
=============================================================================
