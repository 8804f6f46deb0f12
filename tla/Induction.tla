------------------------------ MODULE Induction ------------------------------
(***************************************************************************)
(* Facts about finite sets, recursive functions, sequences and bags that   *)
(* the proofs about the components share.                                  *)
(*                                                                         *)
(* Induction is over sets: the least natural number, or a minimal subset,  *)
(* that is a counterexample.                                               *)
(***************************************************************************)
EXTENDS Integers, SequencesExt, Bags, FiniteSetTheorems, SequenceTheorems,
        WellFoundedInduction, TLAPS

-----------------------------------------------------------------------------
(* Least and greatest elements.                                            *)

\* Every set of natural numbers with an element has a least one, which is Min.
LEMMA LeastNatural ==
    ASSUME NEW S \in SUBSET Nat, S # {}
    PROVE  Min(S) \in S /\ \A x \in S : Min(S) <= x
<1> DEFINE R == OpToRel(<, Nat)
<1>1. IsWellFoundedOn(R, Nat)
  BY NatLessThanWellFounded
<1> HIDE DEF R
<1>2. PICK m \in S : \A x \in S : ~(<<x, m>> \in R)
  BY <1>1, WFMin
<1>3. \A x \in S : m <= x
  <2> SUFFICES ASSUME NEW x \in S, ~(m <= x) PROVE FALSE
    OBVIOUS
  <2>1. <<x, m>> \in R
    BY DEF R, OpToRel
  <2> QED
    BY <1>2, <2>1
<1> QED
  BY <1>3 DEF Min

\* Induction over the natural numbers, for the set of those that have the
\* property.
LEMMA SetInduction ==
    ASSUME NEW S \in SUBSET Nat, 0 \in S, \A n \in S : n + 1 \in S
    PROVE  S = Nat
<1> DEFINE T == Nat \ S
           m == Min(T)
<1> SUFFICES ASSUME T # {} PROVE FALSE
  OBVIOUS
<1>1. m \in T /\ \A x \in T : m <= x
  BY LeastNatural
<1> HIDE DEF m
<1>2. m \in Nat /\ m # 0
  BY <1>1
<1>3. m - 1 \in Nat /\ m - 1 \notin T
  BY <1>1, <1>2
<1>4. (m - 1) + 1 \in S
  BY <1>3
<1> QED
  BY <1>1, <1>2, <1>4

\* A family of subsets of a finite set has a minimal member.
LEMMA MinimalSubset ==
    ASSUME NEW S, IsFiniteSet(S), NEW F, F # {}, \A X \in F : X \subseteq S
    PROVE  \E M \in F : \A N \in F : N \subseteq M => N = M
<1> DEFINE R == StrictSubsetOrdering(S)
<1>1. IsWellFoundedOn(R, SUBSET S)
  BY FS_StrictSubsetOrderingWellFounded, FS_FiniteSubsetsOfFinite
<1> HIDE DEF R
<1>2. PICK M \in F : \A N \in F : ~(<<N, M>> \in R)
  BY <1>1, WFMin
<1>3. ASSUME NEW N \in F, N \subseteq M, N # M PROVE FALSE
  <2>1. <<N, M>> \in R
    BY <1>3 DEF R, StrictSubsetOrdering
  <2> QED
    BY <1>2, <2>1
<1> QED
  BY <1>3

\* A finite set of natural numbers with an element has a greatest one, Max.
LEMMA GreatestNatural ==
    ASSUME NEW S \in SUBSET Nat, IsFiniteSet(S), S # {}
    PROVE  Max(S) \in S /\ \A x \in S : Max(S) >= x
<1> DEFINE Above(x) == {y \in S : y > x}
           Tops == {Above(x) : x \in S}
<1>1. PICK M \in Tops : \A N \in Tops : N \subseteq M => N = M
  <2>1. \A X \in Tops : X \subseteq S
    OBVIOUS
  <2>2. Tops # {}
    OBVIOUS
  <2> HIDE DEF Tops
  <2> QED
    BY <2>1, <2>2, MinimalSubset
<1>2. PICK x \in S : M = Above(x)
  BY <1>1
<1>3. \A y \in S : x >= y
  <2> SUFFICES ASSUME NEW y \in S, ~(x >= y) PROVE FALSE
    OBVIOUS
  <2>1. x \in Nat /\ y \in Nat /\ y > x
    OBVIOUS
  <2>2. Above(y) \subseteq Above(x)
    <3> SUFFICES ASSUME NEW z \in Above(y) PROVE z \in Above(x)
      OBVIOUS
    <3>1. z \in S /\ z \in Nat /\ z > y
      OBVIOUS
    <3>2. z > x
      BY <2>1, <3>1
    <3> QED
      BY <3>1, <3>2
  <2>3. y \in Above(x) /\ y \notin Above(y)
    BY <2>1
  <2> QED
    BY <1>1, <1>2, <2>2, <2>3
<1> QED
  BY <1>3 DEF Max

\* The image of a finite set under a function is finite, and no larger.
LEMMA FiniteImage ==
    ASSUME NEW S, IsFiniteSet(S), NEW f, DOMAIN f = S
    PROVE  /\ IsFiniteSet({f[x] : x \in S})
           /\ Cardinality({f[x] : x \in S}) <= Cardinality(S)
<1> DEFINE T == {f[x] : x \in S}
           g == [x \in S |-> f[x]]
<1>1. g \in Surjection(S, T)
  BY DEF Surjection
<1> HIDE DEF T, g
<1>2. IsFiniteSet(T) /\ Cardinality(T) <= Cardinality(S)
  BY <1>1, FS_Surjection
<1> QED
  BY <1>2 DEF T

-----------------------------------------------------------------------------
(* Functions defined by recursion over the natural numbers.                *)

\* F maps an index and the value before it to the next value.
Steps(F, V) == \A n \in Nat, x \in V : F[<<n, x>>] \in V

Recursive(f, v, F) == f[0] = v /\ \A n \in Nat \ {0} : f[n] = F[<<n, f[n - 1]>>]

\* h follows the recursion from v, with the steps F, up to n.
Follows(h, n, v, F, V) ==
    /\ h \in [0 .. n -> V]
    /\ h[0] = v
    /\ \A i \in 1 .. n : h[i] = F[<<i, h[i - 1]>>]

\* There is one such function for each n.
LEMMA FollowsExists ==
    ASSUME NEW V, NEW v \in V, NEW F, Steps(F, V)
    PROVE  \A n \in Nat : \E h : Follows(h, n, v, F, V)
<1> DEFINE S == {n \in Nat : \E h : Follows(h, n, v, F, V)}
<1>1. 0 \in S
  <2>1. Follows([i \in 0 .. 0 |-> v], 0, v, F, V)
    BY DEF Follows
  <2> QED
    BY <2>1
<1>2. ASSUME NEW n \in S PROVE n + 1 \in S
  <2>1. PICK h : Follows(h, n, v, F, V)
    OBVIOUS
  <2> DEFINE g == [i \in 0 .. n + 1 |-> IF i = n + 1 THEN F[<<n + 1, h[n]>>] ELSE h[i]]
  <2>2. n \in Nat /\ n + 1 \in Nat /\ n \in 0 .. n
    OBVIOUS
  <2>3. F[<<n + 1, h[n]>>] \in V
    BY <2>1, <2>2 DEF Follows, Steps
  <2>4. g \in [0 .. n + 1 -> V]
    BY <2>1, <2>2, <2>3 DEF Follows
  <2>5. g[0] = v
    BY <2>1, <2>2 DEF Follows
  <2>6. ASSUME NEW i \in 1 .. n + 1 PROVE g[i] = F[<<i, g[i - 1]>>]
    <3>1. CASE i = n + 1
      <4>1. g[n + 1] = F[<<n + 1, h[n]>>] /\ g[n] = h[n]
        BY <2>2
      <4>2. i - 1 = n
        BY <2>2, <3>1
      <4> HIDE DEF g
      <4> QED
        BY <3>1, <4>1, <4>2
    <3>2. CASE i # n + 1
      <4>1. i \in 1 .. n /\ i - 1 \in 0 .. n + 1 /\ i - 1 # n + 1
        BY <2>2, <3>2
      <4>2. g[i] = h[i] /\ g[i - 1] = h[i - 1]
        BY <3>2, <4>1
      <4> QED
        BY <2>1, <4>1, <4>2 DEF Follows
    <3> QED
      BY <3>1, <3>2
  <2>7. Follows(g, n + 1, v, F, V)
    BY <2>4, <2>5, <2>6 DEF Follows
  <2> QED
    BY <2>2, <2>7
<1> HIDE DEF S
<1>3. S = Nat
  BY <1>1, <1>2, SetInduction DEF S
<1> QED
  BY <1>3 DEF S

\* And two of them agree as far as both go.
LEMMA FollowsUnique ==
    ASSUME NEW V, NEW v, NEW F,
           NEW m \in Nat, NEW n \in Nat, m <= n,
           NEW g, Follows(g, m, v, F, V), NEW h, Follows(h, n, v, F, V)
    PROVE  \A i \in 0 .. m : g[i] = h[i]
<1> DEFINE S == {i \in Nat : i <= m => g[i] = h[i]}
<1>1. 0 \in S
  BY DEF Follows
<1>2. ASSUME NEW i \in S PROVE i + 1 \in S
  <2> SUFFICES ASSUME i + 1 <= m PROVE g[i + 1] = h[i + 1]
    OBVIOUS
  <2>1. i + 1 \in 1 .. m /\ i + 1 \in 1 .. n /\ (i + 1) - 1 = i /\ i <= m
    OBVIOUS
  <2>2. g[i + 1] = F[<<i + 1, g[i]>>] /\ h[i + 1] = F[<<i + 1, h[i]>>]
    BY <2>1 DEF Follows
  <2> QED
    BY <2>1, <2>2
<1>3. S \in SUBSET Nat
  OBVIOUS
<1> HIDE DEF S
<1>4. S = Nat
  BY <1>1, <1>2, <1>3, SetInduction
<1> QED
  BY <1>4 DEF S

\* A recursion over the natural numbers defines a function.
LEMMA NatRecursion ==
    ASSUME NEW V, NEW v \in V, NEW F, Steps(F, V)
    PROVE  \E f \in [Nat -> V] : Recursive(f, v, F)
<1> DEFINE part(n) == CHOOSE g : Follows(g, n, v, F, V)
           f == [n \in Nat |-> part(n)[n]]
<1>1. \A n \in Nat : Follows(part(n), n, v, F, V)
  BY FollowsExists
<1> HIDE DEF part
<1>2. f \in [Nat -> V]
  <2> SUFFICES ASSUME NEW n \in Nat PROVE part(n)[n] \in V
    OBVIOUS
  <2>1. n \in 0 .. n
    OBVIOUS
  <2> QED
    BY <1>1, <2>1 DEF Follows
<1>3. f[0] = v
  BY <1>1 DEF Follows
<1>4. ASSUME NEW n \in Nat \ {0} PROVE f[n] = F[<<n, f[n - 1]>>]
  <2>1. n - 1 \in Nat /\ n - 1 <= n /\ n \in 1 .. n /\ n - 1 \in 0 .. n - 1
    OBVIOUS
  <2>2. part(n)[n] = F[<<n, part(n)[n - 1]>>]
    BY <1>1, <2>1 DEF Follows
  <2>3. part(n - 1)[n - 1] = part(n)[n - 1]
    <3>1. Follows(part(n - 1), n - 1, v, F, V) /\ Follows(part(n), n, v, F, V)
      BY <1>1, <2>1
    <3>2. \A i \in 0 .. n - 1 : part(n - 1)[i] = part(n)[i]
      BY <2>1, <3>1, FollowsUnique
    <3> QED
      BY <2>1, <3>2
  <2> QED
    BY <2>1, <2>2, <2>3
<1> HIDE DEF f
<1>5. Recursive(f, v, F)
  BY <1>3, <1>4 DEF Recursive
<1> QED
  BY <1>2, <1>5

-----------------------------------------------------------------------------
(* Sequences.                                                              *)

\* Taking one element out of a sequence.
LEMMA RemoveAtElements ==
    ASSUME NEW S, NEW s \in Seq(S), NEW i \in 1 .. Len(s)
    PROVE  /\ RemoveAt(s, i) \in Seq(S) /\ Len(RemoveAt(s, i)) = Len(s) - 1
           /\ \A j \in 1 .. Len(s) - 1 :
                 RemoveAt(s, i)[j] = IF j < i THEN s[j] ELSE s[j + 1]
<1> DEFINE a == SubSeq(s, 1, i - 1)
           b == SubSeq(s, i + 1, Len(s))
           n == Len(s)
<1>1. n \in Nat /\ i \in Int /\ 1 <= i /\ i <= n
  OBVIOUS
<1>2. /\ a \in Seq(S) /\ Len(a) = i - 1
      /\ \A j \in 1 .. i - 1 : a[j] = s[j]
  <2>1. \A j \in 1 .. i - 1 : s[j] \in S
    BY <1>1
  <2>2. /\ a \in Seq(S)
        /\ Len(a) = IF 1 <= i - 1 THEN (i - 1) - 1 + 1 ELSE 0
        /\ \A j \in 1 .. (i - 1) - 1 + 1 : a[j] = s[1 + j - 1]
    BY <1>1, <2>1, SubSeqProperties
  <2> QED
    BY <1>1, <2>2
<1>3. /\ b \in Seq(S) /\ Len(b) = n - i
      /\ \A j \in 1 .. n - i : b[j] = s[i + j]
  <2>1. \A j \in i + 1 .. n : s[j] \in S
    BY <1>1
  <2>2. /\ b \in Seq(S)
        /\ Len(b) = IF i + 1 <= n THEN n - (i + 1) + 1 ELSE 0
        /\ \A j \in 1 .. n - (i + 1) + 1 : b[j] = s[(i + 1) + j - 1]
    BY <1>1, <2>1, SubSeqProperties
  <2> QED
    BY <1>1, <2>2
<1>4. RemoveAt(s, i) = a \o b
  BY DEF RemoveAt
<1> HIDE DEF a, b, n
<1>5. /\ a \o b \in Seq(S) /\ Len(a \o b) = Len(a) + Len(b)
      /\ \A j \in 1 .. Len(a) + Len(b) : (a \o b)[j] = IF j <= Len(a) THEN a[j] ELSE b[j - Len(a)]
  BY <1>2, <1>3, ConcatProperties
<1>6. Len(a) + Len(b) = n - 1
  BY <1>1, <1>2, <1>3
<1>7. \A j \in 1 .. n - 1 : (a \o b)[j] = IF j < i THEN s[j] ELSE s[j + 1]
  <2> SUFFICES ASSUME NEW j \in 1 .. n - 1 PROVE (a \o b)[j] = IF j < i THEN s[j] ELSE s[j + 1]
    OBVIOUS
  <2>1. CASE j < i
    <3>1. j \in 1 .. i - 1 /\ j <= Len(a) /\ j \in 1 .. Len(a) + Len(b)
      BY <1>1, <1>2, <1>6, <2>1
    <3> QED
      BY <1>2, <1>5, <2>1, <3>1
  <2>2. CASE ~(j < i)
    <3>1. /\ j - (i - 1) \in 1 .. n - i /\ ~(j <= i - 1) /\ j \in 1 .. Len(a) + Len(b)
          /\ i + (j - (i - 1)) = j + 1
      BY <1>1, <1>6, <2>2
    <3>2. (a \o b)[j] = b[j - (i - 1)]
      BY <1>2, <1>5, <3>1
    <3> QED
      BY <1>3, <2>2, <3>1, <3>2
  <2> QED
    BY <2>1, <2>2
<1> QED
  BY <1>4, <1>5, <1>6, <1>7 DEF n

\* Taking the first occurrence of an element out of a sequence.
LEMMA RemoveFirstIsRemoveAt ==
    ASSUME NEW S, NEW s \in Seq(S), NEW e
    PROVE  /\ e \in Range(s) =>
                \E i \in 1 .. Len(s) : s[i] = e /\ RemoveFirst(s, e) = RemoveAt(s, i)
           /\ e \notin Range(s) => RemoveFirst(s, e) = s
<1>1. DOMAIN s = 1 .. Len(s) /\ Len(s) \in Nat
  BY LenProperties
<1>2. CASE e \in Range(s)
  <2>1. PICK I : I = {i \in 1 .. Len(s) : s[i] = e}
    OBVIOUS
  <2>2. I \in SUBSET Nat /\ I # {}
    BY <1>1, <1>2, <2>1 DEF Range
  <2>3. PICK m : m = Min(I)
    OBVIOUS
  <2>4. m \in I
    BY <2>2, <2>3, LeastNatural
  <2>5. RemoveFirst(s, e) = RemoveAt(s, m)
    BY <2>1, <2>2, <2>3 DEF RemoveFirst, SelectInSeq
  <2> QED
    BY <1>2, <2>1, <2>4, <2>5
<1>3. CASE e \notin Range(s)
  BY <1>1, <1>3 DEF RemoveFirst, Range
<1> QED
  BY <1>2, <1>3

\* What is put behind others is the last one.
LEMMA AppendElements ==
    ASSUME NEW S, NEW s \in Seq(S), NEW e \in S
    PROVE  /\ s \o << e >> \in Seq(S) /\ Len(s \o << e >>) = Len(s) + 1
           /\ (s \o << e >>)[Len(s) + 1] = e
<1>1. << e >> \in Seq(S) /\ Len(<< e >>) = 1 /\ << e >>[1] = e
  OBVIOUS
<1>2. /\ s \o << e >> \in Seq(S) /\ Len(s \o << e >>) = Len(s) + Len(<< e >>)
      /\ \A j \in 1 .. Len(s) + Len(<< e >>) :
            (s \o << e >>)[j] = IF j <= Len(s) THEN s[j] ELSE << e >>[j - Len(s)]
  BY <1>1, ConcatProperties
<1>3. Len(s) \in Nat
  OBVIOUS
<1> QED
  BY <1>1, <1>2, <1>3

-----------------------------------------------------------------------------
(* Bags.                                                                   *)

\* One more: it is there, and no other is new.
LEMMA BagAddSet ==
    ASSUME NEW B, NEW x
    PROVE  /\ BagToSet(B (+) SetToBag({x})) = BagToSet(B) \cup {x}
           /\ B (+) SetToBag({x}) # EmptyBag
<1>1. BagToSet(B (+) SetToBag({x})) = BagToSet(B) \cup {x}
  BY DEF BagToSet, SetToBag, (+)
<1>2. BagToSet(EmptyBag) = {}
  BY DEF BagToSet, EmptyBag, SetToBag
<1> QED
  BY <1>1, <1>2

\* One less: nothing is new.
LEMMA BagRemoveSet ==
    ASSUME NEW B, NEW x
    PROVE  BagToSet(B (-) SetToBag({x})) \subseteq BagToSet(B)
  BY DEF BagToSet, SetToBag, (-)
=============================================================================
