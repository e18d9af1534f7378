---------------------------- MODULE ProofLemmas ----------------------------
(***************************************************************************)
(* Facts that the proofs of several modules need and that are about no     *)
(* module in particular.                                                   *)
(***************************************************************************)
EXTENDS Integers, Sequences, FiniteSets, FiniteSetTheorems, FunctionTheorems,
        SequenceTheorems, WellFoundedInduction, TLAPS

LessThan == {ss \in Nat \X Nat : ss[1] < ss[2]}

\* A set of natural numbers that is not empty has a least element.  An
\* induction is done with it by looking at the least counterexample.
LEMMA LeastNumber ==
  ASSUME NEW S \in SUBSET Nat, S # {}
  PROVE  \E x \in S : \A y \in S : x <= y
<1>1. OpToRel(<, Nat) = LessThan
  BY Zenon DEF OpToRel, LessThan
<1>2. IsWellFoundedOn(LessThan, Nat)
  BY <1>1, NatLessThanWellFounded, Zenon
<1>3. PICK x \in S : \A y \in S : ~(<<y, x>> \in LessThan)
  <2>1. S \subseteq Nat
    OBVIOUS
  <2> QED
    BY <1>2, <2>1, WFMin
<1>4. ASSUME NEW y \in S PROVE x <= y
  <2>1. x \in Nat /\ y \in Nat /\ ~(<<y, x>> \in LessThan)
    BY <1>3
  <2>2. ~(y < x)
    BY <2>1 DEF LessThan
  <2> QED
    BY <2>1, <2>2
<1> QED
  BY <1>4

\* A set that a sequence enumerates without repetition has as many elements as
\* the sequence.
LEMMA EnumerationCounts ==
  ASSUME NEW S, NEW s \in Seq(S),
         \A j, k \in 1 .. Len(s) : s[j] = s[k] => j = k,
         \A x \in S : \E k \in 1 .. Len(s) : s[k] = x
  PROVE  IsFiniteSet(S) /\ Cardinality(S) = Len(s)
<1>1. Len(s) \in Nat /\ s \in [1 .. Len(s) -> S]
  OBVIOUS
<1>2. s \in Bijection(1 .. Len(s), S)
  BY <1>1 DEF Bijection, Injection, Surjection, IsInjective
<1>3. ExistsBijection(1 .. Len(s), S)
  BY <1>2 DEF ExistsBijection
<1>4. IsFiniteSet(1 .. Len(s)) /\ Cardinality(1 .. Len(s)) = Len(s)
  BY <1>1, FS_Interval
<1> QED
  BY <1>3, <1>4, FS_Bijection

\* Two sets together have no more elements than one and the other.
LEMMA UnionAtMost ==
  ASSUME NEW S, NEW T, IsFiniteSet(S), IsFiniteSet(T)
  PROVE  /\ IsFiniteSet(S \cup T) /\ Cardinality(S) \in Nat /\ Cardinality(T) \in Nat
         /\ Cardinality(S \cup T) \in Nat
         /\ Cardinality(S \cup T) <= Cardinality(S) + Cardinality(T)
<1>1. IsFiniteSet(S \cup T) /\ IsFiniteSet(S \cap T)
  BY FS_Union, FS_Intersection
<1>2. Cardinality(S \cup T) = Cardinality(S) + Cardinality(T) - Cardinality(S \cap T)
  BY FS_Union
<1>3. /\ Cardinality(S) \in Nat /\ Cardinality(T) \in Nat
      /\ Cardinality(S \cup T) \in Nat /\ Cardinality(S \cap T) \in Nat
  BY <1>1, FS_CardinalityType
<1> QED
  BY <1>1, <1>2, <1>3

\* The elements of B that g sends to p.
Fibre(B, g, p) == {b \in B : g[b] = p}

\* Every number of e is the sum of four numbers of f, at s1 to s4, and every
\* number of f is in some sum.
Gathers(C, D, f, e, s1, s2, s3, s4) ==
  /\ f \in [C -> Nat] /\ e \in [D -> Nat]
  /\ s1 \in [D -> C] /\ s2 \in [D -> C] /\ s3 \in [D -> C] /\ s4 \in [D -> C]
  /\ \A c \in D : e[c] = f[s1[c]] + f[s2[c]] + f[s3[c]] + f[s4[c]]
  /\ \A p \in C : \E c \in D : p \in {s1[c], s2[c], s3[c], s4[c]}

\* Then e counts what f counts.
LEMMA FibresAdd ==
  ASSUME NEW C, NEW D, NEW f, NEW e, NEW s1, NEW s2, NEW s3, NEW s4,
         Gathers(C, D, f, e, s1, s2, s3, s4), NEW B, IsFiniteSet(B), NEW g \in [B -> C],
         \A p \in C : f[p] >= Cardinality(Fibre(B, g, p))
  PROVE  \E k \in [B -> D] : \A c \in D : e[c] >= Cardinality(Fibre(B, k, c))
<1> DEFINE In4(p, c) == p \in {s1[c], s2[c], s3[c], s4[c]}
           k == [b \in B |-> CHOOSE c \in D : In4(g[b], c)]
<1>0. /\ f \in [C -> Nat] /\ e \in [D -> Nat]
      /\ s1 \in [D -> C] /\ s2 \in [D -> C] /\ s3 \in [D -> C] /\ s4 \in [D -> C]
      /\ \A c \in D : e[c] = f[s1[c]] + f[s2[c]] + f[s3[c]] + f[s4[c]]
      /\ \A p \in C : \E c \in D : p \in {s1[c], s2[c], s3[c], s4[c]}
  BY DEF Gathers
<1>1. \A b \in B : k[b] \in D /\ In4(g[b], k[b])
  <2> SUFFICES ASSUME NEW b \in B PROVE k[b] \in D /\ In4(g[b], k[b])
    OBVIOUS
  <2>1. \E c \in D : In4(g[b], c)
    BY <1>0
  <2>2. k[b] = CHOOSE c \in D : In4(g[b], c)
    OBVIOUS
  <2> HIDE DEF In4, k
  <2> QED
    BY <2>1, <2>2
<1>2. k \in [B -> D]
  <2>1. k = [b \in B |-> k[b]]
    OBVIOUS
  <2> HIDE DEF k
  <2> QED
    BY <1>1, <2>1
<1> HIDE DEF k
<1>3. ASSUME NEW c \in D PROVE e[c] >= Cardinality(Fibre(B, k, c))
  <2> DEFINE F(p) == Fibre(B, g, p)
  <2>1. PICK p1, p2, p3, p4 \in C : p1 = s1[c] /\ p2 = s2[c] /\ p3 = s3[c] /\ p4 = s4[c]
    BY <1>0
  <2>2. Fibre(B, k, c) \subseteq ((F(p1) \cup F(p2)) \cup F(p3)) \cup F(p4)
    BY <1>1, <2>1 DEF Fibre
  <2>3. \A p \in C : IsFiniteSet(F(p)) /\ Cardinality(F(p)) <= f[p] /\ f[p] \in Nat
    <3>1. \A p \in C : F(p) \subseteq B
      BY DEF Fibre
    <3>2. \A p \in C : IsFiniteSet(F(p))
      BY <3>1, FS_Subset
    <3>3. \A p \in C : Cardinality(F(p)) \in Nat
      BY <3>2, FS_CardinalityType
    <3>4. \A p \in C : f[p] \in Nat /\ f[p] >= Cardinality(F(p))
      BY <1>0
    <3> HIDE DEF F
    <3> QED
      BY <3>2, <3>3, <3>4
  <2> HIDE DEF F
  <2>4. ASSUME NEW S, IsFiniteSet(S), NEW m \in Nat, Cardinality(S) <= m, NEW p \in C
        PROVE  IsFiniteSet(S \cup F(p)) /\ Cardinality(S \cup F(p)) <= m + f[p] /\ m + f[p] \in Nat
    <3>1. PICK T, l : T = F(p) /\ l = f[p]
      OBVIOUS
    <3>2. IsFiniteSet(T) /\ Cardinality(T) <= l /\ l \in Nat
      BY <2>3, <3>1
    <3>3. /\ IsFiniteSet(S \cup T) /\ Cardinality(S) \in Nat /\ Cardinality(T) \in Nat
          /\ Cardinality(S \cup T) \in Nat
          /\ Cardinality(S \cup T) <= Cardinality(S) + Cardinality(T)
      BY <2>4, <3>2, UnionAtMost
    <3> QED
      BY <2>4, <3>1, <3>2, <3>3
  <2>5. PICK A, A2, A3, m, m2, m3 :
          /\ A = F(p1) \cup F(p2) /\ A2 = A \cup F(p3) /\ A3 = A2 \cup F(p4)
          /\ m = f[p1] + f[p2] /\ m2 = m + f[p3] /\ m3 = m2 + f[p4]
    OBVIOUS
  <2>6. IsFiniteSet(A) /\ Cardinality(A) <= m /\ m \in Nat
    <3>1. IsFiniteSet(F(p1)) /\ f[p1] \in Nat /\ Cardinality(F(p1)) <= f[p1]
      BY <2>3
    <3> QED
      BY <2>4, <2>5, <3>1
  <2>7. IsFiniteSet(A2) /\ Cardinality(A2) <= m2 /\ m2 \in Nat
    BY <2>4, <2>5, <2>6
  <2>8. IsFiniteSet(A3) /\ Cardinality(A3) <= m3 /\ m3 \in Nat
    BY <2>4, <2>5, <2>7
  <2>9. Cardinality(Fibre(B, k, c)) \in Nat /\ Cardinality(Fibre(B, k, c)) <= Cardinality(A3)
    <3>1. Fibre(B, k, c) \subseteq A3
      BY <2>2, <2>5
    <3>2. IsFiniteSet(Fibre(B, k, c)) /\ Cardinality(Fibre(B, k, c)) <= Cardinality(A3)
      BY <2>8, <3>1, FS_Subset
    <3> QED
      BY <3>2, FS_CardinalityType
  <2>10. Cardinality(A3) \in Nat
    BY <2>8, FS_CardinalityType
  <2>11. e[c] = m3
    BY <1>0, <2>1, <2>5
  <2> QED
    BY <2>8, <2>9, <2>10, <2>11
<1> QED
  BY <1>2, <1>3

\* A sequence without its p-th element.
WithoutAt(s, p) == SubSeq(s, 1, p - 1) \o SubSeq(s, p + 1, Len(s))

\* The elements after it move up by one.
LEMMA WithoutElement ==
  ASSUME NEW S, NEW s \in Seq(S), NEW p \in 1 .. Len(s)
  PROVE  /\ WithoutAt(s, p) \in Seq(S) /\ Len(WithoutAt(s, p)) = Len(s) - 1
         /\ \A j \in 1 .. Len(s) - 1 : WithoutAt(s, p)[j] = IF j < p THEN s[j] ELSE s[j + 1]
<1> DEFINE w == WithoutAt(s, p)
<1> DEFINE a == SubSeq(s, 1, p - 1)
           b == SubSeq(s, p + 1, Len(s))
           n == Len(s)
<1>1. n \in Nat /\ p \in Int /\ p - 1 \in Int /\ p + 1 \in Int /\ \A i \in 1 .. n : s[i] \in S
  OBVIOUS
<1>2. /\ \A i \in 1 .. p - 1 : s[i] \in S
      /\ \A i \in p + 1 .. n : s[i] \in S
  BY <1>1
<1>3. /\ a \in Seq(S) /\ Len(a) = IF 1 <= p - 1 THEN (p - 1) - 1 + 1 ELSE 0
      /\ \A i \in 1 .. (p - 1) - 1 + 1 : a[i] = s[1 + i - 1]
  BY <1>1, <1>2, SubSeqProperties
<1>4. /\ b \in Seq(S) /\ Len(b) = IF p + 1 <= n THEN n - (p + 1) + 1 ELSE 0
      /\ \A i \in 1 .. n - (p + 1) + 1 : b[i] = s[(p + 1) + i - 1]
  BY <1>1, <1>2, SubSeqProperties
<1> HIDE DEF a, b, n
<1>5. /\ a \o b \in Seq(S) /\ Len(a \o b) = Len(a) + Len(b)
      /\ \A i \in 1 .. Len(a) + Len(b) :
            (a \o b)[i] = IF i <= Len(a) THEN a[i] ELSE b[i - Len(a)]
  BY <1>3, <1>4, ConcatProperties
<1>6. Len(a) = p - 1 /\ Len(b) = n - p
  BY <1>1, <1>3, <1>4 DEF n
<1>7. ASSUME NEW j \in 1 .. n - 1
      PROVE  (a \o b)[j] = IF j < p THEN s[j] ELSE s[j + 1]
  <2>1. j \in 1 .. Len(a) + Len(b) /\ (j <= Len(a) <=> j < p)
    BY <1>1, <1>6 DEF n
  <2>2. (a \o b)[j] = IF j <= Len(a) THEN a[j] ELSE b[j - (p - 1)]
    BY <1>5, <1>6, <2>1
  <2>3. CASE j < p
    <3>1. j \in 1 .. (p - 1) - 1 + 1 /\ 1 + j - 1 = j
      BY <1>1, <2>3
    <3> QED
      BY <1>3, <2>1, <2>2, <2>3, <3>1
  <2>4. CASE ~(j < p)
    <3>1. /\ j - (p - 1) \in 1 .. n - (p + 1) + 1
          /\ (p + 1) + (j - (p - 1)) - 1 = j + 1
      BY <1>1, <2>4 DEF n
    <3> QED
      BY <1>4, <2>1, <2>2, <2>4, <3>1
  <2> QED
    BY <2>3, <2>4
<1>8. w = a \o b
  BY DEF a, b, WithoutAt
<1> HIDE DEF w
<1>9. w \in Seq(S) /\ Len(w) = n - 1
  <2>1. Len(a) + Len(b) = n - 1
    BY <1>1, <1>6
  <2> QED
    BY <1>5, <1>8, <2>1, Zenon
<1>10. \A j \in 1 .. n - 1 : w[j] = IF j < p THEN s[j] ELSE s[j + 1]
  BY <1>7, <1>8
<1> QED
  BY <1>9, <1>10 DEF n, w

\* A sequence all of whose elements are in S is a sequence over S.
LEMMA SeqOver ==
  ASSUME NEW T, NEW s \in Seq(T), NEW S, \A k \in 1 .. Len(s) : s[k] \in S
  PROVE  s \in Seq(S)
<1>1. Len(s) \in Nat /\ s \in [1 .. Len(s) -> S]
  OBVIOUS
<1> QED
  BY <1>1

\* Counting a set that has at most one element more, or lacks one.
LEMMA OneMore ==
  ASSUME NEW S, IsFiniteSet(S), NEW x, NEW T, T \subseteq S \cup {x}
  PROVE  IsFiniteSet(T) /\ Cardinality(T) <= Cardinality(S) + 1
<1> DEFINE U == S \cup {x}
<1>1. IsFiniteSet(U) /\ Cardinality(U) = IF x \in S THEN Cardinality(S) ELSE Cardinality(S) + 1
  BY FS_AddElement
<1>2. T \in SUBSET U
  OBVIOUS
<1> HIDE DEF U
<1>3. IsFiniteSet(T) /\ Cardinality(T) <= Cardinality(U)
  BY <1>1, <1>2, FS_Subset
<1>4. Cardinality(S) \in Nat /\ Cardinality(T) \in Nat /\ Cardinality(U) \in Nat
  BY <1>1, <1>3, FS_CardinalityType
<1> QED
  BY <1>1, <1>3, <1>4

LEMMA OneLess ==
  ASSUME NEW S, IsFiniteSet(S), NEW x \in S, NEW T, T \subseteq S \ {x}
  PROVE  IsFiniteSet(T) /\ Cardinality(T) + 1 <= Cardinality(S)
<1> DEFINE U == S \ {x}
<1>1. IsFiniteSet(U) /\ Cardinality(U) = Cardinality(S) - 1
  BY FS_RemoveElement
<1>2. T \in SUBSET U
  OBVIOUS
<1> HIDE DEF U
<1>3. IsFiniteSet(T) /\ Cardinality(T) <= Cardinality(U)
  BY <1>1, <1>2, FS_Subset
<1>4. Cardinality(S) \in Nat /\ Cardinality(T) \in Nat /\ Cardinality(U) \in Nat
  BY <1>1, <1>3, FS_CardinalityType
<1> QED
  BY <1>1, <1>3, <1>4
=============================================================================
