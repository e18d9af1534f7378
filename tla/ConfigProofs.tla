---------------------------- MODULE ConfigProofs ----------------------------
(***************************************************************************)
(* Theorems about module ConfigFile, for files of any length and tables of *)
(* any size.                                                               *)
(***************************************************************************)
EXTENDS ConfigFile, ProofLemmas

\* While the file is read there is a card for every line that names a display;
\* the last line may be stored twice, once the end has been reached.
ReadInv ==
  /\ TypeOK /\ cardInfo \in Seq(Lines \cup Garbage)
  /\ IF eof THEN pos = Len(file) /\ Len(cardInfo) >= Rank(pos) ELSE Len(cardInfo) = Rank(pos)
  /\ \A p \in UpTo(pos) : cardInfo[Rank(p)] = file[p]
  /\ done => ~More
-----------------------------------------------------------------------------
\* Counting the lines that name a display.
LEMMA RankFacts ==
  ASSUME TypeOK
  PROVE  /\ Rank(0) = 0 /\ UpTo(Len(file)) = Named
         /\ \A p \in 0 .. Len(file) : Rank(p) \in Nat
         /\ \A p \in 0 .. Len(file) - 1 :
              IF file[p + 1] \in Ignored
              THEN UpTo(p + 1) = UpTo(p) /\ Rank(p + 1) = Rank(p)
              ELSE UpTo(p + 1) = UpTo(p) \cup {p + 1} /\ Rank(p + 1) = Rank(p) + 1
         /\ \A p \in 0 .. Len(file), q \in Named :
              /\ q <= p => Rank(q) <= Rank(p) /\ Rank(q) >= 1
              /\ q > p => Rank(q) > Rank(p)
<1> DEFINE n == Len(file)
<1>1. n \in Nat
  BY DEF TypeOK
<1>2. n = Len(file)
  OBVIOUS
<1> HIDE DEF n
<1>3. Named \subseteq 1 .. n /\ \A p \in 1 .. n : p \in Named <=> file[p] \notin Ignored
  BY <1>2 DEF Named
<1>4. IsFiniteSet(Named)
  <2>1. 1 \in Int /\ n \in Int
    BY <1>1
  <2>2. IsFiniteSet(1 .. n)
    BY <2>1, FS_Interval
  <2> QED
    BY <1>3, <2>2, FS_Subset
<1>5. \A p : IsFiniteSet(UpTo(p)) /\ Rank(p) \in Nat /\ Rank(p) = Cardinality(UpTo(p))
  <2> SUFFICES ASSUME NEW p
               PROVE  IsFiniteSet(UpTo(p)) /\ Rank(p) \in Nat /\ Rank(p) = Cardinality(UpTo(p))
    OBVIOUS
  <2>1. UpTo(p) \in SUBSET Named
    BY DEF UpTo
  <2>2. IsFiniteSet(UpTo(p))
    BY <1>4, <2>1, FS_Subset
  <2>3. Rank(p) = Cardinality(UpTo(p))
    BY DEF Rank
  <2>4. Cardinality(UpTo(p)) \in Nat
    BY <2>2, FS_CardinalityType
  <2> QED
    BY <2>2, <2>3, <2>4
<1>6. UpTo(0) = {} /\ UpTo(n) = Named
  <2>1. \A x \in Named : ~(x <= 0) /\ x <= n
    BY <1>1, <1>3
  <2> QED
    BY <2>1 DEF UpTo
<1>7. ASSUME NEW p \in 0 .. n - 1
      PROVE  IF file[p + 1] \in Ignored
             THEN UpTo(p + 1) = UpTo(p) /\ Rank(p + 1) = Rank(p)
             ELSE UpTo(p + 1) = UpTo(p) \cup {p + 1} /\ Rank(p + 1) = Rank(p) + 1
  <2>1. p + 1 \in 1 .. n /\ p + 1 \notin UpTo(p) /\ \A q \in 1 .. n : q <= p + 1 <=> q <= p \/ q = p + 1
    BY <1>1 DEF UpTo
  <2>2. CASE file[p + 1] \in Ignored
    <3>1. UpTo(p + 1) = UpTo(p)
      BY <1>3, <2>1, <2>2 DEF UpTo
    <3> QED
      BY <2>2, <3>1 DEF Rank
  <2>3. CASE file[p + 1] \notin Ignored
    <3>1. UpTo(p + 1) = UpTo(p) \cup {p + 1}
      BY <1>3, <2>1, <2>3 DEF UpTo
    <3>2. Cardinality(UpTo(p) \cup {p + 1}) = Cardinality(UpTo(p)) + 1
      BY <1>5, <2>1, FS_AddElement
    <3> QED
      BY <2>3, <3>1, <3>2 DEF Rank
  <2> QED
    BY <2>2, <2>3
<1>8. ASSUME NEW p \in 0 .. n, NEW q \in Named
      PROVE  /\ q <= p => Rank(q) <= Rank(p) /\ Rank(q) >= 1
             /\ q > p => Rank(q) > Rank(p)
  <2>0. \A x \in Named : x \in Int
    BY <1>3
  <2>1. q \in 1 .. n /\ q \in UpTo(q) /\ p \in Int /\ q \in Int
    BY <1>1, <1>3 DEF UpTo
  <2>2. Rank(q) >= 1
    <3>1. Rank(q) # 0
      BY <1>5, <2>1, FS_EmptySet
    <3> QED
      BY <1>5, <3>1
  <2>3. ASSUME q <= p PROVE Rank(q) <= Rank(p)
    <3>0. \A x \in Named : x <= q => x <= p
      BY <2>1, <2>3, <2>0
    <3>1. UpTo(q) \subseteq UpTo(p)
      BY <3>0 DEF UpTo
    <3>2. UpTo(q) \in SUBSET UpTo(p) /\ IsFiniteSet(UpTo(p))
      BY <1>5, <3>1
    <3>3. Cardinality(UpTo(q)) <= Cardinality(UpTo(p))
      BY <3>2, FS_Subset
    <3> QED
      BY <3>3 DEF Rank
  <2>4. ASSUME q > p PROVE Rank(q) > Rank(p)
    <3>0. \A x \in Named : x <= p => x <= q /\ x # q
      BY <2>0, <2>1, <2>4
    <3>1. UpTo(p) \subseteq UpTo(q) \ {q}
      BY <3>0 DEF UpTo
    <3>2. Cardinality(UpTo(p)) + 1 <= Cardinality(UpTo(q))
      BY <1>5, <2>1, <3>1, OneLess
    <3>3. Rank(p) + 1 <= Rank(q)
      BY <3>2 DEF Rank
    <3> QED
      BY <1>5, <3>3
  <2> QED
    BY <2>2, <2>3, <2>4
<1>9. Rank(0) = 0
  BY <1>5, <1>6, FS_EmptySet
<1> QED
  BY <1>2, <1>5, <1>6, <1>7, <1>8, <1>9
-----------------------------------------------------------------------------
LEMMA ReadInit == Init => ReadInv
<1> SUFFICES ASSUME Init PROVE ReadInv
  OBVIOUS
<1>1. file \in Seq(Lines)
  <2>1. PICK n \in 0 .. MaxLines : file \in [1 .. n -> Lines]
    BY DEF Init
  <2>2. n \in Nat
    BY ConfigAssumption
  <2> QED
    BY <2>1, <2>2
<1>2. Len(file) \in Nat /\ MAX_NUM_CARDS \in Nat
  BY <1>1, ConfigAssumption
<1>3. TypeOK
  <2>1. pos \in 0 .. Len(file) /\ numChildren \in -1 .. MAX_NUM_CARDS
    BY <1>2 DEF Init
  <2>2. Len(cardInfo) = numChildren + 1
    BY DEF Init
  <2> QED
    BY <1>1, <2>1, <2>2 DEF Init, TypeOK
<1>4. Rank(0) = 0
  BY <1>3, RankFacts
<1>5. UpTo(0) = {}
  BY <1>2 DEF UpTo, Named
<1> QED
  BY <1>3, <1>4, <1>5 DEF Init, ReadInv, TypeOK

LEMMA ReadStep == ReadInv /\ [Next]_vars => ReadInv'
<1> SUFFICES ASSUME ReadInv, [Next]_vars PROVE ReadInv'
  OBVIOUS
<1>1. /\ TypeOK /\ file \in Seq(Lines) /\ Len(file) \in Nat /\ pos \in 0 .. Len(file)
      /\ numChildren \in -1 .. MAX_NUM_CARDS /\ Len(cardInfo) = numChildren + 1
      /\ cardInfo \in Seq(Lines \cup Garbage) /\ MAX_NUM_CARDS \in Nat
  BY ConfigAssumption DEF ReadInv, TypeOK
<1>2. CASE ReadLine
  <2> DEFINE len == Len(cardInfo)
  <2>1. ~done /\ ~eof /\ numChildren < MAX_NUM_CARDS /\ UNCHANGED <<file, newline, done>>
    BY <1>2 DEF ReadLine, More
  <2>2. \A p : UpTo(p)' = UpTo(p) /\ Rank(p)' = Rank(p)
    BY <2>1 DEF UpTo, Rank, Named
  <2>3. len \in Nat /\ len = Rank(pos) /\ \A p \in UpTo(pos) : Rank(p) \in 1 .. len
    <3>1. len \in Nat /\ len = Rank(pos)
      BY <1>1, <2>1 DEF ReadInv
    <3>2. \A p \in UpTo(pos) : p \in Named /\ p <= pos /\ p \in 0 .. Len(file)
      BY <1>1 DEF UpTo, Named
    <3>3. \A p \in UpTo(pos) : Rank(p) \in Nat /\ Rank(p) <= Rank(pos) /\ Rank(p) >= 1
      BY <1>1, <3>2, RankFacts
    <3> QED
      BY <3>1, <3>3
  <2>4. /\ line' \in Lines \cup Garbage
        /\ \/ line' \in Ignored /\ UNCHANGED <<numChildren, cardInfo>>
           \/ /\ line' \notin Ignored /\ numChildren' = numChildren + 1
              /\ cardInfo' = Append(cardInfo, line')
    <3>1. pos < Len(file) => file[pos + 1] \in Lines
      BY <1>1
    <3> QED
      BY <1>1, <1>2, <3>1 DEF ReadLine, Fgets, TypeOK
  <2>5. /\ cardInfo' \in Seq(Lines \cup Garbage)
        /\ \A k \in 1 .. len : cardInfo'[k] = cardInfo[k]
        /\ line' \in Ignored => Len(cardInfo') = len
        /\ line' \notin Ignored => Len(cardInfo') = len + 1 /\ cardInfo'[len + 1] = line'
    <3>1. PICK s, S, e : s = cardInfo /\ S = Lines \cup Garbage /\ e = line'
      OBVIOUS
    <3>2. s \in Seq(S) /\ e \in S
      BY <1>1, <2>4, <3>1
    <3>3. /\ Append(s, e) \in Seq(S) /\ Len(Append(s, e)) = Len(s) + 1
          /\ \A k \in 1 .. Len(s) : Append(s, e)[k] = s[k]
          /\ Append(s, e)[Len(s) + 1] = e
      BY <3>2, AppendProperties
    <3>4. cardInfo' = s \/ cardInfo' = Append(s, e)
      BY <2>4, <3>1
    <3> QED
      BY <2>4, <3>1, <3>2, <3>3, <3>4
  <2>6. numChildren' \in -1 .. MAX_NUM_CARDS /\ Len(cardInfo') = numChildren' + 1
    BY <1>1, <2>1, <2>4, <2>5
  <2> HIDE DEF len
  <2>7. \A p \in UpTo(pos) : cardInfo'[Rank(p)] = file[p]
    BY <2>3, <2>5 DEF ReadInv
  <2>8. CASE pos < Len(file)
    <3>1. line' = file[pos + 1] /\ pos' = pos + 1 /\ eof' = (pos + 1 = Len(file) /\ ~newline)
      BY <1>2, <2>8 DEF ReadLine, Fgets
    <3>2. pos \in 0 .. Len(file) - 1 /\ pos' \in 0 .. Len(file) /\ eof' \in BOOLEAN
      BY <1>1, <2>8, <3>1
    <3>3. IF line' \in Ignored
          THEN UpTo(pos + 1) = UpTo(pos) /\ Rank(pos + 1) = Rank(pos)
          ELSE UpTo(pos + 1) = UpTo(pos) \cup {pos + 1} /\ Rank(pos + 1) = Rank(pos) + 1
      BY <1>1, <3>1, <3>2, RankFacts
    <3>4. Len(cardInfo') = Rank(pos') /\ Rank(pos') \in Nat
      BY <2>3, <2>5, <3>1, <3>3
    <3>5. \A p \in UpTo(pos') : cardInfo'[Rank(p)] = file[p]
      <4>1. CASE line' \in Ignored
        BY <2>7, <3>1, <3>3, <4>1
      <4>2. CASE line' \notin Ignored
        <5>1. Rank(pos + 1) = len + 1 /\ cardInfo'[len + 1] = file[pos + 1]
          BY <2>3, <2>5, <3>1, <3>3, <4>2
        <5>2. UpTo(pos') = UpTo(pos) \cup {pos + 1}
          BY <3>1, <3>3, <4>2
        <5> QED
          BY <2>7, <5>1, <5>2
      <4> QED
        BY <4>1, <4>2
    <3>6. IF eof' THEN pos' = Len(file) /\ Len(cardInfo') >= Rank(pos')
          ELSE Len(cardInfo') = Rank(pos')
      <4>1. Len(cardInfo') >= Rank(pos')
        BY <3>4
      <4> QED
        BY <3>1, <3>4, <4>1
    <3>7. TypeOK'
      BY <1>1, <2>1, <2>4, <2>6, <3>2 DEF TypeOK
    <3> QED
      BY <2>1, <2>2, <2>5, <3>5, <3>6, <3>7 DEF ReadInv
  <2>9. CASE ~(pos < Len(file))
    <3>1. line' = line /\ pos' = pos /\ eof' = TRUE
      BY <1>2, <2>9 DEF ReadLine, Fgets
    <3>2. pos' = Len(file) /\ Len(cardInfo') >= Rank(pos')
      BY <1>1, <2>3, <2>5, <2>9, <3>1
    <3>3. TypeOK'
      BY <1>1, <2>1, <2>4, <2>6, <3>1 DEF TypeOK
    <3> QED
      BY <2>1, <2>2, <2>5, <2>7, <3>1, <3>2, <3>3 DEF ReadInv
  <2> QED
    BY <2>8, <2>9
<1>3. CASE UNCHANGED <<file, newline, pos, eof, line, numChildren, cardInfo>>
           /\ (done' = done \/ (done' = TRUE /\ ~More))
  <2>1. \A p : UpTo(p)' = UpTo(p) /\ Rank(p)' = Rank(p)
    BY <1>3 DEF UpTo, Rank, Named
  <2>2. TypeOK' /\ (More' <=> More)
    BY <1>1, <1>3 DEF TypeOK, More
  <2> QED
    BY <1>3, <2>1, <2>2 DEF ReadInv
<1> QED
  BY <1>2, <1>3 DEF Next, Close, vars

LEMMA ReadHolds == Spec => []ReadInv
BY ReadInit, ReadStep, PTL DEF Spec

\* The index of readConfigFile stays between -1 and MAX_NUM_CARDS, one past the
\* table, and counts the cards stored, whatever the file holds.
THEOREM ConfigTypes == Spec => []TypeOK
<1>1. ReadInv => TypeOK
  BY DEF ReadInv
<1> QED
  BY <1>1, ReadHolds, PTL

\* readConfigFile stores every display the file lists, in order, until the table
\* is full, whether or not the last line ends in a newline.
THEOREM CardsAreRead == Spec => []ListedCardsAreRead
<1>1. ReadInv => ListedCardsAreRead
  <2> SUFFICES ASSUME ReadInv, done
               PROVE  /\ InOrder
                      /\ Len(cardInfo) >= Cardinality(Named) \/ Len(cardInfo) > MAX_NUM_CARDS
    BY DEF ListedCardsAreRead
  <2>1. /\ TypeOK /\ pos \in 0 .. Len(file) /\ Len(file) \in Nat
        /\ numChildren \in -1 .. MAX_NUM_CARDS /\ Len(cardInfo) = numChildren + 1
        /\ MAX_NUM_CARDS \in Nat /\ ~More
    BY ConfigAssumption DEF ReadInv, TypeOK
  <2>2. CASE eof
    <3>1. pos = Len(file) /\ UpTo(pos) = Named /\ Len(cardInfo) >= Rank(pos)
      BY <2>1, <2>2, RankFacts DEF ReadInv
    <3>2. InOrder
      BY <3>1 DEF ReadInv, InOrder
    <3> QED
      BY <3>1, <3>2 DEF Rank
  <2>3. CASE ~eof
    <3>1. Len(cardInfo) = Rank(pos) /\ Len(cardInfo) > MAX_NUM_CARDS
      BY <2>1, <2>3 DEF ReadInv, More
    <3>2. ASSUME NEW p \in Named, Rank(p) <= Len(cardInfo) PROVE cardInfo[Rank(p)] = file[p]
      <4>1. p \in Int /\ pos \in Int /\ p \in 0 .. Len(file)
        BY <2>1 DEF Named
      <4>2. Rank(p) \in Nat /\ Rank(pos) \in Nat /\ (p > pos => Rank(p) > Rank(pos))
        BY <2>1, <4>1, RankFacts
      <4>3. p <= pos
        BY <3>1, <3>2, <4>1, <4>2
      <4> QED
        BY <4>3 DEF ReadInv, UpTo
    <3> QED
      BY <3>1, <3>2 DEF InOrder
  <2> QED
    BY <2>2, <2>3
<1> QED
  BY <1>1, ReadHolds, PTL
=============================================================================
