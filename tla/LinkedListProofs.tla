-------------------------- MODULE LinkedListProofs --------------------------
(***************************************************************************)
(* Theorems about module LinkedList, for any set of items and callers, as  *)
(* long as an item has one owner at a time.                                *)
(***************************************************************************)
EXTENDS LinkedList, ProofLemmas

\* A thread that has checked an item finds it still on the list, and no two
\* threads have checked the same one: what makes the check before the lock safe.
ChecksStand ==
  \A t \in Threads : removing[t] # NULL =>
    /\ removing[t] \in list.on
    /\ \A u \in Threads : removing[u] = removing[t] => u = t

\* LinkedListAdd returns a list.
LEMMA AddType ==
  ASSUME NEW l \in Lists, NEW item \in Items, NEW location
  PROVE  LinkedListAdd(l, item, location) \in Lists
BY DEF Lists, Pointers, LinkedListAdd

\* LinkedListRemove returns a list.
LEMMA RemoveType ==
  ASSUME NEW l \in Lists, NEW item \in Items
  PROVE  LinkedListRemove(l, item) \in Lists
BY DEF Lists, Pointers, LinkedListRemove

\* LinkedListAdd at the head keeps the links in agreement.
LEMMA AddAtHeadAgrees ==
  ASSUME NEW l \in Lists, Agree(l), NEW item \in Items \ l.on
  PROVE  Agree(LinkedListAdd(l, item, "AT_HEAD"))
BY ListAssumption DEF Lists, Pointers, Agree, LinkedListAdd

\* LinkedListAdd at the tail keeps the links in agreement.
LEMMA AddAtTailAgrees ==
  ASSUME NEW l \in Lists, Agree(l), NEW item \in Items \ l.on
  PROVE  Agree(LinkedListAdd(l, item, "AT_TAIL"))
<1> DEFINE r == LinkedListAdd(l, item, "AT_TAIL")
           last == l.tail
<1>1. /\ l.on \subseteq Items /\ item \in Items /\ item \notin l.on /\ NULL \notin l.on
      /\ item # NULL /\ last \in l.on \cup {NULL}
  BY ListAssumption DEF Lists, Agree
<1>2. /\ r.on = l.on \cup {item}
      /\ r.head = IF l.head = NULL THEN item ELSE l.head
      /\ r.tail = item
      /\ \A x \in Items : r.next[x] = IF x = item THEN NULL ELSE IF x = last THEN item ELSE l.next[x]
      /\ \A x \in Items : r.prev[x] = IF x = item THEN last ELSE IF x = NULL THEN item ELSE l.prev[x]
  BY DEF LinkedListAdd
<1>3. /\ l.head \in l.on \cup {NULL}
      /\ l.head = NULL <=> last = NULL
      /\ last # NULL => l.next[last] = NULL
  BY DEF Agree
<1> HIDE DEF r, last
<1>4. ASSUME NEW x \in l.on
      PROVE  /\ l.next[x] \in l.on \cup {NULL} /\ l.prev[x] \in l.on \cup {NULL}
             /\ l.next[x] # NULL => l.prev[l.next[x]] = x
             /\ l.prev[x] # NULL => l.next[l.prev[x]] = x
             /\ l.next[x] = NULL <=> last = x
             /\ l.prev[x] = NULL <=> l.head = x
  BY DEF Agree, last
<1>5. ASSUME NEW x \in r.on
      PROVE  /\ r.next[x] \in r.on \cup {NULL} /\ r.prev[x] \in r.on \cup {NULL}
             /\ r.next[x] # NULL => r.prev[r.next[x]] = x
             /\ r.prev[x] # NULL => r.next[r.prev[x]] = x
             /\ r.next[x] = NULL <=> r.tail = x
             /\ r.prev[x] = NULL <=> r.head = x
  <2>1. CASE x = item
    <3>1. r.next[x] = NULL /\ r.prev[x] = last
      BY <1>1, <1>2, <2>1
    <3>2. last # NULL => r.next[last] = item
      BY <1>1, <1>2
    <3>3. last # NULL => last \in r.on /\ l.head # NULL
      BY <1>1, <1>2, <1>3
    <3>4. last = NULL => r.head = item
      BY <1>2, <1>3
    <3>5. last # NULL => r.head # item
      BY <1>1, <1>2, <1>3
    <3>6. r.tail = x /\ r.next[x] = NULL
      BY <1>2, <2>1, <3>1
    <3>7. r.prev[x] = NULL <=> r.head = x
      BY <2>1, <3>1, <3>4, <3>5
    <3>8. r.prev[x] \in r.on \cup {NULL} /\ (r.prev[x] # NULL => r.next[r.prev[x]] = x)
      BY <2>1, <3>1, <3>2, <3>3
    <3> QED
      BY <3>6, <3>7, <3>8
  <2>2. CASE x # item
    <3>1. x \in l.on /\ x \in Items /\ x # NULL
      BY <1>1, <1>2, <2>2
    <3>2. /\ r.next[x] = IF x = last THEN item ELSE l.next[x]
          /\ r.prev[x] = l.prev[x]
      BY <1>2, <2>2, <3>1
    <3>3. r.next[x] \in r.on \cup {NULL} /\ (r.next[x] # NULL => r.prev[r.next[x]] = x)
      BY <1>1, <1>2, <1>4, <3>1, <3>2
    <3>4. r.prev[x] \in r.on \cup {NULL} /\ (r.prev[x] # NULL => r.next[r.prev[x]] = x)
      <4>1. r.prev[x] \in l.on \cup {NULL} /\ (r.prev[x] # NULL => l.next[r.prev[x]] = x)
        BY <1>4, <3>1, <3>2
      <4> QED
        BY <1>1, <1>2, <1>3, <3>1, <4>1
    <3>5. /\ r.next[x] = NULL <=> r.tail = x
          /\ r.prev[x] = NULL <=> r.head = x
      BY <1>1, <1>2, <1>3, <1>4, <2>2, <3>1, <3>2
    <3> QED
      BY <3>3, <3>4, <3>5
  <2> QED
    BY <2>1, <2>2
<1>6. /\ r.head \in r.on \cup {NULL} /\ r.tail \in r.on \cup {NULL}
      /\ r.head = NULL <=> r.tail = NULL
  BY <1>1, <1>2, <1>3
<1>7. \A x \in r.on :
        /\ r.next[x] \in r.on \cup {NULL} /\ r.prev[x] \in r.on \cup {NULL}
        /\ r.next[x] # NULL => r.prev[r.next[x]] = x
        /\ r.prev[x] # NULL => r.next[r.prev[x]] = x
        /\ r.next[x] = NULL <=> r.tail = x
        /\ r.prev[x] = NULL <=> r.head = x
  BY <1>5, Zenon
<1>8. Agree(r)
  BY <1>6, <1>7 DEF Agree
<1> QED
  BY <1>8 DEF r

\* LinkedListRemove keeps the links in agreement.
LEMMA RemoveAgrees ==
  ASSUME NEW l \in Lists, Agree(l), NEW item \in l.on
  PROVE  Agree(LinkedListRemove(l, item))
<1> DEFINE r == LinkedListRemove(l, item)
           p == l.prev[item]
           n == l.next[item]
<1>1. /\ l.on \subseteq Items /\ item \in Items /\ NULL \notin l.on
      /\ l.next \in [Items -> Pointers] /\ l.prev \in [Items -> Pointers]
  BY ListAssumption DEF Lists
<1>2. /\ r.on = l.on \ {item}
      /\ r.head = IF l.head = item THEN n ELSE l.head
      /\ r.tail = IF l.tail = item THEN p ELSE l.tail
      /\ \A x \in Items : r.next[x] = IF x = p THEN n ELSE l.next[x]
      /\ \A x \in Items : r.prev[x] = IF x = n THEN p ELSE l.prev[x]
  BY DEF LinkedListRemove
<1>3. /\ p \in l.on \cup {NULL} /\ n \in l.on \cup {NULL}
      /\ p # NULL => l.next[p] = item
      /\ n # NULL => l.prev[n] = item
      /\ n = NULL <=> l.tail = item
      /\ p = NULL <=> l.head = item
  BY DEF Agree
<1> HIDE DEF r, p, n
<1>4. ASSUME NEW x \in r.on
      PROVE  /\ r.next[x] \in r.on \cup {NULL}
             /\ r.next[x] # NULL => r.prev[r.next[x]] = x
             /\ r.next[x] = NULL <=> r.tail = x
  <2>1. x \in l.on /\ x # item /\ x \in Items
    BY <1>1, <1>2, <1>4
  <2>2. /\ l.next[x] \in l.on \cup {NULL}
        /\ l.next[x] # NULL => l.prev[l.next[x]] = x
        /\ l.next[x] = NULL <=> l.tail = x
    BY <2>1 DEF Agree
  <2>3. CASE x = p
    <3>1. r.next[x] = n /\ n # item
      BY <1>2, <1>3, <2>1, <2>3 DEF Agree
    <3> QED
      BY <1>1, <1>2, <1>3, <2>1, <2>2, <2>3, <3>1
  <2>4. CASE x # p
    <3>1. r.next[x] = l.next[x] /\ l.next[x] # item
      BY <1>1, <1>2, <2>1, <2>2, <2>4 DEF p
    <3> QED
      BY <1>1, <1>2, <1>3, <2>1, <2>2, <2>4, <3>1
  <2> QED
    BY <2>3, <2>4
<1>5. ASSUME NEW x \in r.on
      PROVE  /\ r.prev[x] \in r.on \cup {NULL}
             /\ r.prev[x] # NULL => r.next[r.prev[x]] = x
             /\ r.prev[x] = NULL <=> r.head = x
  <2>1. x \in l.on /\ x # item /\ x \in Items
    BY <1>1, <1>2, <1>5
  <2>2. /\ l.prev[x] \in l.on \cup {NULL}
        /\ l.prev[x] # NULL => l.next[l.prev[x]] = x
        /\ l.prev[x] = NULL <=> l.head = x
    BY <2>1 DEF Agree
  <2>3. CASE x = n
    <3>1. r.prev[x] = p /\ p # item
      BY <1>2, <1>3, <2>1, <2>3 DEF Agree
    <3> QED
      BY <1>1, <1>2, <1>3, <2>1, <2>2, <2>3, <3>1
  <2>4. CASE x # n
    <3>1. r.prev[x] = l.prev[x] /\ l.prev[x] # item
      BY <1>1, <1>2, <2>1, <2>2, <2>4 DEF n
    <3> QED
      BY <1>1, <1>2, <1>3, <2>1, <2>2, <2>4, <3>1
  <2> QED
    BY <2>3, <2>4
<1>6. /\ r.head \in r.on \cup {NULL} /\ r.tail \in r.on \cup {NULL}
      /\ r.head = NULL <=> r.tail = NULL
  BY <1>1, <1>2, <1>3, <1>4, <1>5 DEF Agree
<1> QED
  BY <1>4, <1>5, <1>6 DEF Agree, r

\* Types, links and checks hold at the start.
LEMMA ListInit == Init => TypeOK /\ LinksAgree /\ ChecksStand
BY DEF Init, EmptyList, TypeOK, Lists, Pointers, LinksAgree, Agree, ChecksStand

\* Every call keeps types, links and checks.
LEMMA ListStep ==
  ASSUME OneOwner
  PROVE  TypeOK /\ LinksAgree /\ ChecksStand /\ [Next]_vars
           => TypeOK' /\ LinksAgree' /\ ChecksStand'
<1> SUFFICES ASSUME TypeOK, LinksAgree, ChecksStand, [Next]_vars
             PROVE  TypeOK' /\ LinksAgree' /\ ChecksStand'
  OBVIOUS
<1>1. ASSUME NEW item \in Items, NEW location \in {"AT_HEAD", "AT_TAIL"}, Add(item, location)
      PROVE  TypeOK' /\ LinksAgree' /\ ChecksStand'
  <2>1. TypeOK'
    BY <1>1, AddType DEF Add, TypeOK
  <2>2. LinksAgree'
    BY <1>1, AddAtHeadAgrees, AddAtTailAgrees DEF Add, TypeOK, LinksAgree
  <2>3. list'.on = list.on \cup {item}
    BY <1>1 DEF Add, LinkedListAdd
  <2>4. ChecksStand'
    BY <1>1, <2>3 DEF Add, ChecksStand
  <2> QED
    BY <2>1, <2>2, <2>4
<1>2. ASSUME NEW item \in Items, NEW t \in Threads, RemoveCheck(t, item)
      PROVE  TypeOK' /\ LinksAgree' /\ ChecksStand'
  <2>1. TypeOK'
    BY <1>2 DEF RemoveCheck, TypeOK, Pointers
  <2>2. LinksAgree'
    BY <1>2 DEF RemoveCheck, LinksAgree
  <2>3. ChecksStand'
    BY <1>2 DEF RemoveCheck, Free, ChecksStand, TypeOK
  <2> QED
    BY <2>1, <2>2, <2>3
<1>3. ASSUME NEW item \in Items, RemoveLocked(item)
      PROVE  TypeOK' /\ LinksAgree' /\ ChecksStand'
  <2>1. TypeOK'
    BY <1>3, RemoveType DEF RemoveLocked, TypeOK
  <2>2. LinksAgree'
    BY <1>3, RemoveAgrees DEF RemoveLocked, TypeOK, LinksAgree
  <2>3. list'.on = list.on \ {item}
    BY <1>3 DEF RemoveLocked, LinkedListRemove
  <2>4. ChecksStand'
    BY <1>3, <2>3 DEF RemoveLocked, Free, ChecksStand
  <2> QED
    BY <2>1, <2>2, <2>4
<1>4. ASSUME NEW t \in Threads, RemoveUnlink(t)
      PROVE  TypeOK' /\ LinksAgree' /\ ChecksStand'
  <2>1. removing[t] \in list.on /\ removing[t] \in Items
    BY <1>4 DEF RemoveUnlink, ChecksStand, TypeOK, Pointers
  <2>2. TypeOK'
    BY <1>4, <2>1, RemoveType DEF RemoveUnlink, TypeOK, Pointers
  <2>3. LinksAgree'
    BY <1>4, <2>1, RemoveAgrees DEF RemoveUnlink, TypeOK, LinksAgree
  <2>4. list'.on = list.on \ {removing[t]}
    BY <1>4 DEF RemoveUnlink, LinkedListRemove
  <2>5. ChecksStand'
    BY <1>4, <2>4 DEF RemoveUnlink, ChecksStand, TypeOK
  <2> QED
    BY <2>2, <2>3, <2>5
<1>5. CASE UNCHANGED vars
  BY <1>5 DEF vars, TypeOK, LinksAgree, ChecksStand
<1> QED
  BY <1>1, <1>2, <1>3, <1>4, <1>5 DEF Next

\* The links of a list agree after any calls of LinkedListAdd and
\* LinkedListRemove by any number of threads, although LinkedListRemove looks
\* at item->list before it takes the mutex, provided no two of them have a
\* call on one item.
THEOREM ListLinksAgree ==
  ASSUME OneOwner
  PROVE  Spec => []LinksAgree
BY ListInit, ListStep, PTL DEF Spec
-----------------------------------------------------------------------------
(***************************************************************************)
(* The list implements the sequence of module OrderedList.                 *)
(***************************************************************************)

\* s lists the items on l in the order of the links, each of them once.
Walk(l, s) ==
  /\ s \in Seq(l.on)
  /\ \A x \in l.on : \E k \in 1 .. Len(s) : s[k] = x
  /\ \A j, k \in 1 .. Len(s) : s[j] = s[k] => j = k
  /\ l.head = IF Len(s) = 0 THEN NULL ELSE s[1]
  /\ l.tail = IF Len(s) = 0 THEN NULL ELSE s[Len(s)]
  /\ \A k \in 1 .. Len(s) : l.next[s[k]] = IF k = Len(s) THEN NULL ELSE s[k + 1]
  /\ \A k \in 1 .. Len(s) : l.prev[s[k]] = IF k = 1 THEN NULL ELSE s[k - 1]

\* The list can be walked from end to end, and the walk meets all of it.
CanWalk(l) == \E s : Walk(l, s)

\* The walk that follows the links from the head is the only one there is.
LEMMA WalkIsOrder ==
  ASSUME NEW l \in Lists, NEW s, Walk(l, s)
  PROVE  Order(l) = s
<1> DEFINE n == Len(s)
           Rec(f) == [k \in 1 .. n |-> IF k = 1 THEN l.head ELSE l.next[f[k - 1]]]
<1>1. n \in Nat /\ s \in [1 .. n -> l.on] /\ s = [k \in 1 .. n |-> s[k]]
  BY DEF Walk
<1>2. Cardinality(l.on) = n
  BY EnumerationCounts DEF Walk
<1>3. s = Rec(s)
  <2>1. ASSUME NEW k \in 1 .. n
        PROVE  s[k] = IF k = 1 THEN l.head ELSE l.next[s[k - 1]]
    BY <1>1, <2>1 DEF Walk
  <2> QED
    BY <1>1, <2>1
<1>4. Order(l) = CHOOSE f : f = Rec(f)
  BY <1>2 DEF Order
<1>5. Order(l) = Rec(Order(l))
  <2> HIDE DEF Rec
  <2> QED
    BY <1>3, <1>4
<1>6. ASSUME NEW f, f = Rec(f) PROVE f = s
  <2> DEFINE Bad == {k \in 1 .. n : f[k] # s[k]}
  <2>1. SUFFICES ASSUME Bad # {} PROVE FALSE
    BY <1>1, <1>6
  <2>2. Bad \in SUBSET Nat
    BY <1>1
  <2>3. PICK k \in Bad : \A j \in Bad : k <= j
    <3> HIDE DEF Bad
    <3> QED
      BY <2>1, <2>2, LeastNumber
  <2>4. k \in 1 .. n /\ f[k] # s[k]
    OBVIOUS
  <2>5. k # 1 => k - 1 \in 1 .. n /\ f[k - 1] = s[k - 1]
    BY <1>1, <2>3, <2>4
  <2>6. f[k] = IF k = 1 THEN l.head ELSE l.next[f[k - 1]]
    BY <1>6, <2>4
  <2>7. s[k] = IF k = 1 THEN l.head ELSE l.next[s[k - 1]]
    BY <1>3, <2>4
  <2> QED
    BY <2>4, <2>5, <2>6, <2>7
<1> QED
  <2> HIDE DEF Rec
  <2> QED
    BY <1>5, <1>6

\* What Walk says, without the sequence operators.
LEMMA WalkFacts ==
  ASSUME NEW l \in Lists, NEW s, Walk(l, s), NEW n, n = Len(s)
  PROVE  /\ l.on \subseteq Items /\ NULL \notin Items /\ n \in Nat
         /\ \A k \in 1 .. n : s[k] \in l.on
         /\ \A x \in l.on : \E k \in 1 .. n : s[k] = x
         /\ \A j, k \in 1 .. n : s[j] = s[k] => j = k
         /\ l.head = IF n = 0 THEN NULL ELSE s[1]
         /\ l.tail = IF n = 0 THEN NULL ELSE s[n]
         /\ \A k \in 1 .. n : l.next[s[k]] = IF k = n THEN NULL ELSE s[k + 1]
         /\ \A k \in 1 .. n : l.prev[s[k]] = IF k = 1 THEN NULL ELSE s[k - 1]
BY ListAssumption DEF Walk, Lists

\* LinkedListAdd at the head puts the item before the others.
LEMMA WalkAddHead ==
  ASSUME NEW l \in Lists, NEW s, Walk(l, s), NEW item \in Items \ l.on
  PROVE  Walk(LinkedListAdd(l, item, "AT_HEAD"), <<item>> \o s)
<1> DEFINE r == LinkedListAdd(l, item, "AT_HEAD")
           w == <<item>> \o s
           n == Len(s)
<1>1. /\ l.on \subseteq Items /\ NULL \notin Items /\ n \in Nat
      /\ \A k \in 1 .. n : s[k] \in l.on
      /\ \A x \in l.on : \E k \in 1 .. n : s[k] = x
      /\ l.head = IF n = 0 THEN NULL ELSE s[1]
      /\ l.tail = IF n = 0 THEN NULL ELSE s[n]
  BY WalkFacts
<1>2. \A j, k \in 1 .. n : s[j] = s[k] => j = k
  BY WalkFacts
<1>3. /\ \A k \in 1 .. n : l.next[s[k]] = IF k = n THEN NULL ELSE s[k + 1]
      /\ \A k \in 1 .. n : l.prev[s[k]] = IF k = 1 THEN NULL ELSE s[k - 1]
  BY WalkFacts
<1>4. /\ r.on = l.on \cup {item}
      /\ r.head = item
      /\ r.tail = IF l.tail = NULL THEN item ELSE l.tail
      /\ \A x \in Items : r.next[x] = IF x = item THEN l.head ELSE IF x = NULL THEN item ELSE l.next[x]
      /\ \A x \in Items : r.prev[x] = IF x = item THEN NULL ELSE IF x = l.head THEN item ELSE l.prev[x]
  BY DEF LinkedListAdd
<1>5. /\ w \in Seq(r.on) /\ Len(w) = n + 1
      /\ \A k \in 1 .. n + 1 : w[k] = IF k = 1 THEN item ELSE s[k - 1]
  <2>1. s \in Seq(l.on)
    BY DEF Walk
  <2> HIDE DEF r
  <2>2. s \in Seq(r.on) /\ <<item>> \in Seq(r.on) /\ Len(<<item>>) = 1
    BY <1>4, <2>1
  <2> QED
    BY <2>2
<1> HIDE DEF w, r, n
<1>6. w[1] = item
  BY <1>1, <1>5
<1>7. ASSUME NEW k \in 1 .. n
      PROVE  k + 1 \in 1 .. n + 1 /\ w[k + 1] = s[k] /\ s[k] # item /\ s[k] \in Items
  <2>1. k + 1 \in 1 .. n + 1 /\ k + 1 # 1 /\ (k + 1) - 1 = k
    BY <1>1
  <2>2. w[k + 1] = s[(k + 1) - 1]
    BY <1>5, <2>1
  <2> QED
    BY <1>1, <2>1, <2>2
<1>8. ASSUME NEW k \in 1 .. n + 1, k # 1
      PROVE  \E j \in 1 .. n : k = j + 1
  <2>1. k - 1 \in 1 .. n /\ k = (k - 1) + 1
    BY <1>1, <1>8
  <2> QED
    BY <2>1
<1>9. \A x \in r.on : \E k \in 1 .. n + 1 : w[k] = x
  BY <1>1, <1>4, <1>6, <1>7
<1>10. ASSUME NEW j \in 1 .. n + 1, NEW k \in 1 .. n + 1, w[j] = w[k] PROVE j = k
  <2>1. CASE j = 1
    BY <1>6, <1>7, <1>8, <1>10, <2>1
  <2>2. CASE k = 1
    BY <1>6, <1>7, <1>8, <1>10, <2>2
  <2>3. CASE j # 1 /\ k # 1
    <3>1. PICK a \in 1 .. n : j = a + 1
      BY <1>8, <2>3
    <3>2. PICK b \in 1 .. n : k = b + 1
      BY <1>8, <2>3
    <3> QED
      BY <1>2, <1>7, <1>10, <3>1, <3>2
  <2> QED
    BY <2>1, <2>2, <2>3
<1>11. r.head = w[1] /\ r.tail = w[n + 1]
  <2>1. CASE n = 0
    BY <1>1, <1>4, <1>6, <2>1
  <2>2. CASE n # 0
    <3>1. n \in 1 .. n
      BY <1>1, <2>2
    <3> QED
      BY <1>1, <1>4, <1>6, <1>7, <2>2, <3>1
  <2> QED
    BY <2>1, <2>2
<1>12. /\ r.next[w[1]] = IF 1 = n + 1 THEN NULL ELSE w[1 + 1]
       /\ r.prev[w[1]] = NULL
  <2>1. CASE n = 0
    BY <1>1, <1>4, <1>6, <2>1
  <2>2. CASE n # 0
    <3>1. 1 \in 1 .. n /\ 1 # n + 1
      BY <1>1, <2>2
    <3> QED
      BY <1>1, <1>4, <1>6, <1>7, <2>2, <3>1
  <2> QED
    BY <2>1, <2>2
<1>13. ASSUME NEW k \in 1 .. n
       PROVE  /\ r.next[w[k + 1]] = IF k + 1 = n + 1 THEN NULL ELSE w[(k + 1) + 1]
              /\ r.prev[w[k + 1]] = w[k]
  <2>1. w[k + 1] = s[k] /\ s[k] # item /\ s[k] \in Items /\ s[k] # NULL
    BY <1>1, <1>7
  <2>2. r.next[s[k]] = IF k = n THEN NULL ELSE s[k + 1]
    BY <1>3, <1>4, <2>1
  <2>3. k # n => k + 1 \in 1 .. n /\ w[(k + 1) + 1] = s[k + 1]
    <3>1. k # n => k + 1 \in 1 .. n
      BY <1>1
    <3> QED
      BY <1>7, <3>1
  <2>4. CASE k = 1
    <3>1. s[k] = l.head
      BY <1>1, <2>4
    <3> QED
      BY <1>1, <1>4, <1>6, <2>1, <2>2, <2>3, <2>4, <3>1
  <2>5. CASE k # 1
    <3>1. k - 1 \in 1 .. n /\ (k - 1) + 1 = k /\ 1 \in 1 .. n
      BY <1>1, <2>5
    <3>2. w[k] = s[k - 1]
      BY <1>7, <3>1
    <3>3. s[k] # l.head
      BY <1>1, <1>2, <2>5, <3>1
    <3>4. r.prev[s[k]] = s[k - 1]
      BY <1>3, <1>4, <2>1, <2>5, <3>3
    <3> QED
      BY <1>1, <2>1, <2>2, <2>3, <3>2, <3>4
  <2> QED
    BY <2>4, <2>5
<1>14. ASSUME NEW k \in 1 .. n + 1
       PROVE  /\ r.next[w[k]] = IF k = n + 1 THEN NULL ELSE w[k + 1]
              /\ r.prev[w[k]] = IF k = 1 THEN NULL ELSE w[k - 1]
  <2>1. CASE k = 1
    BY <1>12, <2>1
  <2>2. CASE k # 1
    <3>1. PICK j \in 1 .. n : k = j + 1
      BY <1>8, <2>2
    <3>2. k - 1 = j
      BY <1>1, <3>1
    <3> QED
      BY <1>13, <2>2, <3>1, <3>2
  <2> QED
    BY <2>1, <2>2
<1>15. n + 1 \in Nat /\ n + 1 # 0
  BY <1>1
<1>16. Walk(r, w)
  <2>0. Len(w) = n + 1
    BY <1>5
  <2>1. /\ w \in Seq(r.on)
        /\ \A x \in r.on : \E k \in 1 .. Len(w) : w[k] = x
    BY <1>5, <1>9
  <2>2. /\ r.head = IF Len(w) = 0 THEN NULL ELSE w[1]
        /\ r.tail = IF Len(w) = 0 THEN NULL ELSE w[Len(w)]
    BY <2>0, <1>11, <1>15
  <2>3. /\ \A j, k \in 1 .. Len(w) : w[j] = w[k] => j = k
        /\ \A k \in 1 .. Len(w) : r.next[w[k]] = IF k = Len(w) THEN NULL ELSE w[k + 1]
        /\ \A k \in 1 .. Len(w) : r.prev[w[k]] = IF k = 1 THEN NULL ELSE w[k - 1]
    BY <2>0, <1>10, <1>14
  <2> QED
    BY <2>1, <2>2, <2>3, Zenon DEF Walk
<1> QED
  BY <1>16 DEF r, w

\* LinkedListAdd at the tail puts the item after the others.
LEMMA WalkAddTail ==
  ASSUME NEW l \in Lists, NEW s, Walk(l, s), NEW item \in Items \ l.on
  PROVE  Walk(LinkedListAdd(l, item, "AT_TAIL"), Append(s, item))
<1> DEFINE r == LinkedListAdd(l, item, "AT_TAIL")
           w == Append(s, item)
           n == Len(s)
<1>1. /\ l.on \subseteq Items /\ NULL \notin Items /\ n \in Nat
      /\ \A k \in 1 .. n : s[k] \in l.on
      /\ \A x \in l.on : \E k \in 1 .. n : s[k] = x
      /\ l.head = IF n = 0 THEN NULL ELSE s[1]
      /\ l.tail = IF n = 0 THEN NULL ELSE s[n]
  BY WalkFacts
<1>2. \A j, k \in 1 .. n : s[j] = s[k] => j = k
  BY WalkFacts
<1>3. /\ \A k \in 1 .. n : l.next[s[k]] = IF k = n THEN NULL ELSE s[k + 1]
      /\ \A k \in 1 .. n : l.prev[s[k]] = IF k = 1 THEN NULL ELSE s[k - 1]
  BY WalkFacts
<1>4. /\ r.on = l.on \cup {item}
      /\ r.tail = item
      /\ r.head = IF l.head = NULL THEN item ELSE l.head
      /\ \A x \in Items : r.next[x] = IF x = item THEN NULL ELSE IF x = l.tail THEN item ELSE l.next[x]
      /\ \A x \in Items : r.prev[x] = IF x = item THEN l.tail ELSE IF x = NULL THEN item ELSE l.prev[x]
  BY DEF LinkedListAdd
<1>5. /\ w \in Seq(r.on) /\ Len(w) = n + 1
      /\ \A k \in 1 .. n + 1 : w[k] = IF k = n + 1 THEN item ELSE s[k]
  <2>1. s \in Seq(l.on)
    BY DEF Walk
  <2> HIDE DEF r
  <2>2. s \in Seq(r.on) /\ item \in r.on
    BY <1>4, <2>1
  <2> QED
    BY <2>2
<1> HIDE DEF w, r, n
<1>6. n + 1 \in 1 .. n + 1 /\ w[n + 1] = item
  BY <1>1, <1>5
<1>7. ASSUME NEW k \in 1 .. n
      PROVE  k \in 1 .. n + 1 /\ k # n + 1 /\ w[k] = s[k] /\ s[k] # item /\ s[k] \in Items
  <2>1. k \in 1 .. n + 1 /\ k # n + 1
    BY <1>1
  <2> QED
    BY <1>1, <1>5, <2>1
<1>8. ASSUME NEW k \in 1 .. n + 1, k # n + 1 PROVE k \in 1 .. n
  BY <1>1, <1>8
<1>9. \A x \in r.on : \E k \in 1 .. n + 1 : w[k] = x
  BY <1>1, <1>4, <1>6, <1>7
<1>10. ASSUME NEW j \in 1 .. n + 1, NEW k \in 1 .. n + 1, w[j] = w[k] PROVE j = k
  BY <1>2, <1>6, <1>7, <1>8, <1>10
<1>11. r.head = w[1] /\ r.tail = w[n + 1]
  <2>1. CASE n = 0
    BY <1>1, <1>4, <1>6, <2>1
  <2>2. CASE n # 0
    <3>1. 1 \in 1 .. n
      BY <1>1, <2>2
    <3> QED
      BY <1>1, <1>4, <1>6, <1>7, <2>2, <3>1
  <2> QED
    BY <2>1, <2>2
<1>12. /\ r.next[w[n + 1]] = NULL
       /\ r.prev[w[n + 1]] = IF n + 1 = 1 THEN NULL ELSE w[(n + 1) - 1]
  <2>1. CASE n = 0
    BY <1>1, <1>4, <1>6, <2>1
  <2>2. CASE n # 0
    <3>1. n \in 1 .. n /\ n + 1 # 1 /\ (n + 1) - 1 = n
      BY <1>1, <2>2
    <3> QED
      BY <1>1, <1>4, <1>6, <1>7, <2>2, <3>1
  <2> QED
    BY <2>1, <2>2
<1>13. ASSUME NEW k \in 1 .. n
       PROVE  /\ r.next[w[k]] = w[k + 1]
              /\ r.prev[w[k]] = IF k = 1 THEN NULL ELSE w[k - 1]
  <2>1. w[k] = s[k] /\ s[k] # item /\ s[k] \in Items /\ s[k] # NULL
    BY <1>1, <1>7
  <2>2. r.prev[s[k]] = IF k = 1 THEN NULL ELSE s[k - 1]
    BY <1>3, <1>4, <2>1
  <2>3. k # 1 => k - 1 \in 1 .. n /\ w[k - 1] = s[k - 1]
    <3>1. k # 1 => k - 1 \in 1 .. n
      BY <1>1
    <3> QED
      BY <1>7, <3>1
  <2>4. CASE k = n
    <3>1. s[k] = l.tail
      BY <1>1, <2>4
    <3> QED
      BY <1>1, <1>4, <1>6, <2>1, <2>2, <2>3, <2>4, <3>1
  <2>5. CASE k # n
    <3>1. k + 1 \in 1 .. n /\ n \in 1 .. n /\ n # 0
      BY <1>1, <2>5
    <3>2. w[k + 1] = s[k + 1]
      BY <1>7, <3>1
    <3>3. s[k] # l.tail
      BY <1>1, <1>2, <2>5, <3>1
    <3>4. r.next[s[k]] = s[k + 1]
      BY <1>3, <1>4, <2>1, <2>5, <3>3
    <3> QED
      BY <2>1, <2>2, <2>3, <3>2, <3>4
  <2> QED
    BY <2>4, <2>5
<1>14. ASSUME NEW k \in 1 .. n + 1
       PROVE  /\ r.next[w[k]] = IF k = n + 1 THEN NULL ELSE w[k + 1]
              /\ r.prev[w[k]] = IF k = 1 THEN NULL ELSE w[k - 1]
  BY <1>8, <1>12, <1>13
<1>15. Walk(r, w)
  <2>0. Len(w) = n + 1 /\ Len(w) # 0
    BY <1>1, <1>5
  <2>1. /\ w \in Seq(r.on)
        /\ \A x \in r.on : \E k \in 1 .. Len(w) : w[k] = x
    BY <1>5, <1>9
  <2>2. /\ r.head = IF Len(w) = 0 THEN NULL ELSE w[1]
        /\ r.tail = IF Len(w) = 0 THEN NULL ELSE w[Len(w)]
    BY <2>0, <1>11
  <2>3. /\ \A j, k \in 1 .. Len(w) : w[j] = w[k] => j = k
        /\ \A k \in 1 .. Len(w) : r.next[w[k]] = IF k = Len(w) THEN NULL ELSE w[k + 1]
        /\ \A k \in 1 .. Len(w) : r.prev[w[k]] = IF k = 1 THEN NULL ELSE w[k - 1]
    BY <2>0, <1>10, <1>14
  <2> QED
    BY <2>1, <2>2, <2>3, Zenon DEF Walk
<1> QED
  BY <1>15 DEF r, w

\* LinkedListRemove leaves the other items in their order.
LEMMA WalkRemove ==
  ASSUME NEW l \in Lists, NEW s, Walk(l, s), NEW p \in 1 .. Len(s)
  PROVE  Walk(LinkedListRemove(l, s[p]), OL!Without(s, p))
<1> DEFINE r == LinkedListRemove(l, s[p])
           w == OL!Without(s, p)
           n == Len(s)
           Old(j) == IF j < p THEN j ELSE j + 1
<1>1. /\ l.on \subseteq Items /\ NULL \notin Items /\ n \in Nat
      /\ \A k \in 1 .. n : s[k] \in l.on
      /\ \A x \in l.on : \E k \in 1 .. n : s[k] = x
      /\ l.head = IF n = 0 THEN NULL ELSE s[1]
      /\ l.tail = IF n = 0 THEN NULL ELSE s[n]
  BY WalkFacts
<1>2. \A j, k \in 1 .. n : s[j] = s[k] => j = k
  BY WalkFacts
<1>3. /\ \A k \in 1 .. n : l.next[s[k]] = IF k = n THEN NULL ELSE s[k + 1]
      /\ \A k \in 1 .. n : l.prev[s[k]] = IF k = 1 THEN NULL ELSE s[k - 1]
  BY WalkFacts
<1> DEFINE before == IF p = 1 THEN NULL ELSE s[p - 1]
           after == IF p = n THEN NULL ELSE s[p + 1]
<1>4. /\ r.on = l.on \ {s[p]}
      /\ r.head = IF l.head = s[p] THEN after ELSE l.head
      /\ r.tail = IF l.tail = s[p] THEN before ELSE l.tail
      /\ \A x \in Items : r.next[x] = IF x = before THEN after ELSE l.next[x]
      /\ \A x \in Items : r.prev[x] = IF x = after THEN before ELSE l.prev[x]
  <2>1. l.next[s[p]] = after /\ l.prev[s[p]] = before
    BY <1>3
  <2> HIDE DEF before, after
  <2> QED
    BY <2>1 DEF LinkedListRemove
<1>5. /\ w \in Seq(l.on) /\ Len(w) = n - 1
      /\ \A j \in 1 .. n - 1 : w[j] = s[Old(j)]
  <2>1. s \in Seq(l.on)
    BY DEF Walk
  <2>2. w = WithoutAt(s, p)
    BY DEF OL!Without, WithoutAt
  <2> HIDE DEF w, r, before, after, Old
  <2>3. /\ w \in Seq(l.on) /\ Len(w) = n - 1
        /\ \A j \in 1 .. n - 1 : w[j] = IF j < p THEN s[j] ELSE s[j + 1]
    BY <2>1, <2>2, WithoutElement
  <2> HIDE DEF n
  <2> QED
    BY <2>3 DEF Old
<1> HIDE DEF w, r, n, before, after
<1>6. ASSUME NEW j \in 1 .. n - 1
      PROVE  /\ Old(j) \in 1 .. n /\ Old(j) # p
             /\ w[j] = s[Old(j)] /\ w[j] \in r.on /\ w[j] \in Items /\ w[j] # NULL
  <2>1. Old(j) \in 1 .. n /\ Old(j) # p
    BY <1>1
  <2>2. w[j] = s[Old(j)]
    BY <1>5
  <2>3. p \in 1 .. n
    BY DEF n
  <2> HIDE DEF Old
  <2>4. s[Old(j)] \in l.on /\ s[Old(j)] # s[p]
    BY <1>1, <1>2, <2>1, <2>3
  <2> QED
    BY <1>1, <1>4, <2>1, <2>2, <2>4
<1>7. ASSUME NEW k \in 1 .. n, k # p PROVE \E j \in 1 .. n - 1 : Old(j) = k
  <2>1. CASE k < p
    <3>1. k \in 1 .. n - 1 /\ Old(k) = k
      BY <1>1, <2>1 DEF n
    <3> QED
      BY <3>1
  <2>2. CASE ~(k < p)
    <3>1. k - 1 \in 1 .. n - 1 /\ Old(k - 1) = k
      BY <1>1, <1>7, <2>2 DEF n
    <3> QED
      BY <3>1
  <2> QED
    BY <2>1, <2>2
<1>8. \A x \in r.on : \E j \in 1 .. n - 1 : w[j] = x
  <2> SUFFICES ASSUME NEW x \in r.on PROVE \E j \in 1 .. n - 1 : w[j] = x
    OBVIOUS
  <2>1. PICK k \in 1 .. n : s[k] = x
    BY <1>1, <1>4
  <2>2. k # p
    BY <1>4, <2>1
  <2>3. PICK j \in 1 .. n - 1 : Old(j) = k
    BY <1>7, <2>2
  <2> HIDE DEF Old
  <2> QED
    BY <1>6, <2>1, <2>3
<1>9. ASSUME NEW j \in 1 .. n - 1, NEW k \in 1 .. n - 1, w[j] = w[k] PROVE j = k
  <2>1. Old(j) = Old(k)
    <3> HIDE DEF Old
    <3> QED
      BY <1>2, <1>6, <1>9
  <2> QED
    BY <1>1, <2>1
<1>10. p \in 1 .. n /\ p \in Nat
  BY <1>1 DEF n
<1>11. /\ r.head = IF n - 1 = 0 THEN NULL ELSE w[1]
       /\ r.tail = IF n - 1 = 0 THEN NULL ELSE w[n - 1]
  <2>1. l.head = s[p] <=> p = 1
    <3>1. 1 \in 1 .. n /\ n # 0
      BY <1>1, <1>10
    <3> QED
      BY <1>1, <1>2, <1>10, <3>1
  <2>2. l.tail = s[p] <=> p = n
    <3>1. n \in 1 .. n /\ n # 0
      BY <1>1, <1>10
    <3> QED
      BY <1>1, <1>2, <1>10, <3>1
  <2>3. CASE n - 1 = 0
    <3>1. p = 1 /\ p = n
      BY <1>1, <1>10, <2>3
    <3> QED
      BY <1>4, <2>1, <2>2, <2>3, <3>1 DEF before, after
  <2>4. CASE n - 1 # 0
    <3>1. 1 \in 1 .. n - 1 /\ n - 1 \in 1 .. n - 1 /\ n # 0
      BY <1>1, <1>10, <2>4
    <3>2. w[1] = s[Old(1)] /\ w[n - 1] = s[Old(n - 1)]
      BY <1>5, <3>1
    <3>3. Old(1) = IF p = 1 THEN 2 ELSE 1
      BY <1>10
    <3>4. Old(n - 1) = IF p = n THEN n - 1 ELSE n
      BY <1>1, <1>10
    <3>5. after = s[p + 1] \/ p = n
      BY DEF after
    <3>6. before = s[p - 1] \/ p = 1
      BY DEF before
    <3> HIDE DEF Old
    <3>7. r.head = w[1]
      <4>1. CASE p = 1
        BY <1>1, <1>4, <2>1, <2>4, <3>2, <3>3, <3>5, <4>1
      <4>2. CASE p # 1
        BY <1>1, <1>4, <2>1, <3>1, <3>2, <3>3, <4>2
      <4> QED
        BY <4>1, <4>2
    <3>8. r.tail = w[n - 1]
      <4>1. CASE p = n
        BY <1>1, <1>4, <2>2, <2>4, <3>2, <3>4, <3>6, <4>1
      <4>2. CASE p # n
        BY <1>1, <1>4, <2>2, <3>1, <3>2, <3>4, <4>2
      <4> QED
        BY <4>1, <4>2
    <3> QED
      BY <2>4, <3>7, <3>8
  <2> QED
    BY <2>3, <2>4
<1>12. ASSUME NEW j \in 1 .. n - 1
       PROVE  r.next[w[j]] = IF j = n - 1 THEN NULL ELSE w[j + 1]
  <2>1. w[j] = s[Old(j)] /\ Old(j) \in 1 .. n /\ w[j] \in Items /\ w[j] # NULL
    BY <1>6
  <2>2. l.next[s[Old(j)]] = IF Old(j) = n THEN NULL ELSE s[Old(j) + 1]
    <3> HIDE DEF Old
    <3> QED
      BY <1>3, <2>1
  <2>3. j # n - 1 => w[j + 1] = s[Old(j + 1)]
    <3>1. j # n - 1 => j + 1 \in 1 .. n - 1
      BY <1>1
    <3> QED
      BY <1>5, <3>1
  <2>4. CASE j = p - 1
    <3>1. w[j] = before
      BY <1>10, <2>1, <2>4 DEF before
    <3>2. r.next[w[j]] = after
      BY <1>4, <2>1, <3>1
    <3>3. j = n - 1 <=> p = n
      BY <1>1, <1>10, <2>4
    <3>4. Old(j + 1) = p + 1
      BY <1>10, <2>4
    <3> QED
      BY <2>3, <3>2, <3>3, <3>4 DEF after
  <2>5. CASE j # p - 1
    <3>1. p # 1 => p - 1 \in 1 .. n /\ Old(j) # p - 1
      BY <1>1, <1>10, <2>5
    <3>2. w[j] # before
      <4> HIDE DEF Old
      <4> QED
        BY <1>2, <2>1, <3>1 DEF before
    <3>3. r.next[w[j]] = l.next[w[j]]
      BY <1>4, <2>1, <3>2
    <3>4. (Old(j) = n <=> j = n - 1) /\ Old(j + 1) = Old(j) + 1
      BY <1>1, <1>10, <2>5
    <3> HIDE DEF Old
    <3> QED
      BY <2>1, <2>2, <2>3, <3>3, <3>4
  <2> QED
    BY <2>4, <2>5
<1>13. ASSUME NEW j \in 1 .. n - 1
       PROVE  r.prev[w[j]] = IF j = 1 THEN NULL ELSE w[j - 1]
  <2>1. w[j] = s[Old(j)] /\ Old(j) \in 1 .. n /\ w[j] \in Items /\ w[j] # NULL
    BY <1>6
  <2>2. l.prev[s[Old(j)]] = IF Old(j) = 1 THEN NULL ELSE s[Old(j) - 1]
    <3> HIDE DEF Old
    <3> QED
      BY <1>3, <2>1
  <2>3. j # 1 => w[j - 1] = s[Old(j - 1)]
    <3>1. j # 1 => j - 1 \in 1 .. n - 1
      BY <1>1
    <3> QED
      BY <1>5, <3>1
  <2>4. CASE j = p
    <3>1. w[j] = after
      BY <1>1, <1>10, <2>1, <2>4 DEF after
    <3>2. r.prev[w[j]] = before
      BY <1>4, <2>1, <3>1
    <3>3. j # 1 => Old(j - 1) = p - 1
      BY <1>10, <2>4
    <3> QED
      BY <2>3, <2>4, <3>2, <3>3 DEF before
  <2>5. CASE j # p
    <3>1. p # n => p + 1 \in 1 .. n /\ Old(j) # p + 1
      BY <1>1, <1>10, <2>5
    <3>2. w[j] # after
      <4> HIDE DEF Old
      <4> QED
        BY <1>2, <2>1, <3>1 DEF after
    <3>3. r.prev[w[j]] = l.prev[w[j]]
      BY <1>4, <2>1, <3>2
    <3>4. (Old(j) = 1 <=> j = 1) /\ Old(j - 1) = Old(j) - 1
      BY <1>1, <1>10, <2>5
    <3> HIDE DEF Old
    <3> QED
      BY <2>1, <2>2, <2>3, <3>3, <3>4
  <2> QED
    BY <2>4, <2>5
<1>14. w \in Seq(r.on)
  <2>1. Len(w) \in Nat /\ w \in [1 .. Len(w) -> r.on]
    BY <1>5, <1>6
  <2> QED
    BY <2>1
<1>15. Walk(r, w)
  <2>1. Len(w) = n - 1
    BY <1>5
  <2>2. /\ r.head = IF Len(w) = 0 THEN NULL ELSE w[1]
        /\ r.tail = IF Len(w) = 0 THEN NULL ELSE w[Len(w)]
        /\ \A x \in r.on : \E k \in 1 .. Len(w) : w[k] = x
    BY <2>1, <1>8, <1>11
  <2>3. /\ \A j, k \in 1 .. Len(w) : w[j] = w[k] => j = k
        /\ \A k \in 1 .. Len(w) : r.next[w[k]] = IF k = Len(w) THEN NULL ELSE w[k + 1]
        /\ \A k \in 1 .. Len(w) : r.prev[w[k]] = IF k = 1 THEN NULL ELSE w[k - 1]
    BY <2>1, <1>9, <1>12, <1>13
  <2> QED
    BY <2>2, <2>3, <1>14, Zenon DEF Walk
<1> QED
  BY <1>15 DEF r, w

\* An empty list is walked in no step.
LEMMA WalkEmpty == Walk(EmptyList, <<>>)
BY DEF Walk, EmptyList

\* Every call keeps the list walkable and is, for the items in the order of the
\* walk, an addition at an end, a removal, or nothing.
LEMMA ListRefinementStep ==
  TypeOK /\ ChecksStand /\ CanWalk(list) /\ [Next]_vars
    => CanWalk(list)' /\ (TypeOK' => [OL!Next]_Contents)
<1> SUFFICES ASSUME TypeOK, ChecksStand, CanWalk(list), [Next]_vars
             PROVE  CanWalk(list)' /\ (TypeOK' => [OL!Next]_Contents)
  OBVIOUS
<1>1. PICK s : Walk(list, s)
  BY DEF CanWalk
<1>2. list \in Lists /\ Contents = s /\ s \in Seq(list.on)
  <2>1. list \in Lists
    BY DEF TypeOK
  <2>2. s \in Seq(list.on)
    BY <1>1 DEF Walk
  <2> QED
    BY <1>1, <2>1, <2>2, WalkIsOrder DEF Contents
<1>3. ASSUME NEW w, Walk(list', w)
      PROVE  CanWalk(list)' /\ (TypeOK' => Contents' = w)
  BY <1>3, WalkIsOrder DEF CanWalk, TypeOK, Contents
<1>4. OL!Listed = list.on
  BY <1>1, <1>2 DEF OL!Listed, Walk
<1>5. ASSUME NEW item \in Items, NEW location \in {"AT_HEAD", "AT_TAIL"}, Add(item, location)
      PROVE  CanWalk(list)' /\ (TypeOK' => OL!Next)
  <2>1. CASE location = "AT_HEAD"
    <3>1. Walk(list', <<item>> \o s)
      BY <1>1, <1>2, <1>5, <2>1, WalkAddHead DEF Add
    <3>2. TypeOK' => OL!AddAtHead(item)
      BY <1>2, <1>3, <1>4, <1>5, <3>1 DEF Add, OL!AddAtHead
    <3> QED
      BY <1>3, <3>1, <3>2 DEF OL!Next
  <2>2. CASE location = "AT_TAIL"
    <3>1. Walk(list', Append(s, item))
      BY <1>1, <1>2, <1>5, <2>2, WalkAddTail DEF Add
    <3>2. TypeOK' => OL!AddAtTail(item)
      BY <1>2, <1>3, <1>4, <1>5, <3>1 DEF Add, OL!AddAtTail
    <3> QED
      BY <1>3, <3>1, <3>2 DEF OL!Next
  <2> QED
    BY <2>1, <2>2
<1>6. ASSUME NEW item \in list.on, list' = LinkedListRemove(list, item)
      PROVE  CanWalk(list)' /\ (TypeOK' => OL!Next)
  <2>1. PICK p \in 1 .. Len(s) : s[p] = item
    BY <1>1 DEF Walk
  <2>2. Walk(list', OL!Without(s, p))
    BY <1>1, <1>2, <1>6, <2>1, WalkRemove
  <2>3. item \in Items /\ p \in DOMAIN Contents /\ Contents[p] = item
    BY <1>2, <1>6, <2>1 DEF Lists
  <2>4. TypeOK' => OL!Remove(item)
    BY <1>2, <1>3, <2>2, <2>3 DEF OL!Remove
  <2> QED
    BY <1>3, <2>2, <2>3, <2>4 DEF OL!Next
<1>7. CASE UNCHANGED list
  BY <1>7 DEF CanWalk, Contents
<1>8. ASSUME NEW t \in Threads, RemoveUnlink(t)
      PROVE  CanWalk(list)' /\ (TypeOK' => OL!Next)
  BY <1>6, <1>8 DEF RemoveUnlink, ChecksStand
<1>9. ASSUME NEW item \in Items, RemoveLocked(item)
      PROVE  CanWalk(list)' /\ (TypeOK' => OL!Next)
  BY <1>6, <1>9 DEF RemoveLocked
<1> QED
  BY <1>5, <1>7, <1>8, <1>9 DEF Next, RemoveCheck, vars

\* Whatever calls of owners interleave, the list of linked_list.c is the sequence its
\* callers build: every walk meets all items, once, in the order in which the
\* additions at either end and the removals have left them.
THEOREM ListRefinement ==
  ASSUME OneOwner
  PROVE  Spec => ImplementsOrderedList
<1>1. Init => CanWalk(list)
  BY WalkEmpty DEF Init, CanWalk
<1>2. Init => OL!Init
  <2> SUFFICES ASSUME Init PROVE Contents = <<>>
    BY DEF OL!Init
  <2>1. EmptyList \in Lists
    BY DEF EmptyList, Lists, Pointers
  <2> QED
    BY <2>1, WalkEmpty, WalkIsOrder DEF Init, Contents
<1> QED
  BY <1>1, <1>2, ListInit, ListStep, ListRefinementStep, PTL
     DEF Spec, OL!Spec, ImplementsOrderedList
=============================================================================
