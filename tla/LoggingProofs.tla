--------------------------- MODULE LoggingProofs ---------------------------
(***************************************************************************)
(* Theorems about module Logging, for any number of debug files, lines and *)
(* failing outputs and any size of LoggingQ.                               *)
(***************************************************************************)
EXTENDS Logging, ProofLemmas

\* The lemmas about linked_list.c, for the list of outputs.
LP == INSTANCE LinkedListProofs WITH Items <- Outputs, Threads <- {}, OneOwner <- TRUE,
                                     list <- LogList, removing <- <<>>

\* LL and LP are the same instance of module LinkedList.
LEMMA SameList ==
  /\ LL!Lists = LP!Lists /\ LL!EmptyList = LP!EmptyList
  /\ \A l, o, location : LL!LinkedListAdd(l, o, location) = LP!LinkedListAdd(l, o, location)
  /\ \A l, o : LL!LinkedListRemove(l, o) = LP!LinkedListRemove(l, o)
BY DEF LL!Lists, LP!Lists, LL!Pointers, LP!Pointers, LL!EmptyList, LP!EmptyList,
       LL!LinkedListAdd, LP!LinkedListAdd, LL!LinkedListRemove, LP!LinkedListRemove

\* What LogOutputAdd does to the list.
LEMMA AddFacts ==
  ASSUME NEW l \in LL!Lists, LP!CanWalk(l), NEW o \in Outputs \ l.on,
         NEW r, r = LL!LinkedListAdd(l, o, "AT_TAIL")
  PROVE  r \in LL!Lists /\ LP!CanWalk(r) /\ r.on = l.on \cup {o}
<1>1. l \in LP!Lists /\ r = LP!LinkedListAdd(l, o, "AT_TAIL")
  BY SameList
<1>2. r \in LP!Lists
  BY <1>1, LP!AddType, LoggingAssumption
<1>3. LP!CanWalk(r)
  BY <1>1, LP!WalkAddTail, LoggingAssumption DEF LP!CanWalk
<1>4. r.on = l.on \cup {o}
  BY <1>1 DEF LP!LinkedListAdd
<1> QED
  BY <1>2, <1>3, <1>4, SameList

\* What LogOutputRemove does to the list.
LEMMA RemoveFacts ==
  ASSUME NEW l \in LL!Lists, LP!CanWalk(l), NEW o \in l.on,
         NEW r, r = LL!LinkedListRemove(l, o)
  PROVE  r \in LL!Lists /\ LP!CanWalk(r) /\ r.on = l.on \ {o}
<1>1. l \in LP!Lists /\ r = LP!LinkedListRemove(l, o) /\ o \in Outputs
  BY SameList DEF LL!Lists
<1>2. r \in LP!Lists
  BY <1>1, LP!RemoveType, LoggingAssumption
<1>3. PICK s : LP!Walk(l, s)
  BY DEF LP!CanWalk
<1>4. PICK p \in 1 .. Len(s) : s[p] = o
  BY <1>3 DEF LP!Walk
<1>5. LP!CanWalk(r)
  BY <1>1, <1>3, <1>4, LP!WalkRemove, LoggingAssumption DEF LP!CanWalk
<1>6. r.on = l.on \ {o}
  BY <1>1 DEF LP!LinkedListRemove
<1> QED
  BY <1>2, <1>5, <1>6, SameList

\* Where the pointers of the list lead.
LEMMA PointerFacts ==
  ASSUME NEW l \in LL!Lists, LP!CanWalk(l)
  PROVE  /\ l.on \subseteq Outputs
         /\ l.head \in l.on \cup {NULL}
         /\ \A x \in l.on : l.next[x] \in l.on \cup {NULL} /\ l.next[x] # x
<1>1. PICK s : LP!Walk(l, s)
  BY DEF LP!CanWalk
<1>2. PICK n : n = Len(s)
  OBVIOUS
<1>3. /\ l.on \subseteq Outputs /\ NULL \notin Outputs /\ n \in Nat
      /\ \A k \in 1 .. n : s[k] \in l.on
      /\ \A x \in l.on : \E k \in 1 .. n : s[k] = x
      /\ \A j, k \in 1 .. n : s[j] = s[k] => j = k
      /\ l.head = IF n = 0 THEN NULL ELSE s[1]
      /\ \A k \in 1 .. n : l.next[s[k]] = IF k = n THEN NULL ELSE s[k + 1]
  <2>1. l.on \subseteq Outputs
    BY DEF LL!Lists
  <2>2. NULL \notin Outputs
    BY LoggingAssumption
  <2>3. /\ s \in Seq(l.on)
        /\ \A x \in l.on : \E k \in 1 .. n : s[k] = x
        /\ \A j, k \in 1 .. n : s[j] = s[k] => j = k
        /\ l.head = IF n = 0 THEN NULL ELSE s[1]
        /\ \A k \in 1 .. n : l.next[s[k]] = IF k = n THEN NULL ELSE s[k + 1]
    BY <1>1, <1>2, Zenon DEF LP!Walk
  <2>4. n \in Nat /\ \A k \in 1 .. n : s[k] \in l.on
    <3>1. s \in Seq(l.on)
      BY <2>3
    <3> QED
      BY <1>2, <3>1
  <2> QED
    BY <2>1, <2>2, <2>3, <2>4, Zenon
<1>4. l.head \in l.on \cup {NULL}
  <2>1. n = 0 \/ 1 \in 1 .. n
    BY <1>3
  <2> QED
    BY <1>3, <2>1
<1>5. ASSUME NEW x \in l.on PROVE l.next[x] \in l.on \cup {NULL} /\ l.next[x] # x
  <2>1. PICK k \in 1 .. n : s[k] = x
    BY <1>3
  <2>2. k = n \/ (k + 1 \in 1 .. n /\ k + 1 # k)
    BY <1>3
  <2> QED
    BY <1>3, <2>1, <2>2
<1> QED
  BY <1>3, <1>4, <1>5
-----------------------------------------------------------------------------
(***************************************************************************)
(* The outputs on the list are in memory, and so is what LoggingThread     *)
(* points to.                                                              *)
(***************************************************************************)

\* The part of the type invariant that the pointers need.
PointerTypes ==
  /\ LogList \in LL!Lists /\ mutex \in BOOLEAN
  /\ tpc \in {"dequeue", "lock", "visit", "advance"}
  /\ broken \subseteq Outputs /\ freed \subseteq Outputs

\* The mutex of LogList is held during a walk and by nobody between two steps
\* of the other threads.
MutexHeld == mutex <=> tpc \in {"visit", "advance"}

\* The walk points to an output that is on the list, or has come to its end.
PointersOnList ==
  /\ tpc = "visit" => listItem \in LogList.on \cup {NULL}
  /\ tpc = "advance" => next \in LogList.on \cup {NULL}

\* The list is sound, outputs on it are not freed, and the walk is on it.
MemoryInv ==
  /\ PointerTypes
  /\ LP!CanWalk(LogList)
  /\ LogList.on \cap freed = {}
  /\ MutexHeld
  /\ PointersOnList

\* What a step of logging_toggle_debug does to the list: a debug file enters it or
\* leaves it, or neither.
FileAdded   == LogFileAdd /\ UNCHANGED <<mutex, queueVars, threadVars, failures, closed>>
FileRemoved == /\ LogFileRemove
               /\ UNCHANGED <<mutex, queueVars, threadVars, broken, failures, written, closed>>
ListKept    == UNCHANGED <<listVars, queueVars, threadVars, outputVars, closed>>

LEMMA TogglerSteps ==
  ASSUME NEW t \in Togglers, Toggler(t)
  PROVE  FileAdded \/ FileRemoved \/ ListKept
<1>1. CASE ToggleStart(t) \/ ToggleEnd(t)
  BY <1>1 DEF ToggleStart, ToggleEnd, ListKept
<1>2. CASE ToggleAdd(t)
  BY <1>2 DEF ToggleAdd, FileAdded, ListKept, listVars, outputVars
<1>3. CASE ToggleRemove(t)
  BY <1>3 DEF ToggleRemove, FileRemoved
<1> QED
  BY <1>1, <1>2, <1>3 DEF Toggler

\* logging_initialize establishes it.
LEMMA MemoryInit == Init => MemoryInv
<1> SUFFICES ASSUME Init PROVE MemoryInv
  OBVIOUS
<1> DEFINE one == LL!LinkedListAdd(LL!EmptyList, console, "AT_TAIL")
<1>1. LL!EmptyList \in LL!Lists /\ LP!CanWalk(LL!EmptyList) /\ LL!EmptyList.on = {}
  <2>1. LL!EmptyList \in LL!Lists /\ LL!EmptyList.on = {}
    BY DEF LL!EmptyList, LL!Lists, LL!Pointers
  <2>2. LP!CanWalk(LP!EmptyList)
    BY LP!WalkEmpty, LoggingAssumption DEF LP!CanWalk
  <2> QED
    BY <2>1, <2>2, SameList
<1>2. one \in LL!Lists /\ LP!CanWalk(one) /\ one.on = {console}
  BY <1>1, AddFacts DEF Outputs
<1> HIDE DEF one
<1>3. LogList = LL!LinkedListAdd(one, syslog, "AT_TAIL") /\ syslog \in Outputs \ one.on
  BY <1>2, LoggingAssumption DEF Init, Outputs, one
<1>4. LogList \in LL!Lists /\ LP!CanWalk(LogList) /\ LogList.on = {console, syslog}
  BY <1>2, <1>3, AddFacts
<1>5. PointerTypes /\ MutexHeld /\ PointersOnList
  <2>1. tpc = "dequeue" /\ mutex = FALSE /\ broken = {} /\ freed = Files
    BY DEF Init
  <2>2. PointerTypes
    BY <1>4, <2>1 DEF PointerTypes, Outputs
  <2>3. MutexHeld
    BY <2>1 DEF MutexHeld
  <2>4. PointersOnList
    BY <2>1 DEF PointersOnList
  <2> QED
    BY <2>2, <2>3, <2>4
<1>6. LogList.on \cap freed = {}
  BY <1>4, LoggingAssumption DEF Init
<1> QED
  BY <1>4, <1>5, <1>6 DEF MemoryInv

\* A step of the walk: an output is dropped only by the walk itself, after the
\* pointer to the next one has been saved.
LEMMA VisitKeepsMemory ==
  ASSUME MemoryInv, Visit
  PROVE  MemoryInv'
<1>1. /\ listItem \in LogList.on /\ tpc' = "advance" /\ mutex' = mutex /\ mutex
      /\ next' = LogList.next[listItem]
  BY DEF MemoryInv, MutexHeld, PointersOnList, Visit
<1>2. LogList \in LL!Lists /\ LP!CanWalk(LogList)
  BY DEF MemoryInv, PointerTypes
<1>3. /\ LogList.on \subseteq Outputs
      /\ next' \in LogList.on \cup {NULL} /\ next' # listItem
  BY <1>1, <1>2, PointerFacts
<1>4. CASE listItem \in broken
  <2>1. LogList' = LL!LinkedListRemove(LogList, listItem) /\ freed' = freed \cup {listItem}
    BY <1>4 DEF Visit, LogOutputRemove
  <2>2. LogList' \in LL!Lists /\ LP!CanWalk(LogList') /\ LogList'.on = LogList.on \ {listItem}
    BY <1>1, <1>2, <2>1, RemoveFacts
  <2>3. PointerTypes'
    BY <1>1, <1>3, <2>1, <2>2 DEF MemoryInv, PointerTypes, Visit
  <2>4. (LogList.on \cap freed = {})'
    BY <2>1, <2>2 DEF MemoryInv
  <2>5. MutexHeld' /\ PointersOnList'
    BY <1>1, <1>3, <2>2 DEF MutexHeld, PointersOnList, MemoryInv, PointerTypes
  <2> QED
    BY <2>2, <2>3, <2>4, <2>5 DEF MemoryInv, LP!CanWalk
<1>5. CASE listItem \notin broken
  <2>1. UNCHANGED <<LogList, freed, broken>>
    BY <1>5 DEF Visit
  <2>2. PointerTypes'
    BY <1>1, <2>1 DEF MemoryInv, PointerTypes
  <2>3. MutexHeld' /\ PointersOnList'
    BY <1>1, <1>3, <2>1 DEF MutexHeld, PointersOnList, MemoryInv, PointerTypes
  <2> QED
    BY <2>1, <2>2, <2>3 DEF MemoryInv, LP!CanWalk
<1> QED
  BY <1>4, <1>5

\* A debug file enters the list in memory of its own, and no walk is on the list.
LEMMA AddedKeepsMemory ==
  ASSUME MemoryInv, FileAdded
  PROVE  MemoryInv'
<1>1. LogList \in LL!Lists /\ LP!CanWalk(LogList) /\ UNCHANGED <<mutex, tpc, listItem, next>>
  BY DEF MemoryInv, PointerTypes, FileAdded, threadVars
<1>2. PICK o \in Files \cap freed :
        /\ LogList' = LL!LinkedListAdd(LogList, o, "AT_TAIL")
        /\ freed' = freed \ {o} /\ broken' = broken \ {o}
  BY DEF FileAdded, LogFileAdd, LogOutputAdd
<1>3. o \in Outputs \ LogList.on
  BY DEF MemoryInv, Outputs
<1>4. LogList' \in LL!Lists /\ LP!CanWalk(LogList') /\ LogList'.on = LogList.on \cup {o}
  BY <1>1, <1>2, <1>3, AddFacts
<1>5. tpc \notin {"visit", "advance"}
  BY DEF FileAdded, LogFileAdd, MemoryInv, MutexHeld
<1>6. PointerTypes' /\ MutexHeld' /\ PointersOnList'
  BY <1>1, <1>2, <1>4, <1>5 DEF MemoryInv, PointerTypes, MutexHeld, PointersOnList
<1>7. (LogList.on \cap freed = {})'
  BY <1>2, <1>4 DEF MemoryInv
<1> QED
  BY <1>4, <1>6, <1>7 DEF MemoryInv, LP!CanWalk

\* It leaves the list only while no walk is on it.
LEMMA RemovedKeepsMemory ==
  ASSUME MemoryInv, FileRemoved
  PROVE  MemoryInv'
<1>1. LogList \in LL!Lists /\ LP!CanWalk(LogList) /\ ~mutex
  BY DEF MemoryInv, PointerTypes, FileRemoved, LogFileRemove
<1>2. UNCHANGED <<mutex, tpc, listItem, next, broken>> /\ tpc \notin {"visit", "advance"}
  BY <1>1 DEF FileRemoved, threadVars, MemoryInv, MutexHeld
<1>3. ASSUME NEW o \in Files \cap LogList.on, LogOutputRemove(o) PROVE MemoryInv'
  <2>1. LogList' = LL!LinkedListRemove(LogList, o) /\ freed' = freed \cup {o}
    BY <1>3 DEF LogOutputRemove
  <2>2. LogList' \in LL!Lists /\ LP!CanWalk(LogList') /\ LogList'.on = LogList.on \ {o}
    BY <1>1, <2>1, RemoveFacts
  <2>3. PointerTypes' /\ MutexHeld' /\ PointersOnList'
    BY <1>1, <1>2, <2>1, <2>2 DEF MemoryInv, PointerTypes, MutexHeld, PointersOnList, Outputs
  <2>4. (LogList.on \cap freed = {})'
    BY <2>1, <2>2 DEF MemoryInv
  <2> QED
    BY <2>2, <2>3, <2>4 DEF MemoryInv, LP!CanWalk
<1>4. CASE Files \cap LogList.on = {} /\ UNCHANGED <<LogList, freed>>
  <2>1. PointerTypes' /\ MutexHeld' /\ PointersOnList'
    BY <1>1, <1>2, <1>4 DEF MemoryInv, PointerTypes, MutexHeld, PointersOnList
  <2>2. (LogList.on \cap freed = {})'
    BY <1>4 DEF MemoryInv
  <2> QED
    BY <1>1, <1>4, <2>1, <2>2 DEF MemoryInv, LP!CanWalk
<1> QED
  BY <1>3, <1>4 DEF FileRemoved, LogFileRemove

\* Every step keeps it.
LEMMA MemoryStep == MemoryInv /\ [Next]_vars => MemoryInv'
<1> SUFFICES ASSUME MemoryInv, [Next]_vars PROVE MemoryInv'
  OBVIOUS
<1>0. ASSUME UNCHANGED <<LogList, freed>>,
             PointerTypes', MutexHeld', PointersOnList'
      PROVE  MemoryInv'
  BY <1>0 DEF MemoryInv, LP!CanWalk
<1> USE DEF PointerTypes, MutexHeld, PointersOnList, listVars, threadVars, outputVars
<1>1. CASE Submit \/ UNCHANGED vars
  <2>1. PointerTypes' /\ MutexHeld' /\ PointersOnList'
    BY <1>1 DEF Submit, vars, MemoryInv
  <2> QED
    BY <1>0, <1>1, <2>1 DEF Submit, vars
<1>2. ASSUME NEW o \in Outputs, Break(o) PROVE MemoryInv'
  <2>1. PointerTypes' /\ MutexHeld' /\ PointersOnList'
    BY <1>2 DEF Break, MemoryInv
  <2> QED
    BY <1>0, <1>2, <2>1 DEF Break
<1>3. CASE Dequeue \/ Advance \/ Walked
  <2>1. PointerTypes' /\ PointersOnList'
    BY <1>3 DEF Dequeue, Advance, Walked, MemoryInv
  <2>2. MutexHeld'
    <3>1. CASE Dequeue
      BY <3>1 DEF Dequeue, MemoryInv
    <3>2. CASE Advance
      BY <3>2 DEF Advance, MemoryInv
    <3>3. CASE Walked
      BY <3>3 DEF Walked, MemoryInv
    <3> QED
      BY <1>3, <3>1, <3>2, <3>3
  <2> QED
    BY <1>0, <1>3, <2>1, <2>2 DEF Dequeue, Advance, Walked
<1>4. CASE LockList
  <2>1. LogList.head \in LogList.on \cup {NULL}
    BY PointerFacts DEF MemoryInv
  <2>2. PointerTypes' /\ MutexHeld' /\ PointersOnList'
    BY <1>4, <2>1 DEF LockList, MemoryInv
  <2> QED
    BY <1>0, <1>4, <2>2 DEF LockList
<1>5. CASE ListKept
  <2>1. PointerTypes' /\ MutexHeld' /\ PointersOnList'
    BY <1>5 DEF ListKept, MemoryInv
  <2> QED
    BY <1>0, <1>5, <2>1 DEF ListKept
<1> QED
  BY <1>1, <1>2, <1>3, <1>4, <1>5, VisitKeepsMemory, TogglerSteps, AddedKeepsMemory,
     RemovedKeepsMemory
     DEF Next, LoggingThread

\* The list, the memory of its outputs and the pointers of LoggingThread agree
\* in every reachable state.
LEMMA MemoryInvariant == Spec => []MemoryInv
BY MemoryInit, MemoryStep, PTL DEF Spec

\* LoggingThread never follows a pointer to a freed output, whether it dropped
\* the output itself in the middle of a walk or another thread removed it.
THEOREM NoOutputUsedAfterFree == Spec => []NoUseAfterFree
<1>1. MemoryInv => NoUseAfterFree
  BY LoggingAssumption DEF MemoryInv, PointerTypes, PointersOnList, NoUseAfterFree
<1> QED
  BY <1>1, MemoryInvariant, PTL
-----------------------------------------------------------------------------
(***************************************************************************)
(* The lines.                                                              *)
(***************************************************************************)

\* LoggingQ holds the lines after the one LoggingThread has last taken, in the
\* order in which they were submitted.
LinesInOrder ==
  /\ submitted \in Nat /\ item \in Nat
  /\ LoggingQ \in Seq(Nat) /\ Len(LoggingQ) = submitted - item
  /\ Len(LoggingQ) <= QueueCap
  /\ \A k \in 1 .. Len(LoggingQ) : LoggingQ[k] = item + k
  /\ tpc # "dequeue" => item >= 1

\* Every step keeps it.
LEMMA LinesStep == LinesInOrder /\ [Next]_vars => LinesInOrder'
<1> SUFFICES ASSUME LinesInOrder, [Next]_vars PROVE LinesInOrder'
  OBVIOUS
<1>1. CASE Submit
  <2>1. /\ submitted' = submitted + 1 /\ LoggingQ' = Append(LoggingQ, submitted + 1)
        /\ UNCHANGED <<item, tpc>> /\ Len(LoggingQ) < QueueCap
    BY <1>1 DEF Submit, threadVars
  <2>2. LoggingQ \in Seq(Nat) /\ Len(LoggingQ) \in Nat /\ submitted + 1 \in Nat /\ item \in Nat
    BY DEF LinesInOrder
  <2>3. LoggingQ' \in Seq(Nat) /\ Len(LoggingQ') = Len(LoggingQ) + 1
    BY <2>1, <2>2
  <2>4. ASSUME NEW k \in 1 .. Len(LoggingQ) + 1 PROVE LoggingQ'[k] = item + k
    <3>1. CASE k = Len(LoggingQ) + 1
      <4>1. LoggingQ'[k] = submitted + 1
        BY <2>1, <2>2, <3>1
      <4>2. Len(LoggingQ) = submitted - item /\ submitted \in Nat
        BY DEF LinesInOrder
      <4> QED
        BY <2>2, <3>1, <4>1, <4>2
    <3>2. CASE k # Len(LoggingQ) + 1
      <4>1. k \in 1 .. Len(LoggingQ)
        BY <2>2, <3>2
      <4>2. Append(LoggingQ, submitted + 1)[k] = LoggingQ[k]
        BY <2>2, <4>1
      <4> QED
        BY <2>1, <4>1, <4>2 DEF LinesInOrder
    <3> QED
      BY <3>1, <3>2
  <2> QED
    BY <2>1, <2>2, <2>3, <2>4, LoggingAssumption DEF LinesInOrder
<1>2. CASE Dequeue
  <2>1. /\ LoggingQ # <<>> /\ item' = Head(LoggingQ) /\ LoggingQ' = Tail(LoggingQ)
        /\ UNCHANGED submitted
    BY <1>2 DEF Dequeue
  <2>2. LoggingQ \in Seq(Nat) /\ Len(LoggingQ) \in Nat \ {0} /\ 1 \in 1 .. Len(LoggingQ)
    BY <2>1 DEF LinesInOrder
  <2>3. item' = item + 1
    BY <2>1, <2>2 DEF LinesInOrder
  <2>4. LoggingQ' \in Seq(Nat) /\ Len(LoggingQ') = Len(LoggingQ) - 1
    BY <2>1, <2>2
  <2>5. ASSUME NEW k \in 1 .. Len(LoggingQ) - 1 PROVE LoggingQ'[k] = item' + k
    <3>1. k + 1 \in 1 .. Len(LoggingQ) /\ LoggingQ'[k] = LoggingQ[k + 1]
      BY <2>1, <2>2
    <3>2. LoggingQ[k + 1] = item + (k + 1)
      BY <3>1 DEF LinesInOrder
    <3> QED
      BY <2>3, <3>1, <3>2 DEF LinesInOrder
  <2> QED
    BY <2>1, <2>2, <2>3, <2>4, <2>5, LoggingAssumption DEF LinesInOrder
<1>3. CASE UNCHANGED queueVars /\ item' = item /\ (tpc # "dequeue" \/ tpc' = tpc)
  BY <1>3 DEF LinesInOrder, queueVars
<1>4. CASE (\E o \in Outputs : Break(o)) \/ FileAdded \/ FileRemoved \/ ListKept \/ UNCHANGED vars
  BY <1>3, <1>4 DEF Break, FileAdded, FileRemoved, ListKept, vars, threadVars
<1>5. CASE LockList \/ Visit \/ Advance \/ Walked
  BY <1>3, <1>5 DEF LockList, Visit, Advance, Walked
<1> QED
  BY <1>1, <1>2, <1>4, <1>5, TogglerSteps DEF Next, LoggingThread

\* The outputs on the list that have started to fail.
Failing == broken \cap LogList.on

\* Every failure is an output still on the list, a message on its way, or a
\* message that has been logged.
Accounted ==
  /\ IsFiniteSet(Failing)
  /\ failures \in 0 .. MaxFailures /\ closed \in Nat
  /\ closed + Cardinality(Failing) <= failures
  /\ closed + Cardinality(Failing) + submitted <= failures + MaxLines

\* Every step keeps it.
LEMMA AccountStep ==
  MemoryInv /\ LinesInOrder /\ Accounted /\ [Next]_vars => Accounted'
<1> SUFFICES ASSUME MemoryInv, LinesInOrder, Accounted, [Next]_vars PROVE Accounted'
  OBVIOUS
<1>0. /\ IsFiniteSet(Failing) /\ Cardinality(Failing) \in Nat /\ submitted \in Nat
      /\ failures \in 0 .. MaxFailures /\ closed \in Nat
      /\ closed + Cardinality(Failing) <= failures
      /\ closed + Cardinality(Failing) + submitted <= failures + MaxLines
      /\ MaxLines \in Nat /\ MaxFailures \in Nat
  BY FS_CardinalityType, LoggingAssumption DEF Accounted, LinesInOrder
<1>1. CASE Submit
  <2>1. Failing' = Failing /\ failures' = failures /\ submitted' = submitted + 1
    BY <1>1 DEF Submit, listVars, outputVars, Failing
  <2>2. \/ submitted < MaxLines /\ closed' = closed
        \/ closed > 0 /\ closed' = closed - 1
    BY <1>1 DEF Submit
  <2> QED
    BY <1>0, <2>1, <2>2 DEF Accounted
<1>2. ASSUME NEW o \in Outputs, Break(o) PROVE Accounted'
  <2>1. /\ Failing' = Failing \cup {o} /\ o \notin Failing
        /\ failures' = failures + 1 /\ failures < MaxFailures /\ UNCHANGED <<closed, submitted>>
    BY <1>2 DEF Break, Failing, listVars, queueVars
  <2>2. IsFiniteSet(Failing') /\ Cardinality(Failing') = Cardinality(Failing) + 1
    BY <1>0, <2>1, FS_AddElement
  <2> QED
    BY <1>0, <2>1, <2>2 DEF Accounted
<1>3. ASSUME Failing' \subseteq Failing, UNCHANGED <<failures, closed, submitted>>
      PROVE  Accounted'
  <2>1. IsFiniteSet(Failing') /\ Cardinality(Failing') <= Cardinality(Failing)
    BY <1>0, <1>3, FS_Subset
  <2>2. Cardinality(Failing') \in Nat
    BY <2>1, FS_CardinalityType
  <2> QED
    BY <1>0, <1>3, <2>1, <2>2 DEF Accounted
<1>4. CASE Visit
  <2>1. listItem \in LogList.on /\ UNCHANGED <<failures, submitted, broken>>
    BY <1>4 DEF Visit, queueVars, MemoryInv, PointersOnList
  <2>2. CASE listItem \in broken
    <3>1. LogList' = LL!LinkedListRemove(LogList, listItem) /\ closed' = closed + 1
      BY <1>4, <2>2 DEF Visit, LogWrite, LogOutputRemove
    <3>2. LogList'.on = LogList.on \ {listItem}
      BY <2>1, <3>1, RemoveFacts DEF MemoryInv, PointerTypes
    <3>3. Failing' = Failing \ {listItem} /\ listItem \in Failing
      BY <2>1, <2>2, <3>2 DEF Failing
    <3>4. IsFiniteSet(Failing') /\ Cardinality(Failing') = Cardinality(Failing) - 1
      BY <1>0, <3>3, FS_RemoveElement
    <3> QED
      BY <1>0, <2>1, <3>1, <3>4 DEF Accounted
  <2>3. CASE listItem \notin broken
    BY <1>3, <1>4, <2>1, <2>3 DEF Visit, LogWrite, Failing
  <2> QED
    BY <2>2, <2>3
<1>5. CASE FileAdded
  <2>1. UNCHANGED <<failures, closed, submitted>>
    BY <1>5 DEF FileAdded, queueVars
  <2>2. PICK o \in Files \cap freed :
          /\ LogList' = LL!LinkedListAdd(LogList, o, "AT_TAIL") /\ broken' = broken \ {o}
    BY <1>5 DEF FileAdded, LogFileAdd, LogOutputAdd
  <2>3. LogList'.on = LogList.on \cup {o}
    BY <2>2, AddFacts DEF MemoryInv, PointerTypes, Outputs
  <2> QED
    BY <1>3, <2>1, <2>2, <2>3 DEF Failing
<1>6. CASE FileRemoved
  <2>1. UNCHANGED <<failures, closed, submitted, broken>>
    BY <1>6 DEF FileRemoved, queueVars
  <2>2. ASSUME NEW o \in Files \cap LogList.on, LogOutputRemove(o) PROVE Accounted'
    <3>1. LogList'.on = LogList.on \ {o}
      BY <2>2, RemoveFacts DEF MemoryInv, PointerTypes, LogOutputRemove
    <3> QED
      BY <1>3, <2>1, <3>1 DEF Failing
  <2> QED
    BY <1>3, <1>6, <2>1, <2>2 DEF FileRemoved, LogFileRemove, Failing
<1>7. CASE Dequeue \/ LockList \/ Advance \/ Walked \/ ListKept \/ UNCHANGED vars
  BY <1>3, <1>7 DEF Dequeue, LockList, Advance, Walked, ListKept, vars, Failing, listVars,
     outputVars, queueVars
<1> QED
  BY <1>1, <1>2, <1>4, <1>5, <1>6, <1>7, TogglerSteps DEF Next, LoggingThread

\* The locals of LoggingThread point to outputs, and outputs get real lines.
LocalsAndLines ==
  /\ listItem \in Outputs \cup {NULL} /\ next \in Outputs \cup {NULL}
  /\ written \in [Outputs -> Seq(1 .. submitted)]

\* Every step keeps it.
LEMMA LocalsStep ==
  MemoryInv /\ LinesInOrder /\ LocalsAndLines /\ [Next]_vars => LocalsAndLines'
<1> SUFFICES ASSUME MemoryInv, LinesInOrder, LocalsAndLines, [Next]_vars PROVE LocalsAndLines'
  OBVIOUS
<1>0. /\ LogList.on \subseteq Outputs /\ LogList.head \in Outputs \cup {NULL}
      /\ \A x \in LogList.on : LogList.next[x] \in Outputs \cup {NULL}
  BY PointerFacts DEF MemoryInv, PointerTypes
<1>1. CASE Submit
  <2>1. submitted' = submitted + 1 /\ UNCHANGED <<listItem, next, written>>
    BY <1>1 DEF Submit, threadVars, outputVars
  <2>2. 1 .. submitted \subseteq 1 .. submitted'
    BY <2>1 DEF LinesInOrder
  <2>3. Seq(1 .. submitted) \subseteq Seq(1 .. submitted')
    BY <2>2, SeqMonotonic
  <2> QED
    BY <2>1, <2>3 DEF LocalsAndLines
<1>2. CASE Visit
  <2>1. /\ listItem \in LogList.on /\ next' = LogList.next[listItem]
        /\ UNCHANGED <<listItem, submitted>> /\ LogWrite(listItem)
    BY <1>2 DEF Visit, queueVars, MemoryInv, PointersOnList
  <2>2. item \in 1 .. submitted
    BY <1>2 DEF LinesInOrder, Visit
  <2>3. \/ written' = written
        \/ written' = [written EXCEPT ![listItem] = Append(written[listItem], item)]
    BY <2>1 DEF LogWrite
  <2>4. Append(written[listItem], item) \in Seq(1 .. submitted)
    BY <1>0, <2>1, <2>2, AppendProperties DEF LocalsAndLines
  <2>5. written' \in [Outputs -> Seq(1 .. submitted)]
    <3>1. listItem \in Outputs /\ written \in [Outputs -> Seq(1 .. submitted)]
      BY <1>0, <2>1 DEF LocalsAndLines
    <3> QED
      BY <2>3, <2>4, <3>1
  <2>6. listItem' \in Outputs \cup {NULL} /\ next' \in Outputs \cup {NULL}
    BY <1>0, <2>1
  <2> QED
    BY <2>1, <2>5, <2>6 DEF LocalsAndLines
<1>3. CASE FileAdded
  <2>1. UNCHANGED <<listItem, next, submitted>>
    BY <1>3 DEF FileAdded, threadVars, queueVars
  <2>2. <<>> \in Seq(1 .. submitted)
    OBVIOUS
  <2>3. \E o \in Files : written' = [written EXCEPT ![o] = <<>>]
    BY <1>3 DEF FileAdded, LogFileAdd
  <2> QED
    BY <2>1, <2>2, <2>3 DEF LocalsAndLines
<1>4. CASE LockList \/ Advance
  <2>1. listItem' \in Outputs \cup {NULL} /\ UNCHANGED <<next, written, submitted>>
    BY <1>0, <1>4 DEF LockList, Advance, LocalsAndLines, queueVars, outputVars
  <2> QED
    BY <2>1 DEF LocalsAndLines
<1>5. CASE UNCHANGED <<listItem, next, written, submitted>>
  BY <1>5 DEF LocalsAndLines
<1>6. CASE \/ (\E o \in Outputs : Break(o)) \/ FileRemoved \/ ListKept
           \/ Dequeue \/ Walked \/ UNCHANGED vars
  BY <1>5, <1>6 DEF Break, FileRemoved, ListKept, Dequeue, Walked, vars, threadVars, queueVars,
     outputVars
<1> QED
  BY <1>1, <1>2, <1>3, <1>4, <1>6, TogglerSteps DEF Next, LoggingThread

\* The three hold at the start and in every reachable state.
LEMMA LinesInvariant == Spec => [](LinesInOrder /\ Accounted /\ LocalsAndLines)
<1>1. Init => LinesInOrder
  BY LoggingAssumption DEF Init, LinesInOrder
<1>2. Init => Accounted
  <2> SUFFICES ASSUME Init PROVE Accounted
    OBVIOUS
  <2>1. Failing = {} /\ failures = 0 /\ closed = 0 /\ submitted = 0
    BY DEF Init, Failing
  <2> QED
    BY <2>1, FS_EmptySet, LoggingAssumption DEF Accounted
<1>3. Init => LocalsAndLines
  <2> SUFFICES ASSUME Init PROVE LocalsAndLines
    OBVIOUS
  <2>1. <<>> \in Seq(1 .. submitted)
    OBVIOUS
  <2> QED
    BY <2>1 DEF Init, LocalsAndLines
<1> QED
  BY <1>1, <1>2, <1>3, MemoryInvariant, LinesStep, AccountStep, LocalsStep, PTL DEF Spec

FlagTypes == Debug \in BOOLEAN /\ gpc \in [Togglers -> {"idle", "adding", "removing", "added", "removed"}]

LEMMA FlagsHold == Spec => []FlagTypes
<1>1. Init => FlagTypes
  BY DEF Init, FlagTypes
<1>2. FlagTypes /\ [Next]_vars => FlagTypes'
  <2> SUFFICES ASSUME FlagTypes, [Next]_vars PROVE FlagTypes'
    OBVIOUS
  <2>1. ASSUME NEW t \in Togglers, Toggler(t) PROVE FlagTypes'
    <3>1. Debug' \in BOOLEAN
      BY <2>1 DEF Toggler, ToggleStart, ToggleAdd, ToggleRemove, ToggleEnd, FlagTypes
    <3>2. \E place \in {"idle", "adding", "removing", "added", "removed"} :
            gpc' = [gpc EXCEPT ![t] = place]
      BY <2>1 DEF Toggler, ToggleStart, ToggleAdd, ToggleRemove, ToggleEnd
    <3> QED
      BY <3>1, <3>2 DEF FlagTypes
  <2>2. CASE UNCHANGED toggleVars
    BY <2>2 DEF FlagTypes, toggleVars
  <2> QED
    BY <2>1, <2>2 DEF Next, Submit, Break, LoggingThread, Dequeue, LockList, Visit, Advance,
       Walked, vars
<1> QED
  BY <1>1, <1>2, PTL DEF Spec

\* Types and bounds of logging.c's state: LoggingQ never exceeds its capacity,
\* and the messages about closed outputs, which the logger sends to itself by
\* way of main, are never more than the outputs that failed.
THEOREM LoggingTypes == Spec => []TypeOK
<1>1. MemoryInv /\ LinesInOrder /\ Accounted /\ LocalsAndLines /\ FlagTypes => TypeOK
  <2> SUFFICES ASSUME MemoryInv, LinesInOrder, Accounted, LocalsAndLines, FlagTypes PROVE TypeOK
    OBVIOUS
  <2>1. LoggingQ \in Seq(1 .. submitted)
    <3>1. Len(LoggingQ) \in Nat /\ \A k \in 1 .. Len(LoggingQ) : LoggingQ[k] \in 1 .. submitted
      BY DEF LinesInOrder
    <3> QED
      BY <3>1, SeqOver DEF LinesInOrder
  <2>2. item \in 0 .. submitted
    <3>1. Len(LoggingQ) \in Nat
      BY DEF LinesInOrder
    <3> QED
      BY <3>1 DEF LinesInOrder
  <2>3. /\ submitted \in 0 .. MaxLines + MaxFailures
        /\ failures \in 0 .. MaxFailures /\ closed \in 0 .. MaxFailures
    <3>1. Cardinality(Failing) \in Nat
      BY FS_CardinalityType DEF Accounted
    <3> QED
      BY <3>1, LoggingAssumption DEF Accounted, LinesInOrder
  <2> QED
    BY <2>1, <2>2, <2>3 DEF TypeOK, MemoryInv, PointerTypes, LinesInOrder, LocalsAndLines, FlagTypes
<1> QED
  BY <1>1, MemoryInvariant, LinesInvariant, FlagsHold, PTL
-----------------------------------------------------------------------------
(***************************************************************************)
(* A walk reaches every output.                                            *)
(***************************************************************************)

\* The outputs that are never added again once they have been dropped.
Permanent == {console, syslog}

\* The lines 1 to n, in order.
UpTo(n) == [k \in 1 .. n |-> k]

\* What a walk along s points to when it has passed p - 1 outputs.
Pointer(s, p) == IF p <= Len(s) THEN s[p] ELSE NULL

\* ptr is a place in the walk of list l: the outputs before it have line n,
\* and the others have the lines before it.
PlaceInWalk(l, w, n, ptr) ==
  \E s : /\ LP!Walk(l, s)
         /\ \E p \in 1 .. Len(s) + 1 :
              /\ ptr = Pointer(s, p)
              /\ \A j \in 1 .. Len(s) : s[j] \in Permanent =>
                   w[s[j]] = UpTo(IF j < p THEN n ELSE n - 1)

\* All permanent outputs on list l have the lines up to n.
AllHave(l, w, n) == \A o \in Permanent \cap l.on : w[o] = UpTo(n)

\* How far LoggingThread has come with its line.
WalkProgress ==
  /\ tpc = "dequeue" => AllHave(LogList, written, item)
  /\ tpc = "lock" => AllHave(LogList, written, item - 1)
  /\ tpc = "visit" => PlaceInWalk(LogList, written, item, listItem)
  /\ tpc = "advance" => PlaceInWalk(LogList, written, item, next)

\* Appending the next line.
LEMMA AppendLine ==
  ASSUME NEW n \in Nat \ {0}
  PROVE  Append(UpTo(n - 1), n) = UpTo(n)
<1>1. n - 1 \in Nat
  OBVIOUS
<1>2. UpTo(n - 1) \in Seq(Nat) /\ Len(UpTo(n - 1)) = n - 1
  BY <1>1 DEF UpTo
<1> QED
  BY <1>1, <1>2 DEF UpTo

\* The facts about a walk s of a list l of outputs that the next proofs use.
LEMMA PlaceFacts ==
  ASSUME NEW l \in LL!Lists, NEW s, LP!Walk(l, s)
  PROVE  /\ Len(s) \in Nat /\ s \in Seq(l.on) /\ NULL \notin l.on
         /\ \A k \in 1 .. Len(s) : s[k] \in l.on
         /\ \A x \in l.on : \E k \in 1 .. Len(s) : s[k] = x
         /\ \A j, k \in 1 .. Len(s) : s[j] = s[k] => j = k
         /\ l.head = Pointer(s, 1)
         /\ \A k \in 1 .. Len(s) : l.next[s[k]] = Pointer(s, k + 1)
<1> DEFINE n == Len(s)
<1>1. n \in Nat /\ s \in Seq(l.on) /\ \A k \in 1 .. n : s[k] \in l.on
  BY DEF LP!Walk
<1>2. NULL \notin l.on
  BY LoggingAssumption DEF LL!Lists
<1>3. \A x \in l.on : \E k \in 1 .. n : s[k] = x
  BY DEF LP!Walk
<1>4. \A j, k \in 1 .. n : s[j] = s[k] => j = k
  BY DEF LP!Walk
<1>5. l.head = IF n = 0 THEN NULL ELSE s[1]
  BY DEF LP!Walk
<1>6. \A k \in 1 .. n : l.next[s[k]] = IF k = n THEN NULL ELSE s[k + 1]
  BY DEF LP!Walk
<1>7. l.head = IF 1 <= n THEN s[1] ELSE NULL
  <2> HIDE DEF n
  <2> QED
    BY <1>1, <1>5
<1>8. \A k \in 1 .. n : l.next[s[k]] = IF k + 1 <= n THEN s[k + 1] ELSE NULL
  <2> HIDE DEF n
  <2>1. \A k \in 1 .. n : (k = n) <=> ~(k + 1 <= n)
    BY <1>1
  <2> QED
    BY <1>6, <2>1
<1> QED
  BY <1>1, <1>2, <1>3, <1>4, <1>7, <1>8 DEF Pointer

\* A walk without its p-th output.
LEMMA DroppedFromSeq ==
  ASSUME NEW S, NEW s \in Seq(S), NEW p \in 1 .. Len(s)
  PROVE  LET w == LP!OL!Without(s, p)
         IN  /\ Len(w) = Len(s) - 1
             /\ \A j \in 1 .. Len(s) - 1 : w[j] = IF j < p THEN s[j] ELSE s[j + 1]
<1> DEFINE w == LP!OL!Without(s, p)
<1>1. w = WithoutAt(s, p)
  BY DEF LP!OL!Without, WithoutAt
<1> HIDE DEF w
<1>2. /\ Len(w) = Len(s) - 1
      /\ \A j \in 1 .. Len(s) - 1 : w[j] = IF j < p THEN s[j] ELSE s[j + 1]
  BY <1>1, WithoutElement
<1> QED
  BY <1>2 DEF w

\* One output of the walk: it gets the line, or is dropped; the walk goes on
\* with the output that followed it.
LEMMA VisitMakesProgress ==
  ASSUME MemoryInv, LinesInOrder, LocalsAndLines, WalkProgress, Visit
  PROVE  WalkProgress'
<1>1. /\ tpc = "visit" /\ tpc' = "advance" /\ listItem # NULL /\ item' = item
      /\ next' = LogList.next[listItem] /\ LogWrite(listItem)
      /\ item \in Nat \ {0} /\ LogList \in LL!Lists
  BY DEF Visit, LinesInOrder, MemoryInv, PointerTypes
<1>2. PICK s : /\ LP!Walk(LogList, s)
               /\ \E p \in 1 .. Len(s) + 1 :
                    /\ listItem = Pointer(s, p)
                    /\ \A j \in 1 .. Len(s) : s[j] \in Permanent =>
                         written[s[j]] = UpTo(IF j < p THEN item ELSE item - 1)
  BY <1>1 DEF WalkProgress, PlaceInWalk
<1>3. PICK p \in 1 .. Len(s) + 1 :
        /\ listItem = Pointer(s, p)
        /\ \A j \in 1 .. Len(s) : s[j] \in Permanent =>
             written[s[j]] = UpTo(IF j < p THEN item ELSE item - 1)
  BY <1>2
<1> DEFINE n == Len(s)
<1>4. /\ n \in Nat /\ s \in Seq(LogList.on)
      /\ \A k \in 1 .. n : s[k] \in LogList.on
      /\ \A j, k \in 1 .. n : s[j] = s[k] => j = k
      /\ \A k \in 1 .. n : LogList.next[s[k]] = Pointer(s, k + 1)
  BY <1>1, <1>2, PlaceFacts
<1>5. p \in 1 .. n /\ listItem = s[p] /\ next' = Pointer(s, p + 1)
  <2>1. p <= n /\ listItem = s[p]
    BY <1>1, <1>3, <1>4 DEF Pointer
  <2>2. p \in 1 .. n
    BY <1>4, <2>1
  <2> QED
    BY <1>1, <1>4, <2>1, <2>2
<1>6. CASE listItem \notin broken
  <2>1. LogList' = LogList /\ written' = [written EXCEPT ![s[p]] = Append(written[s[p]], item)]
    BY <1>1, <1>5, <1>6 DEF Visit, LogWrite
  <2>2. p + 1 \in 1 .. n + 1
    BY <1>4, <1>5
  <2>3. ASSUME NEW j \in 1 .. n, s[j] \in Permanent
        PROVE  written'[s[j]] = UpTo(IF j < p + 1 THEN item ELSE item - 1)
    <3>1. s[j] \in Outputs /\ s[p] \in Outputs /\ written \in [Outputs -> Seq(1 .. submitted)]
      BY <1>1, <1>4, <1>5, PointerFacts DEF MemoryInv, LocalsAndLines
    <3>2. written[s[j]] = UpTo(IF j < p THEN item ELSE item - 1)
      BY <1>3, <2>3
    <3>3. CASE j = p
      <4>1. written[s[p]] = UpTo(item - 1) /\ j < p + 1
        BY <1>5, <3>2, <3>3
      <4>2. written'[s[p]] = Append(UpTo(item - 1), item)
        BY <2>1, <3>1, <4>1
      <4> QED
        BY <1>1, <3>3, <4>1, <4>2, AppendLine
    <3>4. CASE j # p
      <4>1. s[j] # s[p] /\ (j < p <=> j < p + 1)
        BY <1>4, <1>5, <3>4
      <4> QED
        BY <2>1, <3>1, <3>2, <4>1
    <3> QED
      BY <3>3, <3>4
  <2>4. PlaceInWalk(LogList', written', item', next')
    BY <1>1, <1>2, <1>5, <2>1, <2>2, <2>3 DEF PlaceInWalk
  <2> QED
    BY <1>1, <2>4 DEF WalkProgress
<1>7. CASE listItem \in broken
  <2>1. LogList' = LL!LinkedListRemove(LogList, s[p]) /\ written' = written
    BY <1>1, <1>5, <1>7 DEF Visit, LogWrite, LogOutputRemove
  <2> DEFINE w == LP!OL!Without(s, p)
  <2>2. LP!Walk(LogList', w)
    BY <1>1, <1>2, <1>5, <2>1, SameList, LP!WalkRemove, LoggingAssumption
  <2>3. /\ Len(w) = n - 1
        /\ \A j \in 1 .. n - 1 : w[j] = IF j < p THEN s[j] ELSE s[j + 1]
    BY <1>4, <1>5, DroppedFromSeq
  <2> HIDE DEF w
  <2>4. p \in 1 .. Len(w) + 1
    BY <1>4, <1>5, <2>3
  <2>5. next' = Pointer(w, p)
    <3>1. p <= n - 1 <=> p + 1 <= n
      BY <1>4, <1>5
    <3>2. p <= n - 1 => w[p] = s[p + 1]
      <4>1. p <= n - 1 => p \in 1 .. n - 1
        BY <1>4, <1>5
      <4> QED
        BY <2>3, <4>1
    <3> QED
      BY <1>5, <2>3, <3>1, <3>2 DEF Pointer
  <2>6. ASSUME NEW j \in 1 .. Len(w), w[j] \in Permanent
        PROVE  written'[w[j]] = UpTo(IF j < p THEN item ELSE item - 1)
    <3>1. j \in 1 .. n - 1
      BY <2>3
    <3>2. CASE j < p
      <4>1. w[j] = s[j] /\ j \in 1 .. n
        BY <1>4, <2>3, <3>1, <3>2
      <4> QED
        BY <1>3, <2>1, <2>6, <3>2, <4>1
    <3>3. CASE ~(j < p)
      <4>1. w[j] = s[j + 1] /\ j + 1 \in 1 .. n /\ ~(j + 1 < p)
        BY <1>4, <1>5, <2>3, <3>1, <3>3
      <4> QED
        BY <1>3, <2>1, <2>6, <3>3, <4>1
    <3> QED
      BY <3>2, <3>3
  <2>7. PlaceInWalk(LogList', written', item', next')
    BY <1>1, <2>2, <2>4, <2>5, <2>6 DEF PlaceInWalk
  <2> QED
    BY <1>1, <2>7 DEF WalkProgress
<1> QED
  BY <1>6, <1>7

\* Adding or removing a debug file between two walks changes nothing for the
\* permanent outputs.
LEMMA ToggleKeepsProgress ==
  ASSUME MemoryInv, LocalsAndLines, WalkProgress, FileAdded \/ FileRemoved
  PROVE  WalkProgress'
<1>1. UNCHANGED <<tpc, item, listItem, next>> /\ LogList \in LL!Lists /\ LP!CanWalk(LogList)
  BY DEF FileAdded, FileRemoved, threadVars, MemoryInv, PointerTypes
<1>2. CASE UNCHANGED <<LogList, written>>
  BY <1>1, <1>2 DEF WalkProgress, AllHave, PlaceInWalk
<1>3. CASE /\ ~mutex
           /\ \E o \in Files : LogList'.on \in {LogList.on \cup {o}, LogList.on \ {o}}
           /\ \A x \in Permanent : written'[x] = written[x]
  <2>1. Permanent \cap LogList'.on = Permanent \cap LogList.on
    BY <1>3, LoggingAssumption DEF Permanent
  <2>2. ASSUME NEW n PROVE AllHave(LogList, written, n) <=> AllHave(LogList', written', n)
    BY <1>3, <2>1 DEF AllHave
  <2>3. tpc \notin {"visit", "advance"}
    BY <1>3 DEF MemoryInv, MutexHeld
  <2> QED
    BY <1>1, <2>2, <2>3 DEF WalkProgress
<1>4. CASE FileAdded
  <2>1. PICK o \in Files \cap freed :
          /\ LogList' = LL!LinkedListAdd(LogList, o, "AT_TAIL")
          /\ written' = [written EXCEPT ![o] = <<>>] /\ ~mutex
    BY <1>4 DEF FileAdded, LogFileAdd, LogOutputAdd
  <2>2. LogList'.on = LogList.on \cup {o}
    BY <1>1, <2>1, AddFacts DEF MemoryInv, Outputs
  <2>3. \A x \in Permanent : written'[x] = written[x]
    BY <2>1, LoggingAssumption DEF LocalsAndLines, Permanent, Outputs
  <2> QED
    BY <1>3, <2>1, <2>2, <2>3
<1>5. ASSUME FileRemoved, NEW o \in Files \cap LogList.on, LogOutputRemove(o)
      PROVE  WalkProgress'
  <2>1. LogList' = LL!LinkedListRemove(LogList, o) /\ written' = written /\ ~mutex
    BY <1>5 DEF FileRemoved, LogFileRemove, LogOutputRemove
  <2>2. LogList'.on = LogList.on \ {o}
    BY <1>1, <2>1, RemoveFacts
  <2> QED
    BY <1>3, <2>1, <2>2
<1> QED
  BY <1>2, <1>4, <1>5 DEF FileRemoved, LogFileRemove

\* Every step keeps the walk's progress.
LEMMA ProgressStep ==
  MemoryInv /\ LinesInOrder /\ LocalsAndLines /\ WalkProgress /\ [Next]_vars => WalkProgress'
<1> SUFFICES ASSUME MemoryInv, LinesInOrder, LocalsAndLines, WalkProgress, [Next]_vars
             PROVE  WalkProgress'
  OBVIOUS
<1>0. LogList \in LL!Lists /\ LP!CanWalk(LogList) /\ item \in Nat
  BY DEF MemoryInv, PointerTypes, LinesInOrder
<1>1. CASE UNCHANGED <<threadVars, LogList, written>>
  BY <1>1 DEF threadVars, WalkProgress, AllHave, PlaceInWalk
<1>2. CASE Submit \/ (\E o \in Outputs : Break(o)) \/ ListKept \/ UNCHANGED vars
  BY <1>1, <1>2 DEF Submit, Break, ListKept, vars, listVars, outputVars
<1>3. CASE Dequeue
  <2>1. item' = item + 1
    <3>1. item' = Head(LoggingQ) /\ LoggingQ # <<>>
      BY <1>3 DEF Dequeue
    <3>2. LoggingQ \in Seq(Nat) /\ \A k \in 1 .. Len(LoggingQ) : LoggingQ[k] = item + k
      BY DEF LinesInOrder
    <3>3. 1 \in 1 .. Len(LoggingQ) /\ Head(LoggingQ) = LoggingQ[1]
      BY <3>1, <3>2
    <3> QED
      BY <3>1, <3>2, <3>3
  <2>2. item' - 1 = item
    BY <1>0, <2>1
  <2>3. tpc = "dequeue" /\ tpc' = "lock" /\ UNCHANGED <<LogList, written>>
    BY <1>3 DEF Dequeue, listVars, outputVars
  <2> QED
    BY <2>2, <2>3 DEF WalkProgress, AllHave
<1>4. CASE LockList
  <2>1. /\ tpc = "lock" /\ tpc' = "visit" /\ listItem' = LogList.head
        /\ UNCHANGED <<LogList, written, item>>
    BY <1>4 DEF LockList, outputVars
  <2>2. PICK s : LP!Walk(LogList, s)
    BY <1>0 DEF LP!CanWalk
  <2>3. /\ Len(s) \in Nat /\ LogList.head = Pointer(s, 1)
        /\ \A k \in 1 .. Len(s) : s[k] \in LogList.on
    BY <1>0, <2>2, PlaceFacts
  <2>4. 1 \in 1 .. Len(s) + 1
    BY <2>3
  <2>5. \A j \in 1 .. Len(s) : s[j] \in Permanent =>
          written[s[j]] = UpTo(IF j < 1 THEN item ELSE item - 1)
    <3>1. \A j \in 1 .. Len(s) : ~(j < 1)
      BY <2>3
    <3> QED
      BY <2>1, <2>3, <3>1 DEF WalkProgress, AllHave
  <2>6. PlaceInWalk(LogList, written, item, LogList.head)
    BY <2>2, <2>3, <2>4, <2>5 DEF PlaceInWalk
  <2> QED
    BY <2>1, <2>6 DEF WalkProgress
<1>5. CASE Advance
  BY <1>5 DEF Advance, WalkProgress, PlaceInWalk, listVars, outputVars
<1>6. CASE Walked
  <2>1. /\ tpc = "visit" /\ tpc' = "dequeue" /\ listItem = NULL
        /\ UNCHANGED <<LogList, written, item>>
    BY <1>6 DEF Walked, outputVars
  <2>2. PICK s : /\ LP!Walk(LogList, s)
                 /\ \E p \in 1 .. Len(s) + 1 :
                      /\ NULL = Pointer(s, p)
                      /\ \A j \in 1 .. Len(s) : s[j] \in Permanent =>
                           written[s[j]] = UpTo(IF j < p THEN item ELSE item - 1)
    BY <2>1 DEF WalkProgress, PlaceInWalk
  <2>3. PICK p \in 1 .. Len(s) + 1 :
          /\ NULL = Pointer(s, p)
          /\ \A j \in 1 .. Len(s) : s[j] \in Permanent =>
               written[s[j]] = UpTo(IF j < p THEN item ELSE item - 1)
    BY <2>2
  <2>4. /\ Len(s) \in Nat /\ NULL \notin LogList.on
        /\ \A k \in 1 .. Len(s) : s[k] \in LogList.on
        /\ \A x \in LogList.on : \E k \in 1 .. Len(s) : s[k] = x
    BY <1>0, <2>2, PlaceFacts
  <2>5. \A j \in 1 .. Len(s) : j < p
    <3>1. ~(p <= Len(s))
      <4>1. p <= Len(s) => p \in 1 .. Len(s)
        BY <2>4
      <4> QED
        BY <2>3, <2>4, <4>1 DEF Pointer
    <3> QED
      BY <2>4, <3>1
  <2>6. AllHave(LogList, written, item)
    <3> SUFFICES ASSUME NEW o \in Permanent \cap LogList.on PROVE written[o] = UpTo(item)
      BY DEF AllHave
    <3>1. PICK k \in 1 .. Len(s) : s[k] = o
      BY <2>4
    <3> QED
      BY <2>3, <2>5, <3>1
  <2> QED
    BY <2>1, <2>6 DEF WalkProgress
<1> QED
  BY <1>2, <1>3, <1>4, <1>5, <1>6, VisitMakesProgress, TogglerSteps,
     ToggleKeepsProgress
     DEF Next, LoggingThread

\* Between two lines console and syslog have every line so far, once and in
\* order, as long as they are on the list: no walk skips or repeats an output,
\* whatever is dropped on the way and however often debugging is toggled.
THEOREM EveryOutputGetsEveryLine == Spec => []NothingSkipped
<1>1. Init => WalkProgress
  <2> SUFFICES ASSUME Init PROVE WalkProgress
    OBVIOUS
  <2>1. UpTo(0) = <<>>
    BY DEF UpTo
  <2> QED
    BY <2>1 DEF Init, WalkProgress, AllHave, Permanent, Outputs
<1>2. WalkProgress => NothingSkipped
  BY DEF WalkProgress, AllHave, Permanent, UpTo, NothingSkipped
<1> QED
  BY <1>1, <1>2, MemoryInvariant, LinesInvariant, ProgressStep, PTL DEF Spec
=============================================================================
