---------------------------- MODULE QueueProofs ----------------------------
(***************************************************************************)
(* Proofs about the queue of src/queue.c, for every number of slots and    *)
(* every set of threads and items.                                         *)
(***************************************************************************)
EXTENDS Queue, TLAPS

(***************************************************************************)
(* Index arithmetic.                                                       *)
(***************************************************************************)

\* Masking the successor of an index (queue->head++; queue->head &= numMask).
LEMMA WrapSuccessor ==
  ASSUME NEW x \in Slots
  PROVE  /\ Wrap(x + 1) \in Slots
         /\ Wrap(x + 1) = IF x + 1 = numElements THEN 0 ELSE x + 1
BY QueueAssumption DEF Slots, Wrap

\* What QueueUsed computes for two indices of the table.
LEMMA UsedValue ==
  ASSUME NEW h \in Slots, NEW t \in Slots
  PROVE  Used(h, t) = IF h >= t THEN h - t ELSE h + numElements - t
<1>1. CASE h >= t
  <2>1. h - t \in 0 .. numElements - 1
    BY <1>1, QueueAssumption DEF Slots
  <2>2. ((h - t) + numElements) % numElements = h - t
    BY <2>1, QueueAssumption
  <2>3. h + numElements - t = (h - t) + numElements
    BY QueueAssumption DEF Slots
  <2> QED
    BY <1>1, <2>2, <2>3 DEF Used, Wrap
<1>2. CASE h < t
  <2>1. h + numElements - t \in 0 .. numElements - 1
    BY <1>2, QueueAssumption DEF Slots
  <2>2. (h + numElements - t) % numElements = h + numElements - t
    BY <2>1, QueueAssumption
  <2>3. ~(h >= t)
    BY <1>2, QueueAssumption DEF Slots
  <2> QED
    BY <2>2, <2>3 DEF Used, Wrap
<1> QED
  BY <1>1, <1>2, QueueAssumption DEF Slots

\* Storing an item occupies one more slot, the one at head.
LEMMA UsedAfterStore ==
  ASSUME NEW h \in Slots, NEW t \in Slots, Wrap(h + 1) # t,
         NEW s \in Slots, Used(s, t) < Used(Wrap(h + 1), t)
  PROVE  s = h \/ Used(s, t) < Used(h, t)
<1> DEFINE n == Wrap(h + 1)
<1>1. n \in Slots /\ n = IF h + 1 = numElements THEN 0 ELSE h + 1
  BY WrapSuccessor
<1>2. Used(n, t) = IF n >= t THEN n - t ELSE n + numElements - t
  BY <1>1, UsedValue
<1>3. Used(h, t) = IF h >= t THEN h - t ELSE h + numElements - t
  BY UsedValue
<1>4. Used(s, t) = IF s >= t THEN s - t ELSE s + numElements - t
  BY UsedValue
<1>5. n # t /\ Used(s, t) < Used(n, t)
  OBVIOUS
<1> HIDE DEF n
<1> QED
  BY <1>1, <1>2, <1>3, <1>4, <1>5, QueueAssumption DEF Slots

\* Taking an item frees the slot at tail and no other.
LEMMA UsedAfterTake ==
  ASSUME NEW h \in Slots, NEW t \in Slots, h # t,
         NEW s \in Slots, Used(s, Wrap(t + 1)) < Used(h, Wrap(t + 1))
  PROVE  s # t /\ Used(s, t) < Used(h, t)
<1> DEFINE n == Wrap(t + 1)
<1>1. n \in Slots /\ n = IF t + 1 = numElements THEN 0 ELSE t + 1
  BY WrapSuccessor
<1>2. Used(s, n) = IF s >= n THEN s - n ELSE s + numElements - n
  BY <1>1, UsedValue
<1>3. Used(h, n) = IF h >= n THEN h - n ELSE h + numElements - n
  BY <1>1, UsedValue
<1>4. Used(h, t) = IF h >= t THEN h - t ELSE h + numElements - t
  BY UsedValue
<1>5. Used(s, t) = IF s >= t THEN s - t ELSE s + numElements - t
  BY UsedValue
<1>6. Used(s, n) < Used(h, n)
  OBVIOUS
<1> HIDE DEF n
<1> QED
  BY <1>1, <1>2, <1>3, <1>4, <1>5, <1>6, QueueAssumption DEF Slots

\* The two conditions QueueConditionUpdate tells apart exclude each other.
LEMMA FullIsNotEmpty ==
  ASSUME NEW h \in Slots
  PROVE  Wrap(h + 1) # h
BY WrapSuccessor, QueueAssumption DEF Slots
-----------------------------------------------------------------------------
(***************************************************************************)
(* Type correctness.                                                       *)
(***************************************************************************)

\* QueueConditionUpdate keeps the flags and the wait sets in their types.
LEMMA ConditionUpdateType ==
  ASSUME TypeOK, NEW h \in Slots, NEW t \in Slots, QueueConditionUpdate(h, t)
  PROVE  /\ full' \in BOOLEAN /\ empty' \in BOOLEAN
         /\ cNotFull' \subseteq cNotFull
         /\ cNotEmpty' \subseteq cNotEmpty
BY DEF TypeOK, QueueConditionUpdate, Signal

\* Every step of every caller keeps the type invariant.
LEMMA TypeStep == TypeOK /\ [Next]_vars => TypeOK'
<1> SUFFICES ASSUME TypeOK, [Next]_vars PROVE TypeOK'
  OBVIOUS
<1> USE DEF queueVars, abortVars, threadVars, Goto, Lock, Unlock
<1>1. ASSUME NEW t \in Threads, NEW i \in Items, EnqueueCall(t, i) PROVE TypeOK'
  BY <1>1 DEF TypeOK, EnqueueCall, Places
<1>2. ASSUME NEW t \in Threads, NEW m \in Modes, DequeueCall(t, m) PROVE TypeOK'
  BY <1>2, QueueAssumption DEF TypeOK, DequeueCall, Places
<1>3. ASSUME NEW t \in Threads, EnqueueStep(t) PROVE TypeOK'
  <2>1. CASE EnqueueFull(t) \/ EnqueueSleep(t) \/ EnqueueWake(t)
    BY <2>1 DEF TypeOK, EnqueueFull, EnqueueSleep, EnqueueWake, Places
  <2>2. CASE EnqueueStore(t)
    <3>1. head' \in Slots /\ tail \in Slots
      BY <2>2, WrapSuccessor DEF TypeOK, EnqueueStore
    <3>2. /\ full' \in BOOLEAN /\ empty' \in BOOLEAN
          /\ cNotFull' \subseteq cNotFull /\ cNotEmpty' \subseteq cNotEmpty
      BY <2>2, <3>1, ConditionUpdateType DEF EnqueueStore
    <3> QED
      BY <2>2, <3>1, <3>2 DEF TypeOK, EnqueueStore, Places
  <2> QED
    BY <1>3, <2>1, <2>2 DEF EnqueueStep
<1>4. ASSUME NEW t \in Threads, DequeueStep(t) PROVE TypeOK'
  <2>1. CASE DequeueEmpty(t) \/ DequeueSleep(t) \/ DequeueInvalid(t)
    BY <2>1 DEF TypeOK, DequeueEmpty, DequeueSleep, DequeueInvalid, Places
  <2>2. CASE DequeueTimeout(t) \/ DequeueWake(t) \/ DequeueAbort(t) \/ DequeueNothing(t)
    BY <2>2 DEF TypeOK, DequeueTimeout, DequeueWake, DequeueAbort, DequeueNothing, Places
  <2>3. CASE DequeueTake(t)
    <3>1. head \in Slots /\ tail' \in Slots
      BY <2>3, WrapSuccessor DEF TypeOK, DequeueTake
    <3>2. /\ full' \in BOOLEAN /\ empty' \in BOOLEAN
          /\ cNotFull' \subseteq cNotFull /\ cNotEmpty' \subseteq cNotEmpty
      BY <2>3, <3>1, ConditionUpdateType DEF DequeueTake
    <3> QED
      BY <2>3, <3>1, <3>2 DEF TypeOK, DequeueTake, Places
  <2> QED
    BY <1>4, <2>1, <2>2, <2>3 DEF DequeueStep
<1>5. ASSUME NEW t \in Threads, SpuriousWake(t) PROVE TypeOK'
  BY <1>5 DEF TypeOK, SpuriousWake
<1>6. ASSUME NEW freeItems \in Clears, QueueClear(freeItems) PROVE TypeOK'
  <2>1. 0 \in Slots
    BY QueueAssumption DEF Slots
  <2>2. /\ full' \in BOOLEAN /\ empty' \in BOOLEAN
        /\ cNotFull' \subseteq cNotFull /\ cNotEmpty' \subseteq cNotEmpty
    BY <1>6, <2>1, ConditionUpdateType DEF QueueClear
  <2> QED
    BY <1>6, <2>1, <2>2 DEF TypeOK, QueueClear
<1>7. CASE SetGlobalAbort \/ QueueKillAll
  BY <1>7 DEF TypeOK, SetGlobalAbort, QueueKillAll
<1>8. CASE UNCHANGED vars
  BY <1>8 DEF TypeOK, vars
<1> QED
  BY <1>1, <1>2, <1>3, <1>4, <1>5, <1>6, <1>7, <1>8 DEF Next

\* The fields of QueueObject_t, the wait sets and the callers' places keep
\* their types in every interleaving: head and tail never leave the table.
THEOREM TypeCorrect == Spec => []TypeOK
<1>1. Init => TypeOK
  <2>1. 0 \in Slots
    BY QueueAssumption DEF Slots
  <2>2. /\ \A t \in Threads : "idle" \in Places /\ "block" \in AllModes
        /\ "0" \in {"0", "ETIMEDOUT", "EINVAL"}
    BY DEF Places, AllModes
  <2> HIDE DEF Places, AllModes
  <2> QED
    <3> SUFFICES ASSUME Init PROVE TypeOK
      OBVIOUS
    <3>1. /\ head \in Slots /\ tail \in Slots
          /\ full \in BOOLEAN /\ empty \in BOOLEAN
          /\ GlobalAbort \in BOOLEAN /\ killed \in BOOLEAN
          /\ mutex \in Threads \cup {NULL}
          /\ cNotFull \subseteq Threads /\ cNotEmpty \subseteq Threads
      BY <2>1 DEF Init
    <3>2. /\ itemTable \in [Slots -> Items \cup {NULL}]
          /\ item \in [Threads -> Items \cup {NULL}]
          /\ pc \in [Threads -> Places] /\ mode \in [Threads -> AllModes]
          /\ status \in [Threads -> {"0", "ETIMEDOUT", "EINVAL"}]
      BY <2>2 DEF Init
    <3> QED
      BY <3>1, <3>2 DEF TypeOK
<1> QED
  BY <1>1, TypeStep, PTL DEF Spec
-----------------------------------------------------------------------------
(***************************************************************************)
(* The invariant of the queue.                                             *)
(***************************************************************************)

\* After QueueConditionUpdate the flags agree with the indices it was given.
LEMMA ConditionUpdateFlags ==
  ASSUME NEW h \in Slots, NEW t \in Slots, QueueConditionUpdate(h, t)
  PROVE  empty' = (h = t) /\ full' = (Wrap(h + 1) = t)
BY FullIsNotEmpty DEF QueueConditionUpdate

\* A step that leaves the QueueObject_t alone leaves its two invariants alone.
LEMMA QueueUntouched ==
  ASSUME UNCHANGED queueVars, FlagsMatchIndices, OccupiedSlotsHoldItems
  PROVE  FlagsMatchIndices' /\ OccupiedSlotsHoldItems'
BY DEF queueVars, FlagsMatchIndices, OccupiedSlotsHoldItems

\* QueueEnqueueItem's insertion keeps the invariant: the slot it fills is the
\* one slot that becomes occupied.
LEMMA StoreKeepsInv ==
  ASSUME TypeOK, QueueInv, NEW t \in Threads, EnqueueStore(t)
  PROVE  QueueInv'
<1> USE DEF Goto, Unlock, threadVars
<1>1. /\ head \in Slots /\ tail \in Slots /\ head' = Wrap(head + 1) /\ tail' = tail
      /\ head' \in Slots /\ Wrap(head + 1) # tail
      /\ QueueConditionUpdate(head', tail)
  BY WrapSuccessor DEF TypeOK, QueueInv, FlagsMatchIndices, EnqueueStore
<1>2. FlagsMatchIndices'
  BY <1>1, ConditionUpdateFlags DEF FlagsMatchIndices
<1>3. OccupiedSlotsHoldItems'
  <2> SUFFICES ASSUME NEW s \in Slots, Used(s, tail) < Used(head', tail)
               PROVE  itemTable'[s] # NULL
    BY <1>1 DEF OccupiedSlotsHoldItems
  <2>1. s = head \/ Used(s, tail) < Used(head, tail)
    BY <1>1, UsedAfterStore
  <2>2. itemTable' = [itemTable EXCEPT ![head] = item[t]] /\ item[t] # NULL
    BY DEF EnqueueStore, QueueInv, EnqueuersCarryItems
  <2> QED
    BY <2>1, <2>2 DEF QueueInv, OccupiedSlotsHoldItems, TypeOK
<1>4. MutexOwner'
  BY QueueAssumption DEF TypeOK, QueueInv, MutexOwner, EnqueueStore, Holding
<1>5. SleepersAreWaiting'
  <2>1. cNotFull' \subseteq cNotFull /\ cNotEmpty' \subseteq cNotEmpty
    BY <1>1, ConditionUpdateType
  <2>2. pc' = [pc EXCEPT ![t] = "idle"] /\ pc[t] = "enqTest"
    BY DEF EnqueueStore
  <2> QED
    BY <2>1, <2>2 DEF TypeOK, QueueInv, SleepersAreWaiting
<1>6. EnqueuersCarryItems'
  BY DEF TypeOK, QueueInv, EnqueuersCarryItems, EnqueueStore
<1> QED
  BY <1>2, <1>3, <1>4, <1>5, <1>6 DEF QueueInv

\* QueueDequeueItem's removal keeps the invariant: the slot it clears is the
\* one slot that stops being occupied.
LEMMA TakeKeepsInv ==
  ASSUME TypeOK, QueueInv, NEW t \in Threads, DequeueTake(t)
  PROVE  QueueInv'
<1> USE DEF Goto, Unlock, threadVars
<1>1. /\ head \in Slots /\ tail \in Slots /\ tail' = Wrap(tail + 1) /\ head' = head
      /\ tail' \in Slots /\ head # tail
      /\ QueueConditionUpdate(head, tail')
  BY WrapSuccessor DEF TypeOK, QueueInv, FlagsMatchIndices, DequeueTake
<1>2. FlagsMatchIndices'
  BY <1>1, ConditionUpdateFlags DEF FlagsMatchIndices
<1>3. OccupiedSlotsHoldItems'
  <2> SUFFICES ASSUME NEW s \in Slots, Used(s, tail') < Used(head, tail')
               PROVE  itemTable'[s] # NULL
    BY <1>1 DEF OccupiedSlotsHoldItems
  <2>1. s # tail /\ Used(s, tail) < Used(head, tail)
    BY <1>1, UsedAfterTake
  <2>2. itemTable' = [itemTable EXCEPT ![tail] = NULL]
    BY DEF DequeueTake
  <2> QED
    BY <2>1, <2>2 DEF QueueInv, OccupiedSlotsHoldItems, TypeOK
<1>4. MutexOwner'
  BY QueueAssumption DEF TypeOK, QueueInv, MutexOwner, DequeueTake, Holding
<1>5. SleepersAreWaiting'
  <2>1. cNotFull' \subseteq cNotFull /\ cNotEmpty' \subseteq cNotEmpty
    BY <1>1, ConditionUpdateType
  <2>2. pc' = [pc EXCEPT ![t] = "idle"] /\ pc[t] = "deqTest"
    BY DEF DequeueTake
  <2> QED
    BY <2>1, <2>2 DEF TypeOK, QueueInv, SleepersAreWaiting
<1>6. EnqueuersCarryItems'
  BY DEF TypeOK, QueueInv, EnqueuersCarryItems, DequeueTake
<1> QED
  BY <1>2, <1>3, <1>4, <1>5, <1>6 DEF QueueInv

\* QueueClear leaves no slot occupied.
LEMMA ClearKeepsInv ==
  ASSUME TypeOK, QueueInv, NEW freeItems \in BOOLEAN, QueueClear(freeItems)
  PROVE  QueueInv'
<1> USE DEF threadVars
<1>1. 0 \in Slots /\ head' = 0 /\ tail' = 0 /\ QueueConditionUpdate(0, 0)
  BY QueueAssumption DEF Slots, QueueClear
<1>2. FlagsMatchIndices'
  BY <1>1, ConditionUpdateFlags DEF FlagsMatchIndices
<1>3. OccupiedSlotsHoldItems'
  <2> SUFFICES ASSUME NEW s \in Slots PROVE ~(Used(s, 0) < Used(0, 0))
    BY <1>1 DEF OccupiedSlotsHoldItems
  <2> QED
    BY <1>1, UsedValue, QueueAssumption DEF Slots
<1>4. SleepersAreWaiting'
  <2>1. cNotFull' \subseteq cNotFull /\ cNotEmpty' \subseteq cNotEmpty
    BY <1>1, ConditionUpdateType
  <2> QED
    BY <2>1 DEF QueueInv, SleepersAreWaiting, QueueClear
<1>5. MutexOwner' /\ EnqueuersCarryItems'
  BY DEF QueueInv, MutexOwner, EnqueuersCarryItems, QueueClear
<1> QED
  BY <1>2, <1>3, <1>4, <1>5 DEF QueueInv

\* Every step of every caller keeps the invariant.
LEMMA InvStep == TypeOK /\ QueueInv /\ [Next]_vars => QueueInv'
<1> SUFFICES ASSUME TypeOK, QueueInv, [Next]_vars PROVE QueueInv'
  OBVIOUS
<1> DEFINE Others == MutexOwner' /\ SleepersAreWaiting' /\ EnqueuersCarryItems'
<1>0. ASSUME UNCHANGED queueVars, Others PROVE QueueInv'
  BY <1>0, QueueUntouched DEF QueueInv
<1> USE QueueAssumption
    DEF threadVars, Goto, Lock, Unlock, Holding, TypeOK, MutexOwner,
        SleepersAreWaiting, EnqueuersCarryItems
<1>1. ASSUME NEW t \in Threads, NEW i \in Items, EnqueueCall(t, i) PROVE QueueInv'
  <2>1. Others
    BY <1>1 DEF EnqueueCall, QueueInv
  <2> QED
    BY <1>0, <1>1, <2>1 DEF EnqueueCall
<1>2. ASSUME NEW t \in Threads, NEW m \in Modes, DequeueCall(t, m) PROVE QueueInv'
  <2>1. Others
    BY <1>2 DEF DequeueCall, QueueInv
  <2> QED
    BY <1>0, <1>2, <2>1 DEF DequeueCall
<1>3. ASSUME NEW t \in Threads, EnqueueStep(t) PROVE QueueInv'
  <2>1. CASE EnqueueFull(t) \/ EnqueueSleep(t) \/ EnqueueWake(t)
    <3>1. Others
      BY <2>1 DEF EnqueueFull, EnqueueSleep, EnqueueWake, QueueInv
    <3> QED
      BY <1>0, <2>1, <3>1 DEF EnqueueFull, EnqueueSleep, EnqueueWake
  <2> QED
    BY <1>3, <2>1, StoreKeepsInv DEF EnqueueStep
<1>4. ASSUME NEW t \in Threads, DequeueStep(t) PROVE QueueInv'
  <2>1. CASE DequeueEmpty(t) \/ DequeueSleep(t) \/ DequeueInvalid(t)
    <3>1. Others
      BY <2>1 DEF DequeueEmpty, DequeueSleep, DequeueInvalid, QueueInv
    <3> QED
      BY <1>0, <2>1, <3>1 DEF DequeueEmpty, DequeueSleep, DequeueInvalid
  <2>2. CASE DequeueTimeout(t) \/ DequeueWake(t) \/ DequeueAbort(t) \/ DequeueNothing(t)
    <3>1. Others
      BY <2>2 DEF DequeueTimeout, DequeueWake, DequeueAbort, DequeueNothing, QueueInv
    <3> QED
      BY <1>0, <2>2, <3>1 DEF DequeueTimeout, DequeueWake, DequeueAbort, DequeueNothing
  <2> QED
    BY <1>4, <2>1, <2>2, TakeKeepsInv DEF DequeueStep
<1>5. ASSUME NEW t \in Threads, SpuriousWake(t) PROVE QueueInv'
  <2>1. Others
    BY <1>5 DEF SpuriousWake, QueueInv
  <2> QED
    BY <1>0, <1>5, <2>1 DEF SpuriousWake
<1>6. ASSUME NEW freeItems \in Clears, QueueClear(freeItems) PROVE QueueInv'
  BY <1>6, ClearKeepsInv
<1>7. CASE SetGlobalAbort \/ QueueKillAll
  <2>1. Others
    BY <1>7 DEF SetGlobalAbort, QueueKillAll, QueueInv
  <2> QED
    BY <1>0, <1>7, <2>1 DEF SetGlobalAbort, QueueKillAll
<1>8. CASE UNCHANGED vars
  <2>1. Others
    BY <1>8 DEF vars, QueueInv
  <2> QED
    BY <1>0, <1>8, <2>1 DEF vars
<1> QED
  BY <1>1, <1>2, <1>3, <1>4, <1>5, <1>6, <1>7, <1>8 DEF Next

\* The flags of the queue always say what its indices say, its occupied slots
\* hold items, and the mutex and wait sets match where the callers are.
THEOREM QueueInvariant == Spec => []QueueInv
<1>1. Init => QueueInv
  <2> SUFFICES ASSUME Init PROVE QueueInv
    OBVIOUS
  <2>0. 0 \in Slots
    BY QueueAssumption DEF Slots
  <2>1. FlagsMatchIndices
    BY <2>0, FullIsNotEmpty DEF Init, FlagsMatchIndices
  <2>2. OccupiedSlotsHoldItems
    BY UsedValue, QueueAssumption DEF Init, OccupiedSlotsHoldItems, Slots
  <2>3. MutexOwner /\ SleepersAreWaiting /\ EnqueuersCarryItems
    BY QueueAssumption DEF Init, MutexOwner, SleepersAreWaiting, EnqueuersCarryItems, Holding
  <2> QED
    BY <2>1, <2>2, <2>3 DEF QueueInv
<1> QED
  BY <1>1, TypeCorrect, InvStep, PTL DEF Spec

\* QueueDequeueItem hands out a real item, never the null pointer that main.c
\* would dereference in getNextFrame.
THEOREM DequeuedItemsAreReal == Spec => []DequeuedItemIsReal
<1>1. TypeOK /\ QueueInv => DequeuedItemIsReal
  <2> SUFFICES ASSUME TypeOK, QueueInv, ~empty PROVE itemTable[tail] # NULL
    BY DEF DequeuedItemIsReal
  <2>1. head \in Slots /\ tail \in Slots /\ head # tail
    BY DEF TypeOK, QueueInv, FlagsMatchIndices
  <2>2. Used(tail, tail) < Used(head, tail)
    BY <2>1, UsedValue, QueueAssumption DEF Slots
  <2> QED
    BY <2>1, <2>2 DEF QueueInv, OccupiedSlotsHoldItems
<1> QED
  BY <1>1, TypeCorrect, QueueInvariant, PTL
-----------------------------------------------------------------------------
(***************************************************************************)
(* Lost wakeups.  With one writer and one reader one signal per change of   *)
(* a flag is enough.  ChildMsgQ has one writer at a time: the video thread *)
(* until it has queued the end marker, then main, which puts it back.      *)
(***************************************************************************)

\* Whoever has decided to wait, or sleeps, has the flag it waits on set.
WaitsOnItsFlag ==
  /\ \A t \in Threads : pc[t] = "enqPark" => full
  /\ \A t \in Threads : pc[t] = "deqPark" => empty
  /\ cNotFull # {} => full
  /\ cNotEmpty # {} => empty

\* Threads that sleep on a condition variable, or are about to, are callers of
\* the operation that waits on it.
RightCallers ==
  \A t \in Threads :
    /\ pc[t] \in {"enqTest", "enqPark", "enqWait"} => t \in Enqueuers
    /\ pc[t] \in {"deqTest", "deqPark", "deqWait", "deqAbort"} => t \in Dequeuers

OneWriterOneReader ==
  /\ \A s, t \in Enqueuers : s = t
  /\ \A s, t \in Dequeuers : s = t

\* Callers stay inside the operation they called.
LEMMA CallersStep == TypeOK /\ RightCallers /\ [Next]_vars => RightCallers'
<1> SUFFICES ASSUME TypeOK, RightCallers, [Next]_vars PROVE RightCallers'
  OBVIOUS
<1> USE DEF TypeOK, RightCallers, Goto
<1>1. ASSUME NEW t \in Threads, NEW i \in Items, EnqueueCall(t, i) PROVE RightCallers'
  BY <1>1 DEF EnqueueCall
<1>2. ASSUME NEW t \in Threads, NEW m \in Modes, DequeueCall(t, m) PROVE RightCallers'
  BY <1>2 DEF DequeueCall
<1>3. ASSUME NEW t \in Threads, EnqueueStep(t) PROVE RightCallers'
  BY <1>3 DEF EnqueueStep, EnqueueFull, EnqueueSleep, EnqueueWake, EnqueueStore
<1>4. ASSUME NEW t \in Threads, DequeueStep(t) PROVE RightCallers'
  <2>1. CASE DequeueEmpty(t) \/ DequeueSleep(t) \/ DequeueInvalid(t) \/ DequeueTake(t)
    BY <2>1 DEF DequeueEmpty, DequeueSleep, DequeueInvalid, DequeueTake
  <2>2. CASE DequeueTimeout(t) \/ DequeueWake(t) \/ DequeueAbort(t) \/ DequeueNothing(t)
    BY <2>2 DEF DequeueTimeout, DequeueWake, DequeueAbort, DequeueNothing
  <2> QED
    BY <1>4, <2>1, <2>2 DEF DequeueStep
<1>5. CASE \/ \E t \in Threads : SpuriousWake(t)
           \/ \E freeItems \in Clears : QueueClear(freeItems)
           \/ SetGlobalAbort \/ QueueKillAll \/ UNCHANGED vars
  BY <1>5 DEF SpuriousWake, QueueClear, SetGlobalAbort, QueueKillAll, vars
<1> QED
  BY <1>1, <1>2, <1>3, <1>4, <1>5 DEF Next

\* A change of the indices by a thread that is in no wait, or by QueueClear,
\* keeps every sleeper's flag set: the one sleeper there can be is signalled.
LEMMA ConditionUpdateWakes ==
  ASSUME OneWriterOneReader, TypeOK, QueueInv, RightCallers, WaitsOnItsFlag,
         NEW h \in Slots, NEW t \in Slots, QueueConditionUpdate(h, t)
  PROVE  /\ cNotFull' # {} => full'
         /\ cNotEmpty' # {} => empty'
<1>1. \A a, b \in cNotFull : a = b
  BY DEF OneWriterOneReader, TypeOK, QueueInv, SleepersAreWaiting, RightCallers
<1>2. \A a, b \in cNotEmpty : a = b
  BY DEF OneWriterOneReader, TypeOK, QueueInv, SleepersAreWaiting, RightCallers
<1>3. cNotFull' # {} => full'
  BY <1>1 DEF QueueConditionUpdate, Signal, WaitsOnItsFlag, TypeOK
<1>4. cNotEmpty' # {} => empty'
  BY <1>2 DEF QueueConditionUpdate, Signal, WaitsOnItsFlag, TypeOK
<1> QED
  BY <1>3, <1>4

\* Every step keeps WaitsOnItsFlag.
LEMMA WaitsStep ==
  ASSUME OneWriterOneReader
  PROVE  TypeOK /\ QueueInv /\ RightCallers /\ WaitsOnItsFlag /\ [Next]_vars
           => WaitsOnItsFlag'
<1> SUFFICES ASSUME TypeOK, QueueInv, RightCallers, WaitsOnItsFlag, [Next]_vars
             PROVE  WaitsOnItsFlag'
  OBVIOUS
<1> USE QueueAssumption DEF TypeOK, WaitsOnItsFlag, Goto, queueVars
<1>1. ASSUME NEW t \in Threads, NEW i \in Items, EnqueueCall(t, i) PROVE WaitsOnItsFlag'
  BY <1>1 DEF EnqueueCall
<1>2. ASSUME NEW t \in Threads, NEW m \in Modes, DequeueCall(t, m) PROVE WaitsOnItsFlag'
  BY <1>2 DEF DequeueCall
<1>3. ASSUME NEW t \in Threads, EnqueueStep(t) PROVE WaitsOnItsFlag'
  <2>1. CASE EnqueueFull(t) \/ EnqueueSleep(t) \/ EnqueueWake(t)
    BY <2>1 DEF EnqueueFull, EnqueueSleep, EnqueueWake
  <2>2. CASE EnqueueStore(t)
    <3>1. head' \in Slots /\ QueueConditionUpdate(head', tail)
      BY <2>2, WrapSuccessor DEF EnqueueStore
    <3>2. (cNotFull' # {} => full') /\ (cNotEmpty' # {} => empty')
      BY <3>1, ConditionUpdateWakes
    <3>3. \A u \in Threads : pc'[u] \notin {"enqPark", "deqPark"}
      BY <2>2 DEF EnqueueStore, QueueInv, MutexOwner, Holding
    <3> QED
      BY <3>2, <3>3
  <2> QED
    BY <1>3, <2>1, <2>2 DEF EnqueueStep
<1>4. ASSUME NEW t \in Threads, DequeueStep(t) PROVE WaitsOnItsFlag'
  <2>1. CASE DequeueEmpty(t) \/ DequeueSleep(t) \/ DequeueInvalid(t)
    BY <2>1 DEF DequeueEmpty, DequeueSleep, DequeueInvalid
  <2>2. CASE DequeueTimeout(t) \/ DequeueWake(t) \/ DequeueAbort(t) \/ DequeueNothing(t)
    BY <2>2 DEF DequeueTimeout, DequeueWake, DequeueAbort, DequeueNothing
  <2>3. CASE DequeueTake(t)
    <3>1. tail' \in Slots /\ QueueConditionUpdate(head, tail')
      BY <2>3, WrapSuccessor DEF DequeueTake
    <3>2. (cNotFull' # {} => full') /\ (cNotEmpty' # {} => empty')
      BY <3>1, ConditionUpdateWakes
    <3>3. \A u \in Threads : pc'[u] \notin {"enqPark", "deqPark"}
      BY <2>3 DEF DequeueTake, QueueInv, MutexOwner, Holding
    <3> QED
      BY <3>2, <3>3
  <2> QED
    BY <1>4, <2>1, <2>2, <2>3 DEF DequeueStep
<1>5. ASSUME NEW freeItems \in Clears, QueueClear(freeItems) PROVE WaitsOnItsFlag'
  <2>1. 0 \in Slots /\ QueueConditionUpdate(0, 0)
    BY <1>5 DEF QueueClear, Slots
  <2>2. (cNotFull' # {} => full') /\ (cNotEmpty' # {} => empty')
    BY <2>1, ConditionUpdateWakes
  <2>3. \A u \in Threads : pc'[u] \notin {"enqPark", "deqPark"}
    BY <1>5 DEF QueueClear, QueueInv, MutexOwner, Holding
  <2> QED
    BY <2>2, <2>3
<1>6. CASE (\E t \in Threads : SpuriousWake(t)) \/ SetGlobalAbort \/ QueueKillAll \/ UNCHANGED vars
  BY <1>6 DEF SpuriousWake, SetGlobalAbort, QueueKillAll, vars
<1> QED
  BY <1>1, <1>2, <1>3, <1>4, <1>5, <1>6 DEF Next

\* With one writer and one reader no wakeup is lost, whatever the size of the
\* queue, the timeouts, the clears and the spurious wakeups.
THEOREM NoLostWakeup ==
  ASSUME OneWriterOneReader
  PROVE  Spec => []NobodyStranded
<1>1. Init => RightCallers /\ WaitsOnItsFlag
  BY DEF Init, RightCallers, WaitsOnItsFlag
<1>2. Spec => [](RightCallers /\ WaitsOnItsFlag)
  BY <1>1, TypeCorrect, QueueInvariant, CallersStep, WaitsStep, PTL DEF Spec
<1>3. WaitsOnItsFlag => NobodyStranded
  BY DEF WaitsOnItsFlag, NobodyStranded
<1> QED
  BY <1>2, <1>3, PTL
-----------------------------------------------------------------------------
(***************************************************************************)
(* The queue implements the bounded sequence.                              *)
(***************************************************************************)

\* The i-th queued item is i - 1 slots past tail, wrapped at the table's end.
LEMMA QueuedSlot ==
  ASSUME NEW t \in Slots, NEW i \in 1 .. numElements
  PROVE  /\ Wrap(t + i - 1) \in Slots
         /\ Wrap(t + i - 1) = IF t + i - 1 < numElements
                                THEN t + i - 1 ELSE t + i - 1 - numElements
<1>1. CASE t + i - 1 < numElements
  BY <1>1, QueueAssumption DEF Slots, Wrap
<1>2. CASE t + i - 1 >= numElements
  <2> DEFINE d == t + i - 1 - numElements
  <2>1. d \in 0 .. numElements - 1
    BY <1>2, QueueAssumption DEF Slots
  <2>2. (d + numElements) % numElements = d
    BY <2>1, QueueAssumption
  <2>3. d + numElements = t + i - 1
    BY QueueAssumption DEF Slots
  <2>4. Wrap(t + i - 1) = d
    BY <2>2, <2>3 DEF Wrap
  <2>5. ~(t + i - 1 < numElements)
    BY <1>2, QueueAssumption DEF Slots
  <2> QED
    BY <2>1, <2>4, <2>5 DEF Slots
<1> QED
  BY <1>1, <1>2, QueueAssumption DEF Slots

\* A queue never counts more than numElements - 1 items.
LEMMA UsedBounds ==
  ASSUME NEW h \in Slots, NEW t \in Slots
  PROVE  /\ Used(h, t) \in 0 .. numElements - 1
         /\ Used(h, t) = 0 <=> h = t
BY UsedValue, QueueAssumption DEF Slots

\* What the queue holds is a sequence as long as QueueUsed says.
LEMMA ContentsType ==
  ASSUME TypeOK
  PROVE  /\ Contents \in Seq(Items \cup {NULL})
         /\ Len(Contents) = Used(head, tail)
<1>1. Used(head, tail) \in 0 .. numElements - 1
  BY UsedBounds DEF TypeOK
<1>2. \A i \in 1 .. Used(head, tail) : itemTable[Wrap(tail + i - 1)] \in Items \cup {NULL}
  BY <1>1, QueuedSlot, QueueAssumption DEF TypeOK
<1> QED
  BY <1>1, <1>2, QueueAssumption DEF Contents

\* QueueEnqueueItem appends its item, and only when there is room for it.
LEMMA StoreIsPut ==
  ASSUME TypeOK, QueueInv, NEW t \in Threads, EnqueueStore(t)
  PROVE  BQ!Put(item[t]) /\ item[t] \in Items
<1>1. /\ head \in Slots /\ tail \in Slots /\ tail' = tail
      /\ head' = Wrap(head + 1) /\ head' \in Slots /\ head' # tail
      /\ itemTable' = [itemTable EXCEPT ![head] = item[t]]
  BY WrapSuccessor DEF TypeOK, QueueInv, FlagsMatchIndices, EnqueueStore
<1> DEFINE n == Used(head, tail)
<1>2. n \in 0 .. numElements - 1 /\ n = IF head >= tail THEN head - tail ELSE head + numElements - tail
  BY <1>1, UsedBounds, UsedValue
<1>3. Used(head', tail) = IF head' >= tail THEN head' - tail ELSE head' + numElements - tail
  BY <1>1, UsedValue
<1>4. head' = IF head + 1 = numElements THEN 0 ELSE head + 1
  BY <1>1, WrapSuccessor
<1>5. Used(head', tail) = n + 1 /\ n < numElements - 1
  <2> HIDE DEF n
  <2> QED
    BY <1>1, <1>2, <1>3, <1>4, QueueAssumption DEF Slots
<1>6. item[t] \in Items
  BY DEF TypeOK, QueueInv, EnqueuersCarryItems, EnqueueStore
<1>7. ASSUME NEW i \in 1 .. n
      PROVE  Wrap(tail + i - 1) \in Slots /\ Wrap(tail + i - 1) # head
  <2>1. i \in 1 .. numElements
    BY <1>2, QueueAssumption
  <2> HIDE DEF n
  <2> QED
    BY <1>1, <1>2, <1>7, <2>1, QueuedSlot, QueueAssumption DEF Slots
<1>8. Wrap(tail + (n + 1) - 1) = head
  <2>1. n + 1 \in 1 .. numElements
    BY <1>2, QueueAssumption
  <2> HIDE DEF n
  <2> QED
    BY <1>1, <1>2, <2>1, QueuedSlot, QueueAssumption DEF Slots
<1>9. \A i \in 1 .. n + 1 : itemTable'[Wrap(tail + i - 1)] =
         IF i = n + 1 THEN item[t] ELSE itemTable[Wrap(tail + i - 1)]
  <2>1. ASSUME NEW i \in 1 .. n
        PROVE  itemTable'[Wrap(tail + i - 1)] = itemTable[Wrap(tail + i - 1)] /\ i # n + 1
    <3> HIDE DEF n
    <3> QED
      BY <1>1, <1>2, <1>7, <2>1 DEF TypeOK
  <2>2. itemTable'[Wrap(tail + (n + 1) - 1)] = item[t]
    BY <1>1, <1>8 DEF TypeOK
  <2> HIDE DEF n
  <2> QED
    BY <1>2, <2>1, <2>2, QueueAssumption
<1>10. Contents' = [i \in 1 .. n + 1 |-> itemTable'[Wrap(tail + i - 1)]]
  BY <1>1, <1>5 DEF Contents
<1>11. Contents = [i \in 1 .. n |-> itemTable[Wrap(tail + i - 1)]]
  BY DEF Contents
<1>12. Contents \in Seq(Items \cup {NULL}) /\ Len(Contents) = n
  BY ContentsType
<1>13. Contents' = Append(Contents, item[t])
  <2> HIDE DEF n
  <2> QED
    BY <1>2, <1>6, <1>9, <1>10, <1>11, <1>12
<1> QED
  BY <1>5, <1>6, <1>12, <1>13 DEF BQ!Put

\* QueueDequeueItem removes the oldest item and leaves the others in order.
LEMMA TakeIsTake ==
  ASSUME TypeOK, QueueInv, NEW t \in Threads, DequeueTake(t)
  PROVE  BQ!Take
<1>1. /\ head \in Slots /\ tail \in Slots /\ head' = head /\ head # tail
      /\ tail' = Wrap(tail + 1) /\ tail' \in Slots
      /\ itemTable' = [itemTable EXCEPT ![tail] = NULL]
  BY WrapSuccessor DEF TypeOK, QueueInv, FlagsMatchIndices, DequeueTake
<1> DEFINE n == Used(head, tail)
<1>2. n \in 1 .. numElements - 1 /\ n = IF head >= tail THEN head - tail ELSE head + numElements - tail
  BY <1>1, UsedBounds, UsedValue, QueueAssumption
<1>3. Used(head, tail') = IF head >= tail' THEN head - tail' ELSE head + numElements - tail'
  BY <1>1, UsedValue
<1>4. tail' = IF tail + 1 = numElements THEN 0 ELSE tail + 1
  BY <1>1, WrapSuccessor
<1>5. Used(head, tail') = n - 1
  <2> HIDE DEF n
  <2> QED
    BY <1>1, <1>2, <1>3, <1>4, QueueAssumption DEF Slots
<1>6. ASSUME NEW i \in 1 .. n - 1
      PROVE  itemTable'[Wrap(tail' + i - 1)] = itemTable[Wrap(tail + (i + 1) - 1)]
  <2>1. i \in 1 .. numElements /\ i + 1 \in 1 .. numElements
    BY <1>2, QueueAssumption
  <2>2. /\ Wrap(tail' + i - 1) = Wrap(tail + (i + 1) - 1)
        /\ Wrap(tail' + i - 1) \in Slots
        /\ Wrap(tail' + i - 1) # tail
    <3> HIDE DEF n
    <3>1. /\ Wrap(tail' + i - 1) \in Slots
          /\ Wrap(tail' + i - 1) = IF tail' + i - 1 < numElements
                                    THEN tail' + i - 1 ELSE tail' + i - 1 - numElements
      BY <1>1, <2>1, QueuedSlot
    <3>2. Wrap(tail + (i + 1) - 1) = IF tail + (i + 1) - 1 < numElements
             THEN tail + (i + 1) - 1 ELSE tail + (i + 1) - 1 - numElements
      BY <1>1, <2>1, QueuedSlot
    <3> QED
      BY <1>1, <1>2, <1>4, <1>6, <3>1, <3>2, QueueAssumption DEF Slots
  <2> QED
    BY <1>1, <2>2 DEF TypeOK
<1>7. Contents' = [i \in 1 .. n - 1 |-> itemTable'[Wrap(tail' + i - 1)]]
  BY <1>1, <1>5 DEF Contents
<1>8. Contents = [i \in 1 .. n |-> itemTable[Wrap(tail + i - 1)]]
  BY DEF Contents
<1>9. Contents \in Seq(Items \cup {NULL}) /\ Len(Contents) = n
  BY ContentsType
<1>10. Contents' = Tail(Contents) /\ Contents # <<>>
  <2> HIDE DEF n
  <2> QED
    BY <1>2, <1>6, <1>7, <1>8, <1>9, QueueAssumption
<1> QED
  BY <1>10 DEF BQ!Take

\* QueueClear empties the sequence, whether or not it frees the items.
LEMMA ClearIsEmpty ==
  ASSUME NEW freeItems \in Clears, QueueClear(freeItems)
  PROVE  BQ!Empty
<1>1. head' = 0 /\ tail' = 0 /\ Used(0, 0) = 0
  BY UsedValue, QueueAssumption DEF QueueClear, Slots
<1>2. Contents' = [i \in 1 .. 0 |-> itemTable'[Wrap(0 + i - 1)]]
  BY <1>1 DEF Contents
<1> QED
  BY <1>2 DEF BQ!Empty

\* The steps that neither store, take nor clear leave the fields alone.
LEMMA OtherStepsKeepQueue ==
  ASSUME Next,
         ~\E t \in Threads : EnqueueStore(t) \/ DequeueTake(t),
         ~\E freeItems \in Clears : QueueClear(freeItems)
  PROVE  UNCHANGED queueVars
BY DEF Next, EnqueueCall, DequeueCall, EnqueueStep, EnqueueFull, EnqueueSleep, EnqueueWake,
       DequeueStep, DequeueEmpty, DequeueSleep, DequeueInvalid, DequeueTimeout, DequeueWake,
       DequeueAbort, DequeueNothing, SpuriousWake, SetGlobalAbort, QueueKillAll

\* Every behaviour of queue.c is one of a bounded first-in first-out sequence
\* of numElements - 1 items: no interleaving of the callers loses, duplicates,
\* invents or reorders an item, for every size of the table.
THEOREM Refinement == Spec => ImplementsBoundedQueue
<1>1. Init => BQ!Init
  <2> SUFFICES ASSUME Init PROVE Contents = <<>>
    BY DEF BQ!Init
  <2>1. Used(0, 0) = 0
    BY UsedValue, QueueAssumption DEF Slots
  <2> QED
    BY <2>1 DEF Init, Contents
<1>2. TypeOK /\ QueueInv /\ [Next]_vars => [BQ!Next]_Contents
  <2> SUFFICES ASSUME TypeOK, QueueInv, [Next]_vars PROVE [BQ!Next]_Contents
    OBVIOUS
  <2>1. ASSUME NEW t \in Threads, EnqueueStore(t) PROVE BQ!Next
    BY <2>1, StoreIsPut DEF BQ!Next
  <2>2. ASSUME NEW t \in Threads, DequeueTake(t) PROVE BQ!Next
    BY <2>2, TakeIsTake DEF BQ!Next
  <2>3. ASSUME NEW freeItems \in Clears, QueueClear(freeItems) PROVE BQ!Next
    BY <2>3, ClearIsEmpty DEF BQ!Next
  <2>4. CASE UNCHANGED queueVars
    BY <2>4 DEF queueVars, Contents
  <2>5. CASE UNCHANGED vars
    BY <2>5 DEF vars, queueVars, Contents
  <2> QED
    BY <2>1, <2>2, <2>3, <2>4, <2>5, OtherStepsKeepQueue
<1> QED
  BY <1>1, <1>2, TypeCorrect, QueueInvariant, PTL DEF Spec, BQ!Spec, ImplementsBoundedQueue
=============================================================================
