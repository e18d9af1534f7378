------------------------------- MODULE Queue -------------------------------
(***************************************************************************)
(* The blocking circular queue of src/queue.c: one QueueObject_t shared by *)
(* the threads of a process, its mutex, its two condition variables and    *)
(* the GlobalAbort flag.                                                   *)
(*                                                                         *)
(* A step runs from one point where another thread can interfere to the    *)
(* next.  The fields of the queue change only under the mutex; but         *)
(* QueueKillAll broadcasts, and GlobalAbort is set, without it, so a       *)
(* thread that has tested its condition and not yet gone to sleep is a     *)
(* state of its own ("enqPark", "deqPark").                                *)
(***************************************************************************)
EXTENDS Integers, Sequences, FiniteSets

CONSTANTS
  Enqueuers,      \* threads that call QueueEnqueueItem
  Dequeuers,      \* threads that call QueueDequeueItem (may overlap)
  Items,          \* the pointers callers enqueue
  NULL,           \* the null pointer; also "no thread" as holder of the mutex
  numElements,    \* size of itemTable, after QueueCreate has rounded it
  Modes,          \* kinds of ms_timeout passed to QueueDequeueItem
  Clears,         \* values of freeItems passed to QueueClear; {} = never called
  Aborts          \* TRUE if the process may set GlobalAbort and call QueueKillAll

Threads == Enqueuers \cup Dequeuers

(***************************************************************************)
(* "block": ms_timeout < 0.  "timed": ms_timeout >= 0.  "carry": as        *)
(* "timed", with a tv_nsec of a second or more, because the microseconds   *)
(* of the clock and the milliseconds of the timeout are added without a    *)
(* carry into tv_sec; pthread_cond_timedwait rejects it with EINVAL.       *)
(***************************************************************************)
AllModes == {"block", "timed", "carry"}

\* Every queue of the program has at least two slots: LoggingQ has 1024,
\* ChildMsgQ 2 * numChildren rounded up, and one slot always stays free.
ASSUME QueueAssumption ==
  /\ numElements \in Nat /\ numElements >= 2
  /\ NULL \notin Items
  /\ NULL \notin Threads
  /\ Modes \subseteq AllModes
  /\ Clears \subseteq BOOLEAN
  /\ Aborts \in BOOLEAN

VARIABLES
  head, tail, itemTable, full, empty,   \* QueueObject_t
  mutex,          \* the thread that holds queue->mutex, or NULL
  cNotFull,       \* threads asleep on queue->cNotFull
  cNotEmpty,      \* threads asleep on queue->cNotEmpty
  GlobalAbort,
  killed,         \* QueueKillAll has run; it leaves QueueList locked
  pc, item, mode, status    \* per thread: place, argument, timeout, wait result

queueVars  == <<head, tail, itemTable, full, empty>>
abortVars  == <<GlobalAbort, killed>>
threadVars == <<item, mode, status>>
vars == <<queueVars, mutex, cNotFull, cNotEmpty, abortVars, pc, threadVars>>

Slots == 0 .. numElements - 1

\* Mutant: numMask is numElements instead of numElements - 1.
WrapByNumElements(x) == x % (numElements + 1)

\* x & numMask, for a table whose size is a power of two.
Wrap(x) == x % numElements

\* QueueUsed.
Used(h, t) == Wrap(h + numElements - t)

Places == {"idle", "enqTest", "enqPark", "enqWait",
           "deqTest", "deqPark", "deqWait", "deqAbort"}

\* The places of a thread that owns the mutex.
Holding == {"enqTest", "enqPark", "deqTest", "deqPark", "deqAbort"}

TypeOK ==
  /\ head \in Slots /\ tail \in Slots
  /\ itemTable \in [Slots -> Items \cup {NULL}]
  /\ full \in BOOLEAN /\ empty \in BOOLEAN
  /\ mutex \in Threads \cup {NULL}
  /\ cNotFull \subseteq Threads /\ cNotEmpty \subseteq Threads
  /\ GlobalAbort \in BOOLEAN /\ killed \in BOOLEAN
  /\ pc \in [Threads -> Places]
  /\ item \in [Threads -> Items \cup {NULL}]
  /\ mode \in [Threads -> AllModes]
  /\ status \in [Threads -> {"0", "ETIMEDOUT", "EINVAL"}]

\* QueueCreate.
Init ==
  /\ head = 0 /\ tail = 0
  /\ itemTable = [s \in Slots |-> NULL]
  /\ full = FALSE /\ empty = TRUE
  /\ mutex = NULL /\ cNotFull = {} /\ cNotEmpty = {}
  /\ GlobalAbort = FALSE /\ killed = FALSE
  /\ pc = [t \in Threads |-> "idle"]
  /\ item = [t \in Threads |-> NULL]
  /\ mode = [t \in Threads |-> "block"]
  /\ status = [t \in Threads |-> "0"]
-----------------------------------------------------------------------------
\* pthread_cond_signal: one sleeper, if there is one, stops sleeping.
Signal(sleepers, left) ==
  \/ sleepers = {} /\ left = {}
  \/ \E t \in sleepers : left = sleepers \ {t}

\* Mutant: oldFull is read after full has been recomputed, so nobody signals.
ConditionUpdateWithoutNotFull(h, t) ==
  /\ empty' = (h = t)
  /\ full' = (h # t /\ Wrap(h + 1) = t)
  /\ UNCHANGED cNotFull
  /\ IF empty /\ ~empty' THEN Signal(cNotEmpty, cNotEmpty') ELSE UNCHANGED cNotEmpty

\* Mutant: head and tail are compared before the table is checked for fullness.
ConditionUpdateNeverFull(h, t) ==
  /\ empty' = (h = t)
  /\ full' = FALSE
  /\ UNCHANGED cNotFull
  /\ IF empty /\ ~empty' THEN Signal(cNotEmpty, cNotEmpty') ELSE UNCHANGED cNotEmpty

(***************************************************************************)
(* QueueConditionUpdate, for the head and tail the caller has just stored. *)
(* A condition variable is signalled only when its flag changes.           *)
(***************************************************************************)
QueueConditionUpdate(h, t) ==
  /\ empty' = (h = t)
  /\ full' = (h # t /\ Wrap(h + 1) = t)
  /\ IF full /\ ~full' THEN Signal(cNotFull, cNotFull') ELSE UNCHANGED cNotFull
  /\ IF empty /\ ~empty' THEN Signal(cNotEmpty, cNotEmpty') ELSE UNCHANGED cNotEmpty

Goto(t, place) == pc' = [pc EXCEPT ![t] = place]

Lock(t) == mutex = NULL /\ mutex' = t

Unlock == mutex' = NULL
-----------------------------------------------------------------------------
\* QueueEnqueueItem, up to its loop.  A null item is refused before the lock.
EnqueueCall(t, i) ==
  /\ t \in Enqueuers /\ pc[t] = "idle"
  /\ Lock(t)
  /\ Goto(t, "enqTest")
  /\ item' = [item EXCEPT ![t] = i]
  /\ UNCHANGED <<queueVars, cNotFull, cNotEmpty, abortVars, mode, status>>

EnqueueFull(t) ==
  /\ pc[t] = "enqTest" /\ full
  /\ Goto(t, "enqPark")
  /\ UNCHANGED <<queueVars, mutex, cNotFull, cNotEmpty, abortVars, threadVars>>

\* pthread_cond_wait releases the mutex and goes to sleep in one step.
EnqueueSleep(t) ==
  /\ pc[t] = "enqPark"
  /\ Unlock
  /\ cNotFull' = cNotFull \cup {t}
  /\ Goto(t, "enqWait")
  /\ UNCHANGED <<queueVars, cNotEmpty, abortVars, threadVars>>

EnqueueWake(t) ==
  /\ pc[t] = "enqWait" /\ t \notin cNotFull
  /\ Lock(t)
  /\ Goto(t, "enqTest")
  /\ UNCHANGED <<queueVars, cNotFull, cNotEmpty, abortVars, threadVars>>

\* Mutant: head is advanced before the item is stored.
StoreAfterAdvance(t) ==
  /\ pc[t] = "enqTest" /\ ~full
  /\ itemTable' = [itemTable EXCEPT ![Wrap(head + 1)] = item[t]]
  /\ head' = Wrap(head + 1)
  /\ QueueConditionUpdate(head', tail)
  /\ Unlock
  /\ Goto(t, "idle")
  /\ UNCHANGED <<tail, abortVars, threadVars>>

EnqueueStore(t) ==
  /\ pc[t] = "enqTest" /\ ~full
  /\ itemTable' = [itemTable EXCEPT ![head] = item[t]]
  /\ head' = Wrap(head + 1)
  /\ QueueConditionUpdate(head', tail)
  /\ Unlock
  /\ Goto(t, "idle")
  /\ UNCHANGED <<tail, abortVars, threadVars>>
-----------------------------------------------------------------------------
\* QueueDequeueItem, up to its loop.
DequeueCall(t, m) ==
  /\ t \in Dequeuers /\ pc[t] = "idle"
  /\ Lock(t)
  /\ mode' = [mode EXCEPT ![t] = m]
  /\ status' = [status EXCEPT ![t] = "0"]
  /\ Goto(t, "deqTest")
  /\ UNCHANGED <<queueVars, cNotFull, cNotEmpty, abortVars, item>>

TimedOut(t) == mode[t] # "block" /\ status[t] = "ETIMEDOUT"

DequeueEmpty(t) ==
  /\ pc[t] = "deqTest" /\ empty /\ ~TimedOut(t)
  /\ Goto(t, "deqPark")
  /\ UNCHANGED <<queueVars, mutex, cNotFull, cNotEmpty, abortVars, threadVars>>

DequeueSleep(t) ==
  /\ pc[t] = "deqPark" /\ mode[t] # "carry"
  /\ Unlock
  /\ cNotEmpty' = cNotEmpty \cup {t}
  /\ status' = [status EXCEPT ![t] = "0"]
  /\ Goto(t, "deqWait")
  /\ UNCHANGED <<queueVars, cNotFull, abortVars, item, mode>>

\* An invalid deadline: the wait returns at once and never unlocks the mutex.
DequeueInvalid(t) ==
  /\ pc[t] = "deqPark" /\ mode[t] = "carry"
  /\ status' = [status EXCEPT ![t] = "EINVAL"]
  /\ Goto(t, "deqAbort")
  /\ UNCHANGED <<queueVars, mutex, cNotFull, cNotEmpty, abortVars, item, mode>>

\* Mutant: what the timed wait returned is overwritten before it is tested.
TimeoutForgotten(t) ==
  /\ pc[t] = "deqWait" /\ t \in cNotEmpty /\ mode[t] = "timed"
  /\ cNotEmpty' = cNotEmpty \ {t}
  /\ UNCHANGED <<queueVars, mutex, cNotFull, abortVars, pc, item, mode, status>>

\* The deadline passes while the thread still sleeps.
DequeueTimeout(t) ==
  /\ pc[t] = "deqWait" /\ t \in cNotEmpty /\ mode[t] = "timed"
  /\ cNotEmpty' = cNotEmpty \ {t}
  /\ status' = [status EXCEPT ![t] = "ETIMEDOUT"]
  /\ UNCHANGED <<queueVars, mutex, cNotFull, abortVars, pc, item, mode>>

DequeueWake(t) ==
  /\ pc[t] = "deqWait" /\ t \notin cNotEmpty
  /\ Lock(t)
  /\ Goto(t, "deqAbort")
  /\ UNCHANGED <<queueVars, cNotFull, cNotEmpty, abortVars, threadVars>>

\* Mutant: the test of GlobalAbort is before the loop only.
AbortNotTested(t) ==
  /\ pc[t] = "deqAbort"
  /\ Goto(t, "deqTest")
  /\ UNCHANGED <<queueVars, mutex, cNotFull, cNotEmpty, abortVars, threadVars>>

\* The test of GlobalAbort that follows every wait.
DequeueAbort(t) ==
  /\ pc[t] = "deqAbort"
  /\ \/ GlobalAbort /\ Unlock /\ Goto(t, "idle")
     \/ ~GlobalAbort /\ UNCHANGED mutex /\ Goto(t, "deqTest")
  /\ UNCHANGED <<queueVars, cNotFull, cNotEmpty, abortVars, threadVars>>

\* The caller gets NULL because of the timeout.
DequeueNothing(t) ==
  /\ pc[t] = "deqTest" /\ TimedOut(t)
  /\ Unlock
  /\ Goto(t, "idle")
  /\ UNCHANGED <<queueVars, cNotFull, cNotEmpty, abortVars, threadVars>>

\* Mutant: taking an item refreshes only the empty flag.
TakeWithoutUpdate(t) ==
  /\ pc[t] = "deqTest" /\ ~empty /\ ~TimedOut(t)
  /\ itemTable' = [itemTable EXCEPT ![tail] = NULL]
  /\ tail' = Wrap(tail + 1)
  /\ empty' = (head = tail')
  /\ Unlock
  /\ Goto(t, "idle")
  /\ UNCHANGED <<head, full, cNotFull, cNotEmpty, abortVars, threadVars>>

\* The caller gets itemTable[tail].
DequeueTake(t) ==
  /\ pc[t] = "deqTest" /\ ~empty /\ ~TimedOut(t)
  /\ itemTable' = [itemTable EXCEPT ![tail] = NULL]
  /\ tail' = Wrap(tail + 1)
  /\ QueueConditionUpdate(head, tail')
  /\ Unlock
  /\ Goto(t, "idle")
  /\ UNCHANGED <<head, abortVars, threadVars>>
-----------------------------------------------------------------------------
\* Mutant: head and tail are left where they were.
ClearWithoutReset(freeItems) ==
  /\ mutex = NULL
  /\ itemTable' = IF freeItems THEN [s \in Slots |-> NULL] ELSE itemTable
  /\ QueueConditionUpdate(head, tail)
  /\ UNCHANGED <<head, tail, mutex, abortVars, pc, threadVars>>

\* QueueClear: nothing inside its critical section waits.
QueueClear(freeItems) ==
  /\ mutex = NULL
  /\ itemTable' = IF freeItems THEN [s \in Slots |-> NULL] ELSE itemTable
  /\ head' = 0 /\ tail' = 0
  /\ QueueConditionUpdate(head', tail')
  /\ UNCHANGED <<mutex, abortVars, pc, threadVars>>

SetGlobalAbort ==
  /\ Aborts /\ ~GlobalAbort
  /\ GlobalAbort' = TRUE
  /\ UNCHANGED <<queueVars, mutex, cNotFull, cNotEmpty, killed, pc, threadVars>>

\* QueueKillAll takes the lock of QueueList and returns without releasing it,
\* so a second call would never get past the lock.
QueueKillAll ==
  /\ GlobalAbort /\ ~killed
  /\ killed' = TRUE
  /\ cNotFull' = {} /\ cNotEmpty' = {}
  /\ UNCHANGED <<queueVars, mutex, GlobalAbort, pc, threadVars>>

\* POSIX lets a waiting thread wake without a signal.
SpuriousWake(t) ==
  /\ \/ t \in cNotFull /\ cNotFull' = cNotFull \ {t} /\ UNCHANGED cNotEmpty
     \/ t \in cNotEmpty /\ cNotEmpty' = cNotEmpty \ {t} /\ UNCHANGED cNotFull
  /\ UNCHANGED <<queueVars, mutex, abortVars, pc, threadVars>>

EnqueueStep(t) == \/ EnqueueFull(t) \/ EnqueueSleep(t)
                  \/ EnqueueWake(t) \/ EnqueueStore(t)

DequeueStep(t) == \/ DequeueEmpty(t) \/ DequeueSleep(t) \/ DequeueInvalid(t)
                  \/ DequeueTimeout(t) \/ DequeueWake(t) \/ DequeueAbort(t)
                  \/ DequeueNothing(t) \/ DequeueTake(t)

Next ==
  \/ \E t \in Threads :
       \/ \E i \in Items : EnqueueCall(t, i)
       \/ \E m \in Modes : DequeueCall(t, m)
       \/ EnqueueStep(t) \/ DequeueStep(t) \/ SpuriousWake(t)
  \/ \E freeItems \in Clears : QueueClear(freeItems)
  \/ SetGlobalAbort \/ QueueKillAll

Spec == Init /\ [][Next]_vars

(***************************************************************************)
(* Fairness: the scheduler runs every thread, a thread that asks for the   *)
(* mutex over and over as it becomes free gets it, a deadline passes even  *)
(* if false signals keep ending the wait (it is an absolute time, set once *)
(* before the loop), and the reader comes back for the next item, as       *)
(* LoggingThread does in its loop.                                         *)
(***************************************************************************)
DequeueAgain(t) == \E m \in Modes : DequeueCall(t, m)

FairSpec ==
  /\ Spec
  /\ \A t \in Threads :
       /\ WF_vars(EnqueueStep(t)) /\ SF_vars(EnqueueWake(t))
       /\ WF_vars(DequeueStep(t)) /\ SF_vars(DequeueWake(t))
       /\ SF_vars(DequeueTimeout(t))
       /\ SF_vars(DequeueAgain(t))
-----------------------------------------------------------------------------
\* The flags say what the indices say, so the loops of QueueEnqueueItem and
\* QueueDequeueItem test the real occupation of the table.
FlagsMatchIndices ==
  /\ empty = (head = tail)
  /\ full = (Wrap(head + 1) = tail)

\* The slots from tail up to head hold items.
OccupiedSlotsHoldItems ==
  \A s \in Slots : Used(s, tail) < Used(head, tail) => itemTable[s] # NULL

\* A thread has the mutex exactly at the places between its lock and unlock.
MutexOwner == \A t \in Threads : (mutex = t) = (pc[t] \in Holding)

\* Whoever sleeps on a condition variable is inside its wait.
SleepersAreWaiting ==
  /\ \A t \in cNotFull : pc[t] = "enqWait"
  /\ \A t \in cNotEmpty : pc[t] = "deqWait"

\* A thread inside QueueEnqueueItem has an item to store.
EnqueuersCarryItems ==
  \A t \in Threads : pc[t] \in {"enqTest", "enqPark", "enqWait"} => item[t] # NULL

\* The state of a queue is consistent between any two steps of its callers:
\* the five facts above, which together are inductive.
QueueInv ==
  /\ FlagsMatchIndices
  /\ OccupiedSlotsHoldItems
  /\ MutexOwner
  /\ SleepersAreWaiting
  /\ EnqueuersCarryItems

\* QueueDequeueItem hands out itemTable[tail] without a test, and getNextFrame
\* dereferences it: when the wait loop ends with items present, that slot
\* holds one.
DequeuedItemIsReal ==
  \A t \in Threads : pc[t] = "deqTest" /\ ~empty => itemTable[tail] # NULL

Asleep(t) == t \in cNotFull \cup cNotEmpty

\* No wakeup is lost at rest: when every thread is outside the queue or asleep,
\* a writer sleeps only on a full queue and the reader only on an empty one.
\* QueueConditionUpdate signals one thread, and only when a flag changes.
NobodyStranded ==
  (\A t \in Threads : pc[t] = "idle" \/ Asleep(t))
     => (cNotFull # {} => full) /\ (cNotEmpty # {} => empty)

(***************************************************************************)
(* The queue implements the bounded first-in first-out sequence: nothing   *)
(* is lost, duplicated or reordered by any interleaving of the callers.    *)
(***************************************************************************)
Contents == [i \in 1 .. Used(head, tail) |-> itemTable[Wrap(tail + i - 1)]]

BQ == INSTANCE BoundedQueue WITH contents <- Contents,
                                 Capacity <- numElements - 1,
                                 Clearable <- Clears # {}

\* Every step of the queue is a step of the bounded sequence, or none.
ImplementsBoundedQueue == BQ!Spec

\* A writer that sleeps because the queue is full returns in the end, and so
\* does a reader that sleeps while items are there.
SleepersReturn ==
  \A t \in Threads :
    /\ pc[t] = "enqWait" ~> pc[t] = "idle"
    /\ (pc[t] = "deqWait" /\ ~empty) ~> pc[t] = "idle"

\* "A negative timeout means block indefinitely", and no other does: a call
\* with a timeout comes back with an item or without, however often it is woken
\* for nothing.  It fails for a deadline that overflows a second.
TimeoutReturns ==
  \A t \in Threads : (pc[t] # "idle" /\ mode[t] # "block") ~> pc[t] = "idle"

\* "To allow all listeners to wake up and hear the GlobalAbort": a reader that
\* QueueKillAll has woken leaves the queue, whoever uses it meanwhile.
WokenReadersHearAbort ==
  \A t \in Threads :
    (killed /\ pc[t] = "deqWait" /\ t \notin cNotEmpty) ~> pc[t] = "idle"

-----------------------------------------------------------------------------
(***************************************************************************)
(* What comments of queue.c say and the code does not do.                  *)
(***************************************************************************)

\* "The queue is still empty and we got a timeout, return NULL".
TimeoutMeansEmpty ==
  \A t \in Threads : pc[t] = "deqTest" /\ TimedOut(t) => empty

\* The same comment, of all listeners: a thread inside the queue when
\* QueueKillAll has run leaves it in the end.
AbortIsHeard ==
  \A t \in Threads : (killed /\ pc[t] # "idle") ~> pc[t] = "idle"
=============================================================================
