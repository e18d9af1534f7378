----------------------------- MODULE LinkedList -----------------------------
(***************************************************************************)
(* The doubly linked list of linked_list.c.  Its two operations are        *)
(* operators on the value of a list, which module Logging uses as well;    *)
(* the actions below are calls by several threads.                         *)
(*                                                                         *)
(* LinkedListAdd works under the mutex.  LinkedListRemove looks at         *)
(* item->list before it takes the mutex, unless the caller holds it, and   *)
(* nothing there stops two threads that remove the same item.  The callers *)
(* see to that: QueueDestroy and LogOutputRemove remove what one thread    *)
(* owns.  OneOwner says whether callers do.                                *)
(***************************************************************************)
EXTENDS Integers, Sequences, FiniteSets

CONSTANTS
  Items,       \* the list items
  Threads,     \* threads that call LinkedListRemove with UNLOCKED
  OneOwner,    \* only one thread at a time has a call on an item
  NULL

ASSUME ListAssumption == NULL \notin Items /\ OneOwner \in BOOLEAN

VARIABLES
  list,        \* the list: ends, links of all items, items whose ->list is this one
  removing     \* per thread: the item it has checked and not yet unlinked

vars == <<list, removing>>

Pointers == Items \cup {NULL}

Lists == [head : Pointers, tail : Pointers,
          next : [Items -> Pointers], prev : [Items -> Pointers],
          on : SUBSET Items]

\* LinkedListCreate.
EmptyList == [head |-> NULL, tail |-> NULL,
              next |-> [x \in Items |-> NULL], prev |-> [x \in Items |-> NULL],
              on |-> {}]

\* Mutant: the old first item is not linked back to the new one.
AddWithoutBackLink(l, item, location) ==
  LET before == IF location = "AT_HEAD" THEN NULL ELSE l.tail
      after  == IF location = "AT_HEAD" THEN l.head ELSE NULL
  IN  [head |-> IF before = NULL THEN item ELSE l.head,
       tail |-> IF after = NULL THEN item ELSE l.tail,
       next |-> [x \in Items |-> IF x = item THEN after ELSE IF x = before THEN item ELSE l.next[x]],
       prev |-> [l.prev EXCEPT ![item] = before],
       on   |-> l.on \cup {item}]

\* LinkedListAdd, under the mutex.
LinkedListAdd(l, item, location) ==
  LET before == IF location = "AT_HEAD" THEN NULL ELSE l.tail
      after  == IF location = "AT_HEAD" THEN l.head ELSE NULL
  IN  [head |-> IF location = "AT_HEAD" \/ l.head = NULL THEN item ELSE l.head,
       tail |-> IF location = "AT_TAIL" \/ l.tail = NULL THEN item ELSE l.tail,
       next |-> [x \in Items |-> IF x = item THEN after ELSE IF x = before THEN item ELSE l.next[x]],
       prev |-> [x \in Items |-> IF x = item THEN before ELSE IF x = after THEN item ELSE l.prev[x]],
       on   |-> l.on \cup {item}]

\* Mutant: the tail stays when the last item goes.
RemoveKeepsTail(l, item) ==
  [head |-> IF l.head = item THEN l.next[item] ELSE l.head,
   tail |-> l.tail,
   next |-> [x \in Items |-> IF x = l.prev[item] THEN l.next[item] ELSE l.next[x]],
   prev |-> [x \in Items |-> IF x = l.next[item] THEN l.prev[item] ELSE l.prev[x]],
   on   |-> l.on \ {item}]

\* LinkedListRemove, under the mutex.  The item keeps its own links.
LinkedListRemove(l, item) ==
  [head |-> IF l.head = item THEN l.next[item] ELSE l.head,
   tail |-> IF l.tail = item THEN l.prev[item] ELSE l.tail,
   next |-> [x \in Items |-> IF x = l.prev[item] THEN l.next[item] ELSE l.next[x]],
   prev |-> [x \in Items |-> IF x = l.next[item] THEN l.prev[item] ELSE l.prev[x]],
   on   |-> l.on \ {item}]
-----------------------------------------------------------------------------
TypeOK == list \in Lists /\ removing \in [Threads -> Pointers]

Init == list = EmptyList /\ removing = [t \in Threads |-> NULL]

\* No thread is in the middle of removing the item, where callers see to it.
Free(item) == OneOwner => \A t \in Threads : removing[t] # item

Add(item, location) ==
  /\ item \notin list.on /\ Free(item)
  /\ list' = LinkedListAdd(list, item, location)
  /\ UNCHANGED removing

\* item->list is compared before the lock; another value ends the call.
RemoveCheck(t, item) ==
  /\ removing[t] = NULL /\ Free(item) /\ item \in list.on
  /\ removing' = [removing EXCEPT ![t] = item]
  /\ UNCHANGED list

RemoveUnlink(t) ==
  /\ removing[t] # NULL
  /\ list' = LinkedListRemove(list, removing[t])
  /\ removing' = [removing EXCEPT ![t] = NULL]

\* A caller that holds the mutex (LOCKED).
RemoveLocked(item) ==
  /\ item \in list.on /\ Free(item)
  /\ list' = LinkedListRemove(list, item)
  /\ UNCHANGED removing

Next ==
  \/ \E item \in Items :
       \/ \E location \in {"AT_HEAD", "AT_TAIL"} : Add(item, location)
       \/ \E t \in Threads : RemoveCheck(t, item)
       \/ RemoveLocked(item)
  \/ \E t \in Threads : RemoveUnlink(t)

Spec == Init /\ [][Next]_vars
-----------------------------------------------------------------------------
\* In list l, the links agree with one another and with the ends.
Agree(l) ==
  /\ \A x \in l.on :
       /\ l.next[x] \in l.on \cup {NULL} /\ l.prev[x] \in l.on \cup {NULL}
       /\ l.next[x] # NULL => l.prev[l.next[x]] = x
       /\ l.prev[x] # NULL => l.next[l.prev[x]] = x
       /\ l.next[x] = NULL <=> l.tail = x
       /\ l.prev[x] = NULL <=> l.head = x
  /\ l.head \in l.on \cup {NULL} /\ l.tail \in l.on \cup {NULL}
  /\ l.head = NULL <=> l.tail = NULL

\* What every walker of LogList and QueueList relies on: the links lead from
\* item to item of the list, the same way forth and back, whatever calls of
\* LinkedListAdd and LinkedListRemove have come in between.
LinksAgree == Agree(list)

\* The items a walk of list l from its head meets.
Order(l) ==
  LET at[k \in 1 .. Cardinality(l.on)] == IF k = 1 THEN l.head ELSE l.next[at[k - 1]]
  IN  at

Contents == Order(list)

OL == INSTANCE OrderedList WITH contents <- Contents

\* The list is the sequence its callers build, whatever their interleaving.
ImplementsOrderedList == OL!Spec
=============================================================================
