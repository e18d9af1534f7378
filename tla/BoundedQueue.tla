---------------------------- MODULE BoundedQueue ----------------------------
(***************************************************************************)
(* What a queue of queue.c promises its callers: a first-in first-out      *)
(* sequence of at most Capacity items.  Locks, condition variables, the    *)
(* circular table and the full/empty flags are left to module Queue, which *)
(* implements this one.                                                    *)
(***************************************************************************)
EXTENDS Naturals, Sequences

CONSTANTS Items,      \* what callers put on the queue (never a null pointer)
          Capacity,   \* how many items the queue holds when it is full
          Clearable   \* whether a caller may clear the queue

VARIABLE contents     \* the queued items, oldest first

Init == contents = <<>>

Put(item) == /\ Len(contents) < Capacity
             /\ contents' = Append(contents, item)

Take == /\ contents # <<>>
        /\ contents' = Tail(contents)

Empty == Clearable /\ contents' = <<>>

Next == \/ \E item \in Items : Put(item)
        \/ Take
        \/ Empty

Spec == Init /\ [][Next]_contents
=============================================================================
