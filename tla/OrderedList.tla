---------------------------- MODULE OrderedList ----------------------------
(***************************************************************************)
(* What a list of linked_list.c promises: a sequence of different items to *)
(* which a caller adds at either end and from which it removes anywhere.   *)
(***************************************************************************)
EXTENDS Integers, Sequences

CONSTANT Items

VARIABLE contents

Init == contents = <<>>

Listed == {contents[k] : k \in DOMAIN contents}

AddAtHead(item) == item \notin Listed /\ contents' = <<item>> \o contents

AddAtTail(item) == item \notin Listed /\ contents' = Append(contents, item)

\* s without its k-th element.
Without(s, k) == SubSeq(s, 1, k - 1) \o SubSeq(s, k + 1, Len(s))

Remove(item) == \E k \in DOMAIN contents : /\ contents[k] = item
                                           /\ contents' = Without(contents, k)

Next == \E item \in Items : AddAtHead(item) \/ AddAtTail(item) \/ Remove(item)

Spec == Init /\ [][Next]_contents
=============================================================================
