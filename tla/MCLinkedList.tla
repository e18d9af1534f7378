---------------------------- MODULE MCLinkedList ----------------------------
(* A small instance of LinkedList for TLC.                                  *)
EXTENDS LinkedList, TLC

\* Threads differ only in what they call.
ThreadSymmetry == Permutations(Threads)
=============================================================================
