------------------------------ MODULE MCQueue ------------------------------
(* Small instances of Queue for TLC.                                        *)
EXTENDS Queue, TLC

\* The queue never looks at what it carries, so items are interchangeable.
ItemSymmetry == Permutations(Items)
=============================================================================
