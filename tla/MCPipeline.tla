----------------------------- MODULE MCPipeline -----------------------------
(* Small instances of Pipeline for TLC.                                     *)
EXTENDS Pipeline, TLC

\* No logging.
NoLogging == [p \in Phases |-> 0]

\* More lines while a card starts than at a frame.
Bursts == [p \in Phases |-> IF p \in {"init", "mode"} THEN 3 ELSE 1]

\* The lines the code logs if nothing goes wrong.
AsInCode == [video |-> 9, ready |-> 1, renderReady |-> 1, marker |-> 1,
             init |-> 13, mode |-> 26, frame |-> 3, exit |-> 3]

\* main treats its children alike.
ChildSymmetry == Permutations(Children)
=============================================================================
