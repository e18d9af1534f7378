----------------------------- MODULE Supervisor -----------------------------
(***************************************************************************)
(* How the parent of gputrans starts its children, counts them and ends    *)
(* with the last: the fork loop of main, the handler signal_child, and the *)
(* exit through SoftExitParent.                                            *)
(*                                                                         *)
(* The handler runs on the main thread, between any two of its steps, with *)
(* SIGCHLD blocked there.  Signals do not queue.  One that is raised while *)
(* the handler runs goes to another thread, where the handler returns at   *)
(* once.  The handler logs through LoggingQ, whose mutex main may hold.    *)
(***************************************************************************)
EXTENDS Integers, FiniteSets

CONSTANTS
  numChildren,    \* displays in the configuration file
  MayFail,        \* TRUE if fork may fail
  Quick,          \* TRUE if a child may end before main is in its receive loop
  Overlap,        \* TRUE if a child may end while the handler runs
  Logs            \* TRUE if main receives log lines of the children

ASSUME SupervisorAssumption ==
  /\ numChildren \in Nat \ {0}
  /\ MayFail \in BOOLEAN /\ Quick \in BOOLEAN /\ Overlap \in BOOLEAN /\ Logs \in BOOLEAN

VARIABLES
  ppc,            \* main: place, suspended while the handler runs
  i, childCount,  \* loop index, count of children
  life,           \* what has become of each child
  sigchld,        \* SIGCHLD raised and not yet delivered
  hpc,            \* signal_child on the main thread: place
  registered,     \* atexit( SoftExitParent ) has been called
  removed         \* SoftExitParent has removed shared memory and queue

vars == <<ppc, i, childCount, life, sigchld, hpc, registered, removed>>

Children == 0 .. numChildren - 1

With(state) == {c \in Children : life[c] = state}

TypeOK ==
  /\ ppc \in {"fork", "count", "atexit", "loop", "show", "gone"}
  /\ i \in 0 .. numChildren
  /\ childCount \in -1 .. numChildren
  /\ life \in [Children -> {"unborn", "alive", "zombie", "reaped"}]
  /\ hpc \in {"idle", "wait", "count", "print", "test", "return"}
  /\ sigchld \in BOOLEAN /\ registered \in BOOLEAN /\ removed \in BOOLEAN

Init ==
  /\ ppc = "fork" /\ i = 0 /\ childCount = 0
  /\ life = [c \in Children |-> "unborn"]
  /\ sigchld = FALSE /\ hpc = "idle"
  /\ registered = FALSE /\ removed = FALSE
-----------------------------------------------------------------------------
\* main runs unless the handler has interrupted it.
At(place) == ppc = place /\ hpc = "idle"

Fork ==
  /\ At("fork")
  /\ \/ life' = [life EXCEPT ![i] = "alive"]
     \/ MayFail /\ UNCHANGED life
  /\ ppc' = "count"
  /\ UNCHANGED <<i, childCount, sigchld, hpc, registered, removed>>

\* Mutant: the loop runs to i <= numChildren.
CountUpOneMore ==
  /\ At("count")
  /\ childCount' = childCount + 1
  /\ i' = i + 1
  /\ ppc' = IF i' > numChildren THEN "atexit" ELSE "fork"
  /\ UNCHANGED <<life, sigchld, hpc, registered, removed>>

\* A fork that failed returned -1 and is counted as well.
CountUp ==
  /\ At("count")
  /\ childCount' = childCount + 1
  /\ i' = i + 1
  /\ ppc' = IF i' = numChildren THEN "atexit" ELSE "fork"
  /\ UNCHANGED <<life, sigchld, hpc, registered, removed>>

Atexit ==
  /\ At("atexit")
  /\ registered' = TRUE
  /\ ppc' = "loop"
  /\ UNCHANGED <<i, childCount, life, sigchld, hpc, removed>>

\* LogShowLine locks the mutex of LoggingQ ("show") and releases it.
Show ==
  /\ Logs
  /\ \/ At("loop") /\ ppc' = "show"
     \/ At("show") /\ ppc' = "loop"
  /\ UNCHANGED <<i, childCount, life, sigchld, hpc, registered, removed>>

Main == Fork \/ CountUp \/ Atexit \/ Show
-----------------------------------------------------------------------------
\* A child ends, by exit or by a signal.
Die(c) ==
  /\ life[c] = "alive"
  /\ Quick \/ ppc \in {"loop", "show"}
  /\ Overlap \/ hpc = "idle"
  /\ ppc # "gone"
  /\ life' = [life EXCEPT ![c] = "zombie"]
  /\ sigchld' = TRUE
  /\ UNCHANGED <<ppc, i, childCount, hpc, registered, removed>>

Deliver ==
  /\ sigchld /\ ppc # "gone"
  /\ sigchld' = FALSE
  /\ hpc' = IF hpc = "idle" THEN "wait" ELSE hpc
  /\ UNCHANGED <<ppc, i, childCount, life, registered, removed>>

\* waitpid with WNOHANG.
Reap ==
  /\ hpc = "wait"
  /\ \/ \E c \in With("zombie") : life' = [life EXCEPT ![c] = "reaped"] /\ hpc' = "count"
     \/ With("zombie") = {} /\ hpc' = "return" /\ UNCHANGED life
  /\ UNCHANGED <<ppc, i, childCount, sigchld, registered, removed>>

\* Mutant: a child killed by a signal is not counted.
CountDownExitsOnly ==
  /\ hpc = "count"
  /\ \E exited \in BOOLEAN : childCount' = IF exited THEN childCount - 1 ELSE childCount
  /\ hpc' = "print"
  /\ UNCHANGED <<ppc, i, life, sigchld, registered, removed>>

CountDown ==
  /\ hpc = "count"
  /\ childCount' = childCount - 1
  /\ hpc' = "print"
  /\ UNCHANGED <<ppc, i, life, sigchld, registered, removed>>

\* LogLocalPrint waits for the mutex of LoggingQ, for ever if main holds it.
PrintLeft ==
  /\ hpc = "print" /\ ppc # "show"
  /\ hpc' = "test"
  /\ UNCHANGED <<ppc, i, childCount, life, sigchld, registered, removed>>

\* Mutant: the last child is taken for none.
TestOffByOne ==
  /\ hpc = "test"
  /\ IF childCount <= 1
     THEN ppc' = "gone" /\ removed' = registered /\ hpc' = "idle"
     ELSE hpc' = "wait" /\ UNCHANGED <<ppc, removed>>
  /\ UNCHANGED <<i, childCount, life, sigchld, registered>>

\* Mutant: the handler reaps one child a signal.
TestThenReturn ==
  /\ hpc = "test"
  /\ IF childCount <= 0
     THEN ppc' = "gone" /\ removed' = registered /\ hpc' = "idle"
     ELSE hpc' = "return" /\ UNCHANGED <<ppc, removed>>
  /\ UNCHANGED <<i, childCount, life, sigchld, registered>>

\* exit runs SoftExitParent if main has got as far as registering it.
TestLeft ==
  /\ hpc = "test"
  /\ IF childCount <= 0
     THEN ppc' = "gone" /\ removed' = registered /\ hpc' = "idle"
     ELSE hpc' = "wait" /\ UNCHANGED <<ppc, removed>>
  /\ UNCHANGED <<i, childCount, life, sigchld, registered>>

Return ==
  /\ hpc = "return"
  /\ hpc' = "idle"
  /\ UNCHANGED <<ppc, i, childCount, life, sigchld, registered, removed>>

signal_child == Reap \/ CountDown \/ PrintLeft \/ TestLeft \/ Return
-----------------------------------------------------------------------------
Next == Main \/ (\E c \in Children : Die(c)) \/ Deliver \/ signal_child

Spec == Init /\ [][Next]_vars

\* The main thread is run, in and out of its handler, and signals arrive.
FairSpec == Spec /\ WF_vars(Main) /\ WF_vars(signal_child) /\ WF_vars(Deliver)
-----------------------------------------------------------------------------
\* childCount is the number of forks counted less the number of children the
\* handler has counted, wherever the handler interrupts the fork loop.
CountIsExact ==
  childCount = i - Cardinality(With("reaped")) + (IF hpc = "count" THEN 1 ELSE 0)

\* "All children exited, exiting": no child outlives the parent's decision to
\* exit.
AllChildrenExited == ppc = "gone" => With("alive") = {}

\* A parent that ends has removed its shared memory and the message queue,
\* which the system would keep.  False if a child ends before main has
\* registered SoftExitParent (Supervisor_leftover.cfg).
NothingLeftBehind == ppc = "gone" => removed

\* "Ain't none left waiting to be de-zombified": with the handler at rest and
\* no signal on its way, every child that has ended has been counted.
NoneLeftWaiting ==
  hpc = "idle" /\ ~sigchld /\ ppc # "gone" => With("zombie") = {}

\* The parent ends when its children have.
EndsWithItsChildren ==
  (i = numChildren /\ With("alive") = {}) ~> ppc = "gone"
=============================================================================
