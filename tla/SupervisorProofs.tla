-------------------------- MODULE SupervisorProofs --------------------------
(***************************************************************************)
(* Theorems about module Supervisor, for any number of children: the count *)
(* of children is exact, and a parent whose children live until its        *)
(* receive loop never leaves one behind.                                   *)
(***************************************************************************)
EXTENDS Supervisor, FiniteSetTheorems, TLAPS

\* A child has been forked only if the loop has come to it.
BornInOrder ==
  \A c \in Children :
    life[c] # "unborn" => c < i \/ (c = i /\ ppc \in {"count", "gone"})

\* The place in main tells how far the loop has come.
PlaceMatchesIndex ==
  /\ ppc \in {"fork", "count"} => i < numChildren
  /\ ppc \in {"atexit", "loop", "show"} => i = numChildren
  /\ ppc = "gone" => hpc = "idle"

\* Unless children are quick, nothing of the handler happens before the
\* receive loop.
QuietBeforeLoop ==
  ~Quick /\ (sigchld \/ hpc # "idle") => ppc \in {"loop", "show", "gone"}

\* The inductive invariant.
SupervisorInv ==
  /\ CountIsExact
  /\ BornInOrder
  /\ PlaceMatchesIndex
  /\ QuietBeforeLoop
  /\ ~Quick => AllChildrenExited

\* The children that have been reaped are finitely many, and no more than the
\* loop has come to, the one being forked included.
LEMMA ReapedBound ==
  ASSUME TypeOK, BornInOrder
  PROVE  /\ IsFiniteSet(With("reaped"))
         /\ Cardinality(With("reaped")) \in Nat
         /\ Cardinality(With("reaped")) <= i + 1
         /\ Cardinality(With("reaped")) <= numChildren
         /\ Cardinality(With("reaped")) = numChildren => With("reaped") = Children
<1>1. /\ IsFiniteSet(Children) /\ Cardinality(Children) = numChildren
  BY FS_Interval, SupervisorAssumption DEF Children
<1>2. /\ IsFiniteSet(0 .. i) /\ Cardinality(0 .. i) = i + 1
  BY FS_Interval DEF TypeOK
<1>3. With("reaped") \subseteq Children
  BY DEF With
<1>4. With("reaped") \subseteq 0 .. i
  BY SupervisorAssumption DEF With, BornInOrder, TypeOK, Children
<1>5. IsFiniteSet(With("reaped")) /\ Cardinality(With("reaped")) \in Nat
  BY <1>1, <1>3, FS_Subset, FS_CardinalityType
<1>6. Cardinality(With("reaped")) <= i + 1
  BY <1>2, <1>4, FS_Subset
<1>7. /\ Cardinality(With("reaped")) <= numChildren
      /\ Cardinality(With("reaped")) = numChildren => With("reaped") = Children
  BY <1>1, <1>3, FS_Subset
<1> QED
  BY <1>5, <1>6, <1>7

\* Types and invariant hold at the start.
LEMMA InitHolds == Init => TypeOK /\ SupervisorInv
<1> SUFFICES ASSUME Init PROVE TypeOK /\ SupervisorInv
  OBVIOUS
<1>0. /\ 0 \in 0 .. numChildren /\ 0 \in -1 .. numChildren
      /\ life \in [Children -> {"unborn", "alive", "zombie", "reaped"}]
  BY SupervisorAssumption DEF Init
<1>1. TypeOK
  BY <1>0 DEF Init, TypeOK
<1>2. With("reaped") = {}
  BY DEF Init, With
<1>3. CountIsExact
  BY <1>2, FS_EmptySet DEF Init, CountIsExact
<1>4. /\ BornInOrder /\ PlaceMatchesIndex /\ QuietBeforeLoop
      /\ AllChildrenExited
  BY SupervisorAssumption DEF Init, BornInOrder, PlaceMatchesIndex,
     QuietBeforeLoop, AllChildrenExited
<1> QED
  BY <1>1, <1>3, <1>4 DEF SupervisorInv

\* Every step keeps the types and the invariant.
LEMMA StepHolds == TypeOK /\ SupervisorInv /\ [Next]_vars => TypeOK' /\ SupervisorInv'
<1> SUFFICES ASSUME TypeOK, SupervisorInv, [Next]_vars PROVE TypeOK' /\ SupervisorInv'
  OBVIOUS
<1> DEFINE reaped == With("reaped")
<1>0. /\ IsFiniteSet(reaped) /\ Cardinality(reaped) \in Nat
      /\ Cardinality(reaped) <= i + 1 /\ Cardinality(reaped) <= numChildren
      /\ Cardinality(reaped) = numChildren => reaped = Children
  BY ReapedBound DEF SupervisorInv
<1> USE SupervisorAssumption
<1>1. CASE Fork
  <2>1. i \in Children
    BY <1>1 DEF Fork, At, TypeOK, SupervisorInv, PlaceMatchesIndex, Children
  <2>2. life[i] = "unborn"
    BY <1>1, <2>1 DEF Fork, At, TypeOK, SupervisorInv, BornInOrder
  <2>3. TypeOK'
    BY <1>1, <2>1 DEF Fork, At, TypeOK
  <2>4. reaped' = reaped
    BY <1>1, <2>1, <2>2 DEF Fork, With, TypeOK
  <2>5. CountIsExact'
    BY <1>1, <2>4 DEF Fork, SupervisorInv, CountIsExact
  <2>6. BornInOrder'
    BY <1>1, <2>1 DEF Fork, At, TypeOK, SupervisorInv, BornInOrder, Children
  <2>7. PlaceMatchesIndex' /\ QuietBeforeLoop' /\ AllChildrenExited'
    BY <1>1 DEF Fork, At, SupervisorInv, PlaceMatchesIndex, QuietBeforeLoop,
       AllChildrenExited
  <2> QED
    BY <2>3, <2>5, <2>6, <2>7 DEF SupervisorInv
<1>2. CASE CountUp
  <2>1. /\ i \in Int /\ i' = i + 1 /\ i < numChildren /\ childCount' = childCount + 1
        /\ hpc = "idle" /\ UNCHANGED <<life, hpc>>
    BY <1>2 DEF CountUp, At, TypeOK, SupervisorInv, PlaceMatchesIndex
  <2>2. reaped' = reaped
    BY <2>1 DEF With
  <2>3. CountIsExact'
    BY <1>0, <2>1, <2>2 DEF SupervisorInv, CountIsExact
  <2>4. i' \in 0 .. numChildren
    BY <2>1 DEF TypeOK
  <2>5. childCount' \in -1 .. numChildren
    BY <1>0, <2>1 DEF TypeOK, SupervisorInv, CountIsExact
  <2>6. TypeOK'
    BY <1>2, <2>4, <2>5 DEF CountUp, TypeOK
  <2>7. BornInOrder'
    BY <1>2, <2>1 DEF CountUp, At, SupervisorInv, BornInOrder, Children
  <2>8. PlaceMatchesIndex' /\ QuietBeforeLoop' /\ AllChildrenExited'
    BY <1>2, <2>1 DEF CountUp, At, SupervisorInv, PlaceMatchesIndex, QuietBeforeLoop,
       AllChildrenExited
  <2> QED
    BY <2>3, <2>6, <2>7, <2>8 DEF SupervisorInv
<1>3. CASE Atexit \/ Show \/ Deliver \/ PrintLeft \/ Return
  <2>1. /\ UNCHANGED <<i, childCount, life, removed>>
        /\ (hpc' = "count") = (hpc = "count")
    BY <1>3 DEF Atexit, Show, Deliver, PrintLeft, Return
  <2>2. reaped' = reaped
    BY <2>1 DEF With
  <2>3. TypeOK'
    BY <1>3 DEF TypeOK, Atexit, Show, Deliver, PrintLeft, Return
  <2>4. CountIsExact'
    BY <2>1, <2>2 DEF SupervisorInv, CountIsExact
  <2>5. BornInOrder'
    BY <1>3, <2>1 DEF Atexit, Show, Deliver, PrintLeft, Return, At, SupervisorInv, BornInOrder
  <2>6. PlaceMatchesIndex'
    BY <1>3 DEF Atexit, Show, Deliver, PrintLeft, Return, At, SupervisorInv, PlaceMatchesIndex
  <2>7. QuietBeforeLoop'
    BY <1>3 DEF Atexit, Show, Deliver, PrintLeft, Return, At, SupervisorInv, QuietBeforeLoop
  <2>8. ~Quick => AllChildrenExited'
    BY <1>3, <2>1 DEF Atexit, Show, Deliver, PrintLeft, Return, At, With, SupervisorInv,
       AllChildrenExited
  <2> QED
    BY <2>3, <2>4, <2>5, <2>6, <2>7, <2>8 DEF SupervisorInv
<1>4. CASE \E c \in Children : Die(c)
  <2> PICK c \in Children : Die(c)
    BY <1>4
  <2>1. TypeOK'
    BY DEF Die, TypeOK
  <2>2. reaped' = reaped
    BY DEF Die, With, TypeOK
  <2>3. CountIsExact'
    BY <2>2 DEF Die, SupervisorInv, CountIsExact
  <2>4. BornInOrder'
    BY DEF Die, TypeOK, SupervisorInv, BornInOrder
  <2>5. PlaceMatchesIndex' /\ QuietBeforeLoop' /\ AllChildrenExited'
    BY DEF Die, SupervisorInv, PlaceMatchesIndex, QuietBeforeLoop,
       AllChildrenExited
  <2> QED
    BY <2>1, <2>3, <2>4, <2>5 DEF SupervisorInv
<1>5. CASE Reap
  <2>1. TypeOK'
    BY <1>5 DEF Reap, With, TypeOK
  <2>2. CountIsExact'
    <3>1. CASE \E c \in With("zombie") : life' = [life EXCEPT ![c] = "reaped"] /\ hpc' = "count"
      <4> PICK c \in With("zombie") : life' = [life EXCEPT ![c] = "reaped"] /\ hpc' = "count"
        BY <3>1
      <4>1. c \notin reaped /\ reaped' = reaped \cup {c}
        BY DEF With, TypeOK
      <4>2. Cardinality(reaped') = Cardinality(reaped) + 1
        BY <1>0, <4>1, FS_AddElement
      <4>3. hpc = "wait" /\ UNCHANGED <<i, childCount>>
        BY <1>5 DEF Reap
      <4> QED
        BY <1>0, <4>2, <4>3 DEF SupervisorInv, CountIsExact, TypeOK
    <3>2. CASE hpc' = "return" /\ UNCHANGED life
      <4>1. reaped' = reaped
        BY <3>2 DEF With
      <4> QED
        BY <1>5, <3>2, <4>1 DEF Reap, SupervisorInv, CountIsExact
    <3> QED
      BY <1>5, <3>1, <3>2 DEF Reap
  <2>3. BornInOrder'
    BY <1>5 DEF Reap, With, TypeOK, SupervisorInv, BornInOrder
  <2>4. PlaceMatchesIndex' /\ QuietBeforeLoop' /\ AllChildrenExited'
    BY <1>5 DEF Reap, SupervisorInv, PlaceMatchesIndex, QuietBeforeLoop,
       AllChildrenExited
  <2> QED
    BY <2>1, <2>2, <2>3, <2>4 DEF SupervisorInv
<1>6. CASE CountDown
  <2>1. /\ hpc = "count" /\ hpc' = "print" /\ childCount' = childCount - 1
        /\ UNCHANGED <<ppc, i, life, sigchld, registered, removed>>
    BY <1>6 DEF CountDown
  <2>2. reaped' = reaped
    BY <2>1 DEF With
  <2>3. CountIsExact'
    BY <1>0, <2>1, <2>2 DEF SupervisorInv, CountIsExact, TypeOK
  <2>4. childCount' \in -1 .. numChildren
    BY <1>0, <2>1 DEF SupervisorInv, CountIsExact, TypeOK
  <2>5. TypeOK'
    BY <2>1, <2>4 DEF TypeOK
  <2>6. BornInOrder' /\ PlaceMatchesIndex' /\ QuietBeforeLoop' /\ AllChildrenExited'
    BY <2>1 DEF SupervisorInv, BornInOrder, PlaceMatchesIndex, QuietBeforeLoop,
       AllChildrenExited
  <2> QED
    BY <2>3, <2>5, <2>6 DEF SupervisorInv
<1>7. CASE TestLeft
  <2>1. /\ hpc = "test" /\ hpc' # "count" /\ ppc # "gone"
        /\ UNCHANGED <<i, childCount, life, sigchld, registered>>
    BY <1>7 DEF TestLeft, SupervisorInv, PlaceMatchesIndex
  <2>2. reaped' = reaped
    BY <2>1 DEF With
  <2>3. TypeOK'
    BY <1>7 DEF TestLeft, TypeOK
  <2>4. CountIsExact'
    BY <2>1, <2>2 DEF SupervisorInv, CountIsExact
  <2>5. BornInOrder' /\ PlaceMatchesIndex' /\ QuietBeforeLoop'
    BY <1>7 DEF TestLeft, SupervisorInv, BornInOrder, PlaceMatchesIndex, QuietBeforeLoop
  <2>6. ASSUME ~Quick PROVE AllChildrenExited'
    <3>1. ppc \in {"loop", "show"} /\ i = numChildren
      BY <2>1, <2>6 DEF SupervisorInv, QuietBeforeLoop, PlaceMatchesIndex
    <3>2. CASE childCount <= 0
      <4>1. childCount = i - Cardinality(reaped)
        BY <1>0, <2>1 DEF SupervisorInv, CountIsExact, TypeOK
      <4>2. reaped = Children
        BY <1>0, <3>1, <3>2, <4>1
      <4>3. With("alive")' = {}
        BY <2>1, <4>2 DEF With
      <4> QED
        BY <4>3 DEF AllChildrenExited
    <3>3. CASE ~(childCount <= 0)
      BY <1>7, <2>1, <3>3 DEF TestLeft, AllChildrenExited
    <3> QED
      BY <3>2, <3>3
  <2> QED
    BY <2>3, <2>4, <2>5, <2>6 DEF SupervisorInv
<1>8. CASE UNCHANGED vars
  BY <1>8 DEF vars, TypeOK, SupervisorInv, CountIsExact, BornInOrder, PlaceMatchesIndex,
     QuietBeforeLoop, AllChildrenExited, With
<1> QED
  BY <1>1, <1>2, <1>3, <1>4, <1>5, <1>6, <1>7, <1>8 DEF Next, Main, signal_child

\* Types and invariant hold throughout.
LEMMA Invariance == Spec => [](TypeOK /\ SupervisorInv)
BY InitHolds, StepHolds, PTL DEF Spec

\* The variables of the parent keep their types; childCount, which the handler
\* changes between a fork and its count, never falls below -1.
THEOREM SupervisorTypes == Spec => []TypeOK
BY Invariance, PTL

\* childCount is exact wherever signal_child interrupts the fork loop, for any
\* number of children, with failing forks and children that die at once.
THEOREM ChildCountIsExact == Spec => []CountIsExact
<1>1. SupervisorInv => CountIsExact
  BY DEF SupervisorInv
<1> QED
  BY <1>1, Invariance, PTL

\* If no child ends before main is in its receive loop, "All children exited"
\* is true when the parent says so, even if forks fail and signals are lost.
THEOREM NoOrphans ==
  ASSUME ~Quick
  PROVE  Spec => []AllChildrenExited
<1>1. SupervisorInv => AllChildrenExited
  BY DEF SupervisorInv
<1> QED
  BY <1>1, Invariance, PTL
-----------------------------------------------------------------------------
(***************************************************************************)
(* Zombies.  If no child ends while the handler runs, no signal is spent   *)
(* on a handler that is already there.                                     *)
(***************************************************************************)

\* A zombie has a signal on its way or a handler that is not done looking.
ZombiesAreNoticed ==
  /\ hpc # "idle" => ~sigchld
  /\ With("zombie") # {} =>
       sigchld \/ hpc \in {"wait", "count", "print", "test"} \/ ppc = "gone"

\* Every step keeps it.
LEMMA NoticedStep ==
  ASSUME ~Overlap
  PROVE  TypeOK /\ SupervisorInv /\ ZombiesAreNoticed /\ [Next]_vars => ZombiesAreNoticed'
<1> SUFFICES ASSUME TypeOK, SupervisorInv, ZombiesAreNoticed, [Next]_vars
             PROVE  ZombiesAreNoticed'
  OBVIOUS
<1> DEFINE zombies == With("zombie")
<1>1. CASE Fork
  <2>1. i \in Children
    BY <1>1, SupervisorAssumption
       DEF Fork, At, TypeOK, SupervisorInv, PlaceMatchesIndex, Children
  <2>2. zombies' \subseteq zombies
    BY <1>1, <2>1 DEF Fork, With, TypeOK
  <2>3. UNCHANGED <<sigchld, hpc>> /\ hpc = "idle" /\ ppc # "gone"
    BY <1>1 DEF Fork, At
  <2> QED
    BY <2>2, <2>3 DEF ZombiesAreNoticed
<1>2. CASE CountUp \/ Atexit \/ Show \/ CountDown \/ PrintLeft \/ UNCHANGED vars
  <2>1. zombies' = zombies
    BY <1>2 DEF CountUp, Atexit, Show, CountDown, PrintLeft, vars, With
  <2>2. /\ UNCHANGED sigchld /\ (ppc = "gone" => ppc' = "gone")
        /\ \/ UNCHANGED hpc
           \/ hpc # "idle" /\ hpc' \in {"wait", "count", "print", "test"}
    BY <1>2 DEF CountUp, Atexit, Show, CountDown, PrintLeft, vars, At
  <2> QED
    BY <2>1, <2>2 DEF ZombiesAreNoticed
<1>3. CASE \E c \in Children : Die(c)
  BY <1>3 DEF Die, ZombiesAreNoticed
<1>4. CASE Deliver
  BY <1>4 DEF Deliver, ZombiesAreNoticed
<1>5. CASE Reap
  <2>1. CASE hpc' = "count"
    BY <1>5, <2>1 DEF Reap, ZombiesAreNoticed
  <2>2. CASE With("zombie") = {} /\ UNCHANGED life
    BY <1>5, <2>2 DEF Reap, ZombiesAreNoticed, With
  <2> QED
    BY <1>5, <2>1, <2>2 DEF Reap
<1>6. CASE TestLeft
  BY <1>6 DEF TestLeft, ZombiesAreNoticed
<1>7. CASE Return
  BY <1>7 DEF Return, ZombiesAreNoticed, With, SupervisorInv, PlaceMatchesIndex
<1> QED
  BY <1>1, <1>2, <1>3, <1>4, <1>5, <1>6, <1>7 DEF Next, Main, signal_child

\* "Ain't none left waiting": as long as no child ends while signal_child runs,
\* a handler at rest has counted every child that has ended.  (With such a
\* child, the last zombie may wait for ever: see Supervisor_lost.cfg.)
THEOREM ZombiesAreCollected ==
  ASSUME ~Overlap
  PROVE  Spec => []NoneLeftWaiting
<1>1. Init => ZombiesAreNoticed
  BY DEF Init, ZombiesAreNoticed, With
<1>2. ZombiesAreNoticed => NoneLeftWaiting
  BY DEF ZombiesAreNoticed, NoneLeftWaiting
<1> QED
  BY <1>1, <1>2, Invariance, NoticedStep, PTL DEF Spec
=============================================================================
