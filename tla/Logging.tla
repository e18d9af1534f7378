------------------------------ MODULE Logging ------------------------------
(***************************************************************************)
(* logging.c: LoggingThread takes lines from LoggingQ and writes each to   *)
(* every output on LogList, dropping outputs that fail, while other        *)
(* threads toggle the debug file.  A line is its number.                   *)
(*                                                                         *)
(* Adding or removing an output has no wait inside its critical section    *)
(* and is one step.  LoggingThread keeps the mutex for a whole walk, one   *)
(* output a step, and stands between outputs with a saved pointer to the   *)
(* next.  LoggingQ is the bounded sequence of module BoundedQueue.         *)
(***************************************************************************)
EXTENDS Integers, Sequences

CONSTANTS
  console, syslog,   \* the outputs logging_initialize adds
  Files,             \* blocks of memory a debug file's LogFileChain_t may get
  Togglers,          \* threads that call logging_toggle_debug
  NULL,
  QueueCap,          \* capacity of LoggingQ
  MaxLines,          \* bound on the lines other threads log
  MaxFailures        \* bound on outputs that start to fail

Outputs == Files \cup {console, syslog}

ASSUME LoggingAssumption ==
  /\ NULL \notin Outputs /\ console # syslog /\ {console, syslog} \cap Files = {}
  /\ QueueCap \in Nat \ {0} /\ MaxLines \in Nat /\ MaxFailures \in Nat

VARIABLES
  LogList, mutex,            \* the list and whether LoggingThread holds its mutex
  LoggingQ, submitted,       \* queued lines, number of lines so far
  tpc, item, listItem, next, \* LoggingThread: place and locals
  broken,                    \* outputs whose writes fail
  freed,                     \* outputs whose memory has been freed
  closed,                    \* "Closed Log output" messages on their way to main
  failures,
  Debug, gpc,                \* the flag, and the togglers' places
  written                    \* lines written to each output

listVars   == <<LogList, mutex>>
queueVars  == <<LoggingQ, submitted>>
threadVars == <<tpc, item, listItem, next>>
outputVars == <<broken, freed, failures, written>>
toggleVars == <<Debug, gpc>>
vars == <<listVars, queueVars, threadVars, outputVars, closed, toggleVars>>

LL == INSTANCE LinkedList WITH Items <- Outputs, Threads <- {}, OneOwner <- TRUE,
                               list <- LogList, removing <- <<>>

TypeOK ==
  /\ LogList \in LL!Lists /\ mutex \in BOOLEAN
  /\ LoggingQ \in Seq(1 .. submitted) /\ Len(LoggingQ) <= QueueCap
  /\ submitted \in 0 .. MaxLines + MaxFailures
  /\ tpc \in {"dequeue", "lock", "visit", "advance"}
  /\ item \in 0 .. submitted
  /\ listItem \in Outputs \cup {NULL} /\ next \in Outputs \cup {NULL}
  /\ broken \subseteq Outputs /\ freed \subseteq Outputs
  /\ failures \in 0 .. MaxFailures /\ closed \in 0 .. MaxFailures
  /\ Debug \in BOOLEAN /\ gpc \in [Togglers -> {"idle", "adding", "removing", "added", "removed"}]
  /\ written \in [Outputs -> Seq(1 .. submitted)]

\* logging_initialize; Debug is off.
Init ==
  /\ LogList = LL!LinkedListAdd(LL!LinkedListAdd(LL!EmptyList, console, "AT_TAIL"),
                                syslog, "AT_TAIL")
  /\ mutex = FALSE
  /\ LoggingQ = <<>> /\ submitted = 0
  /\ tpc = "dequeue" /\ item = 0 /\ listItem = NULL /\ next = NULL
  /\ broken = {} /\ freed = Files /\ failures = 0 /\ closed = 0
  /\ Debug = FALSE /\ gpc = [t \in Togglers |-> "idle"]
  /\ written = [o \in Outputs |-> <<>>]
-----------------------------------------------------------------------------
\* A new LogFileChain_t goes to the end of the list.
LogOutputAdd(o) ==
  /\ LogList' = LL!LinkedListAdd(LogList, o, "AT_TAIL")
  /\ freed' = freed \ {o}

\* "It is assumed that the caller already has the Mutex locked."
LogOutputRemove(o) ==
  /\ LogList' = LL!LinkedListRemove(LogList, o)
  /\ freed' = freed \cup {o}

\* A write to a console or file that fails marks it aborted and is reported.
LogWrite(o) ==
  IF o \in broken
  THEN closed' = closed + 1 /\ UNCHANGED written
  ELSE written' = [written EXCEPT ![o] = Append(@, item)] /\ UNCHANGED closed

\* Mutant: nobody waits for room in LoggingQ.
SubmitWithoutWait ==
  /\ \/ submitted < MaxLines /\ UNCHANGED closed
     \/ closed > 0 /\ closed' = closed - 1
  /\ submitted' = submitted + 1
  /\ LoggingQ' = Append(LoggingQ, submitted')
  /\ UNCHANGED <<listVars, threadVars, outputVars, toggleVars>>

\* LogLocalPrintLine and LogShowLine block while LoggingQ is full.  A line
\* about a closed output has come to main over the System V queue.
Submit ==
  /\ Len(LoggingQ) < QueueCap
  /\ \/ submitted < MaxLines /\ UNCHANGED closed
     \/ closed > 0 /\ closed' = closed - 1
  /\ submitted' = submitted + 1
  /\ LoggingQ' = Append(LoggingQ, submitted')
  /\ UNCHANGED <<listVars, threadVars, outputVars, toggleVars>>

\* An output starts to fail: a full disk, a closed terminal.
Break(o) ==
  /\ o \in LogList.on \ (broken \cup {syslog}) /\ failures < MaxFailures
  /\ broken' = broken \cup {o}
  /\ failures' = failures + 1
  /\ UNCHANGED <<listVars, queueVars, threadVars, freed, written, closed, toggleVars>>
-----------------------------------------------------------------------------
Dequeue ==
  /\ tpc = "dequeue" /\ LoggingQ # <<>>
  /\ item' = Head(LoggingQ) /\ LoggingQ' = Tail(LoggingQ)
  /\ tpc' = "lock"
  /\ UNCHANGED <<listVars, submitted, listItem, next, outputVars, closed, toggleVars>>

LockList ==
  /\ tpc = "lock" /\ ~mutex
  /\ mutex' = TRUE
  /\ listItem' = LogList.head
  /\ tpc' = "visit"
  /\ UNCHANGED <<LogList, queueVars, item, next, outputVars, closed, toggleVars>>

\* Mutant: the walk ends where an output has been dropped.
VisitThenStop ==
  /\ tpc = "visit" /\ listItem # NULL
  /\ LogWrite(listItem)
  /\ IF listItem \in broken
     THEN LogOutputRemove(listItem) /\ next' = NULL
     ELSE next' = LogList.next[listItem] /\ UNCHANGED <<LogList, freed>>
  /\ tpc' = "advance"
  /\ UNCHANGED <<mutex, queueVars, item, listItem, broken, failures, toggleVars>>

\* One output of the walk: the pointer to the next is saved first, and an
\* output that has been aborted is dropped.
Visit ==
  /\ tpc = "visit" /\ listItem # NULL
  /\ next' = LogList.next[listItem]
  /\ LogWrite(listItem)
  /\ IF listItem \in broken THEN LogOutputRemove(listItem) ELSE UNCHANGED <<LogList, freed>>
  /\ tpc' = "advance"
  /\ UNCHANGED <<mutex, queueVars, item, listItem, broken, failures, toggleVars>>

Advance ==
  /\ tpc = "advance"
  /\ listItem' = next
  /\ tpc' = "visit"
  /\ UNCHANGED <<listVars, queueVars, item, next, outputVars, closed, toggleVars>>

\* Mutant: the mutex stays locked when the list has been walked.
WalkedStillLocked ==
  /\ tpc = "visit" /\ listItem = NULL
  /\ tpc' = "dequeue"
  /\ UNCHANGED <<listVars, queueVars, item, listItem, next, outputVars, closed, toggleVars>>

Walked ==
  /\ tpc = "visit" /\ listItem = NULL
  /\ mutex' = FALSE
  /\ tpc' = "dequeue"
  /\ UNCHANGED <<LogList, queueVars, item, listItem, next, outputVars, closed, toggleVars>>

LoggingThread == Dequeue \/ LockList \/ Visit \/ Advance \/ Walked
-----------------------------------------------------------------------------
\* LogFileAdd: a debug file that can be opened.
LogFileAdd ==
  /\ ~mutex
  /\ \E o \in Files \cap freed :
       /\ LogOutputAdd(o)
       /\ broken' = broken \ {o}
       /\ written' = [written EXCEPT ![o] = <<>>]

\* logging_toggle_debug tests Debug, changes the list and sets Debug apart.
ToggleStart(t) ==
  /\ gpc[t] = "idle"
  /\ gpc' = [gpc EXCEPT ![t] = IF Debug THEN "removing" ELSE "adding"]
  /\ UNCHANGED <<listVars, queueVars, threadVars, outputVars, closed, Debug>>

\* LogFileAdd may fail to open the file, which its caller ignores.
ToggleAdd(t) ==
  /\ gpc[t] = "adding"
  /\ \/ LogFileAdd
     \/ UNCHANGED <<LogList, freed, broken, written>>
  /\ gpc' = [gpc EXCEPT ![t] = "added"]
  /\ UNCHANGED <<mutex, queueVars, threadVars, failures, closed, Debug>>

\* Mutant: the list is not locked.
RemoveUnlocked ==
  \/ \E o \in Files \cap LogList.on : LogOutputRemove(o)
  \/ Files \cap LogList.on = {} /\ UNCHANGED <<LogList, freed>>

\* The first output of that name, here any of them; it may have been dropped.
LogFileRemove ==
  /\ ~mutex
  /\ \/ \E o \in Files \cap LogList.on : LogOutputRemove(o)
     \/ Files \cap LogList.on = {} /\ UNCHANGED <<LogList, freed>>

ToggleRemove(t) ==
  /\ gpc[t] = "removing"
  /\ LogFileRemove
  /\ gpc' = [gpc EXCEPT ![t] = "removed"]
  /\ UNCHANGED <<mutex, queueVars, threadVars, broken, failures, written, closed, Debug>>

ToggleEnd(t) ==
  /\ gpc[t] \in {"added", "removed"}
  /\ Debug' = (gpc[t] = "added")
  /\ gpc' = [gpc EXCEPT ![t] = "idle"]
  /\ UNCHANGED <<listVars, queueVars, threadVars, outputVars, closed>>

Toggler(t) == ToggleStart(t) \/ ToggleAdd(t) \/ ToggleRemove(t) \/ ToggleEnd(t)
-----------------------------------------------------------------------------
Next == \/ Submit \/ (\E o \in Outputs : Break(o))
        \/ LoggingThread \/ (\E t \in Togglers : Toggler(t))

Spec == Init /\ [][Next]_vars

\* LoggingThread is run whenever it can go on.
FairSpec == Spec /\ WF_vars(LoggingThread)
-----------------------------------------------------------------------------
\* LoggingThread never follows a pointer to an output that has been freed,
\* neither by its own LogOutputRemove nor by LogFileRemove of another thread.
NoUseAfterFree ==
  /\ tpc = "visit" => listItem \notin freed
  /\ tpc = "advance" => next \notin freed
  /\ LogList.on \cap freed = {}

\* Between two lines, an output that has been on the list all along has every
\* line so far, once and in order: dropping a neighbour in the middle of a walk
\* skips nobody.
NothingSkipped ==
  tpc = "dequeue" => \A o \in {console, syslog} \cap LogList.on :
                       written[o] = [k \in 1 .. item |-> k]

\* At most one debug file is on the list, and between two toggles none while
\* Debug is off.  Two togglers break this: both find Debug off.
OneDebugFile ==
  /\ \A o, p \in Files \cap LogList.on : o = p
  /\ ~Debug /\ (\A t \in Togglers : gpc[t] = "idle") => Files \cap LogList.on = {}

\* Every queued line, those about closed outputs included, reaches syslog.
LinesReachSyslog ==
  \A n \in 1 .. MaxLines + MaxFailures :
    (submitted >= n) ~> (Len(written[syslog]) >= n)
=============================================================================
