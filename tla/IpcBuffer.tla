----------------------------- MODULE IpcBuffer -----------------------------
(***************************************************************************)
(* The one static buffer of ipc_queue.c, through which the threads of the  *)
(* parent send and receive.  main receives FRAME_DONE and log lines and    *)
(* sends the next frame, the video thread logs the bad frames it meets,    *)
(* and no lock keeps them apart.                                           *)
(*                                                                         *)
(* A message is its type and the words at its start: first is childNum in  *)
(* a FrameDoneMsg_t, type in a ChildMsg_t and level in a LoggingItem_t;    *)
(* index stands for indexIn, which in a log line is part of a file name.   *)
(* There is always another frame, and the kernel's queue does not fill:    *)
(* what happens otherwise is in Pipeline.                                  *)
(***************************************************************************)
EXTENDS Integers, Sequences

CONSTANTS
  Children,       \* numbers of the children
  MaxDone,        \* bound: frames a child renders
  MaxBad          \* bound: bad frames the video thread logs

VARIABLES
  msg,            \* the buffer: mtype, first, index
  q,              \* the kernel's queue, oldest first
  mpc, childNum,  \* main: place, local variable
  shown,          \* history: index videoOut saved
  vpc, bads,      \* video thread in LogPrint: place; bad frames logged
  cpc, done       \* children: place, frames rendered

vars == <<msg, q, mpc, childNum, shown, vpc, bads, cpc, done>>

Q_MSG_LOG          == 5
Q_MSG_FRAME_DONE   == 6
Q_MSG_CLIENT_START == 7
CHILD_RENDER_FRAME == 2
LOG_CRIT           == 2

Slot == "slot"
Junk == "junk"

Init ==
  /\ msg = [mtype |-> Q_MSG_LOG, first |-> LOG_CRIT, index |-> Junk]
  /\ q = <<>>
  /\ mpc = "receive" /\ childNum = 0 /\ shown = Slot
  /\ vpc = "decode" /\ bads = 0
  /\ cpc = [c \in Children |-> "render"] /\ done = [c \in Children |-> 0]
-----------------------------------------------------------------------------
\* msgrcv: the first message of the lowest of the types that are wanted.
Chosen(wanted) ==
  {k \in DOMAIN q : /\ q[k].mtype \in wanted
                    /\ \A j \in DOMAIN q : q[j].mtype \in wanted =>
                         \/ q[j].mtype > q[k].mtype
                         \/ q[j].mtype = q[k].mtype /\ j >= k}

Without(k) == SubSeq(q, 1, k - 1) \o SubSeq(q, k + 1, Len(q))

\* queueReceive of main: the kernel fills the buffer.
Receive ==
  /\ mpc = "receive"
  /\ \E k \in Chosen(1 .. Q_MSG_FRAME_DONE) : msg' = q[k] /\ q' = Without(k)
  /\ mpc' = "switch"
  /\ UNCHANGED <<childNum, shown, vpc, bads, cpc, done>>

\* The type is read from the buffer.  LogShowLine hands a log line on.
Switch ==
  /\ mpc = "switch"
  /\ mpc' = IF msg.mtype = Q_MSG_FRAME_DONE THEN "done" ELSE "receive"
  /\ UNCHANGED <<msg, q, childNum, shown, vpc, bads, cpc, done>>

\* childNum, frameNum and indexIn are read, and videoOut saves the picture.
FrameDone ==
  /\ mpc = "done"
  /\ childNum' = msg.first /\ shown' = msg.index
  /\ mpc' = "finish"
  /\ UNCHANGED <<msg, q, vpc, bads, cpc, done>>

\* indexIn is read again for videoFinished.
Finish ==
  /\ mpc = "finish"
  /\ mpc' = "setType"
  /\ UNCHANGED <<msg, q, childNum, shown, vpc, bads, cpc, done>>

\* queueSendBinary in sendFrame, in three steps.
MainSetType ==
  /\ mpc = "setType"
  /\ msg' = [msg EXCEPT !.mtype = Q_MSG_CLIENT_START + childNum]
  /\ mpc' = "copy"
  /\ UNCHANGED <<q, childNum, shown, vpc, bads, cpc, done>>

MainCopy ==
  /\ mpc = "copy"
  /\ msg' = [msg EXCEPT !.first = CHILD_RENDER_FRAME, !.index = Slot]
  /\ mpc' = "send"
  /\ UNCHANGED <<q, childNum, shown, vpc, bads, cpc, done>>

MainSend ==
  /\ mpc = "send"
  /\ q' = Append(q, msg)
  /\ mpc' = "receive"
  /\ UNCHANGED <<msg, childNum, shown, vpc, bads, cpc, done>>

Main == Receive \/ Switch \/ FrameDone \/ Finish \/ MainSetType \/ MainCopy \/ MainSend
-----------------------------------------------------------------------------
\* getFrame meets a bad frame and logs it: LogIpcPrintLine, queueSendBinary.
BadFrame ==
  /\ vpc = "decode" /\ bads < MaxBad
  /\ bads' = bads + 1
  /\ vpc' = "setType"
  /\ UNCHANGED <<msg, q, mpc, childNum, shown, cpc, done>>

VideoSetType ==
  /\ vpc = "setType"
  /\ msg' = [msg EXCEPT !.mtype = Q_MSG_LOG]
  /\ vpc' = "copy"
  /\ UNCHANGED <<q, mpc, childNum, shown, bads, cpc, done>>

VideoCopy ==
  /\ vpc = "copy"
  /\ msg' = [msg EXCEPT !.first = LOG_CRIT, !.index = Junk]
  /\ vpc' = "send"
  /\ UNCHANGED <<q, mpc, childNum, shown, bads, cpc, done>>

VideoSend ==
  /\ vpc = "send"
  /\ q' = Append(q, msg)
  /\ vpc' = "decode"
  /\ UNCHANGED <<msg, mpc, childNum, shown, bads, cpc, done>>

LogPrint == VideoSetType \/ VideoCopy \/ VideoSend
-----------------------------------------------------------------------------
\* A child, with a buffer of its own, reports its frame and waits for another.
Render(c) ==
  /\ cpc[c] = "render" /\ done[c] < MaxDone
  /\ q' = Append(q, [mtype |-> Q_MSG_FRAME_DONE, first |-> c, index |-> Slot])
  /\ done' = [done EXCEPT ![c] = @ + 1]
  /\ cpc' = [cpc EXCEPT ![c] = "wait"]
  /\ UNCHANGED <<msg, mpc, childNum, shown, vpc, bads>>

\* A log line that comes as a client's message begins with LOG_CRIT, which is
\* CHILD_RENDER_FRAME.
NextFrame(c) ==
  /\ cpc[c] = "wait"
  /\ \E k \in Chosen({Q_MSG_CLIENT_START + c}) : q' = Without(k)
  /\ cpc' = [cpc EXCEPT ![c] = "render"]
  /\ UNCHANGED <<msg, mpc, childNum, shown, vpc, bads, done>>

Child(c) == Render(c) \/ NextFrame(c)
-----------------------------------------------------------------------------
Next == Main \/ BadFrame \/ LogPrint \/ \E c \in Children : Child(c)

\* Every thread and process is run; nothing makes a frame bad.
Spec ==
  /\ Init /\ [][Next]_vars
  /\ WF_vars(Main) /\ WF_vars(LogPrint)
  /\ \A c \in Children : WF_vars(Child(c))
-----------------------------------------------------------------------------
\* "Found bad frame, continuing": a child that has reported its frame is given
\* another, whatever the video thread logs meanwhile.
Continuing == \A c \in Children : cpc[c] = "wait" ~> cpc[c] = "render"

\* The slot videoFinished releases is the one videoOut saved.
OneSlotForBoth == mpc = "finish" => msg.index = shown
=============================================================================
