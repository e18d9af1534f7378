------------------------------ MODULE Pipeline ------------------------------
(***************************************************************************)
(* One run of gputrans from the start of the video thread to the exit of   *)
(* the parent: VideoInThread decodes frames into a ring of shared slots    *)
(* and queues them on ChildMsgQ, main hands them to the rendering children *)
(* over the System V message queue and writes out what they return.        *)
(*                                                                         *)
(* A picture is the number of the frame it shows, 0 if none.  ChildMsgQ is *)
(* the bounded sequence of module BoundedQueue, which module Queue         *)
(* implements.  Messages of one type leave the System V queue in order and *)
(* a receiver names the types it wants, so one sequence per type is kept;  *)
(* msgsnd is called with IPC_NOWAIT and its result is ignored, so a        *)
(* message that finds the queue full is lost.                              *)
(***************************************************************************)
EXTENDS Integers, Sequences, FiniteSets, FiniteSetsExt, Functions

CONSTANTS
  Children,       \* the rendering processes; numChildren of them
  maxFrames,      \* frames that fit a segment of shared memory
  NumFrames,      \* frames in the input file
  IpcCap,         \* messages the System V queue holds
  LogLines,       \* LOG messages each handler sends at most (0: logging left out)
  Mortal,         \* children whose card may fail
  Guards,         \* values the word before used[] may have
  Nobody          \* stands for no child

numChildren == Cardinality(Children)

MIN_FRAMEBUFFER == 10

\* Where lines are logged: the start of the run up to VIDEO_READY; main on READY,
\* on RENDER_READY and when it tells a child to exit; a child when it starts, on
\* CHILD_RENDER_MODE, on a frame and on its way out.
Phases == {"video", "ready", "renderReady", "marker", "init", "mode", "frame", "exit"}

\* initVideoIn ends the program if there is less.
ASSUME PipelineAssumption ==
  /\ IsFiniteSet(Children) /\ Children # {}
  /\ maxFrames \in Nat /\ maxFrames >= MIN_FRAMEBUFFER
  /\ NumFrames \in Nat /\ IpcCap \in Nat
  /\ LogLines \in [Phases -> Nat]
  /\ Mortal \subseteq Children
  /\ Guards \subseteq Nat /\ Guards # {}
  /\ Nobody \notin Children

VARIABLES
  used, headIn, tailIn,     \* the ring: reference counts and its two ends
  guard,                    \* used[-1], read while headIn is still -1
  frameIn, frameOut,        \* the pictures in the input and output slots
  vpc, frameNum,            \* VideoInThread
  ChildMsgQ,
  ipc,                      \* System V queue: per type, its messages in order
  ppc, cur, i, j,           \* main, and the locals of videoFinished
  cpc, picture, job,        \* children: place, picture on the GPU, frame message
  capable,                  \* cardInfo->have.NvFloat and .TextRect
  inFile, outFile           \* pictures saved as in/N.ppm and out/N.ppm

ringVars  == <<used, headIn, tailIn, guard>>
videoVars == <<vpc, frameNum>>
mainVars  == <<ppc, cur, i, j>>
childVars == <<cpc, picture, job, capable>>
fileVars  == <<inFile, outFile>>
vars == <<ringVars, frameIn, frameOut, videoVars, ChildMsgQ, ipc, mainVars, childVars, fileVars>>

\* The slots of the ring, and of the pictures that leave: half of the segment
\* each at most.
frameCountIn == Min({Max({numChildren + 6, MIN_FRAMEBUFFER}), maxFrames \div 2})

Slots  == 0 .. frameCountIn - 1
Frames == 1 .. NumFrames

\* QueueCreate rounds its argument up to a power of two.
Rounded(n) == CHOOSE p \in {2^k : k \in 0 .. 30} :
                p >= n /\ \A q \in {2^k : k \in 0 .. 30} : q >= n => p <= q

\* Mutant: the queue is sized after the ring instead of the children.
QueueCapOfRing == Rounded(frameCountIn) - 1

\* ChildMsgQ is created for numChildren * 2 items; one slot stays free.
QueueCap == Rounded(numChildren * 2) - 1

\* The frame number of the message that says the input has ended.
EndOfInput == -1
EndMsg == [frameNum |-> EndOfInput, indexIn |-> -1]

\* Message types main receives, most urgent first (the lowest type wins in a
\* receive for Q_MSG_ALL_SERVER).
ServerTypes == <<"READY", "VIDEO_READY", "RENDER_READY", "DYING_GASP", "LOG", "FRAME_DONE">>
Server == {ServerTypes[k] : k \in 1 .. Len(ServerTypes)}

\* Messages to a child have types of their own, from Q_MSG_CLIENT_START on.
ASSUME ClientTypes == Children \cap Server = {}

NoJob == [child |-> Nobody, frameNum |-> 0, indexIn |-> 0]

Jobs == [child : Children \cup {Nobody},
         frameNum : Frames \cup {0}, indexIn : Slots]

TypeOK ==
  /\ used \in [Slots -> Int] /\ headIn \in Slots \cup {-1} /\ tailIn \in Slots
  /\ guard \in Guards
  /\ frameIn \in [Slots -> Frames \cup {0}] /\ frameOut \in [Slots -> Frames \cup {0}]
  /\ vpc \in {"init", "check", "decode", "mark", "enqueue", "advance", "eof", "done"}
  /\ frameNum \in 0 .. NumFrames
  /\ ChildMsgQ \in Seq([frameNum : Frames, indexIn : Slots] \cup {EndMsg})
  /\ DOMAIN ipc = Server \cup Children
  /\ ppc \in {"start", "fork", "recv", "finish", "scan", "wrap",
             "next", "putBack", "videoIn", "exited"}
  /\ cur \in Jobs /\ i \in Slots \cup {-1} /\ j \in 0 .. frameCountIn
  /\ cpc \in [Children -> {"unborn", "init", "wait", "loaded", "exited"}]
  /\ picture \in [Children -> Frames \cup {0}] /\ job \in [Children -> Jobs]
  /\ capable \in [Children -> BOOLEAN]
  /\ inFile \in [Frames -> Frames \cup {0}] /\ outFile \in [Frames -> Frames \cup {0}]

Init ==
  /\ used = [s \in Slots |-> 0] /\ headIn = -1 /\ tailIn = 0 /\ guard \in Guards
  /\ frameIn = [s \in Slots |-> 0] /\ frameOut = [s \in Slots |-> 0]
  /\ vpc = "init" /\ frameNum = 0
  /\ ChildMsgQ = <<>>
  /\ ipc = [t \in Server \cup Children |-> <<>>]
  /\ ppc = "start" /\ cur = NoJob /\ i = 0 /\ j = 0
  /\ cpc = [c \in Children |-> "unborn"] /\ picture = [c \in Children |-> 0]
  /\ job = [c \in Children |-> NoJob] /\ capable = [c \in Children |-> FALSE]
  /\ inFile = [f \in Frames |-> 0] /\ outFile = [f \in Frames |-> 0]
-----------------------------------------------------------------------------
(***************************************************************************)
(* ipc_queue.c over the kernel's queue.  Operators on the value of ipc, so *)
(* that one step can receive, log and send.                                *)
(***************************************************************************)
Messages(q) == UNION {{t} \X DOMAIN q[t] : t \in DOMAIN q}
Pending(q)  == Cardinality(Messages(q))

\* queueSendBinary.
Post(q, type, msg) ==
  IF Pending(q) < IpcCap THEN [q EXCEPT ![type] = Append(@, msg)] ELSE q

\* queueReceive, of a type that has a message.
Rest(q, type) == [q EXCEPT ![type] = Tail(@)]

\* The numbers of lines a handler may log.  All it sends in one step also stands
\* for lines that main receives while the handler is still logging: those are
\* not there at its end.
Lines(phase) == 0 .. LogLines[phase]

\* LogPrint, n times: LOG messages to the parent, which is not always the sender,
\* as long as there is room.
Logged(q, n) ==
  [q EXCEPT !["LOG"] = @ \o [k \in 1 .. Min({n, IpcCap - Pending(q)}) |-> "line"]]

\* The type a receive for Q_MSG_ALL_SERVER returns.
Chosen(type) ==
  /\ ipc[type] # <<>>
  /\ LET rank(t) == CHOOSE k \in 1 .. Len(ServerTypes) : ServerTypes[k] = t
     IN  \A t \in Server : ipc[t] # <<>> => rank(type) <= rank(t)
-----------------------------------------------------------------------------
(***************************************************************************)
(* VideoInThread.                                                          *)
(***************************************************************************)
VideoStart ==
  /\ vpc = "init"
  /\ \E n \in Lines("video") : ipc' = Post(Logged(ipc, n), "VIDEO_READY", "ready")
  /\ vpc' = "check"
  /\ UNCHANGED <<ringVars, frameIn, frameOut, frameNum, ChildMsgQ, mainVars, childVars, fileVars>>

\* The sleep loop ends when the ring has room.
VideoCheck ==
  /\ vpc = "check" /\ (tailIn + 1) % frameCountIn # headIn
  /\ vpc' = "decode"
  /\ UNCHANGED <<ringVars, frameIn, frameOut, frameNum, ChildMsgQ, ipc, mainVars, childVars, fileVars>>

\* Mutant: pict has already moved on to the next slot.
DecodeIntoNextSlot ==
  /\ vpc = "decode"
  /\ \/ /\ frameNum < NumFrames
        /\ frameNum' = frameNum + 1
        /\ frameIn' = [frameIn EXCEPT ![(tailIn + 1) % frameCountIn] = frameNum + 1]
        /\ vpc' = "mark"
     \/ /\ frameNum = NumFrames
        /\ vpc' = "eof"
        /\ UNCHANGED <<frameNum, frameIn>>
  /\ UNCHANGED <<ringVars, frameOut, ChildMsgQ, ipc, mainVars, childVars, fileVars>>

\* getFrame fills the slot at tailIn, or there is nothing left to read.
VideoDecode ==
  /\ vpc = "decode"
  /\ \/ /\ frameNum < NumFrames
        /\ frameNum' = frameNum + 1
        /\ frameIn' = [frameIn EXCEPT ![tailIn] = frameNum + 1]
        /\ vpc' = "mark"
     \/ /\ frameNum = NumFrames
        /\ vpc' = "eof"
        /\ UNCHANGED <<frameNum, frameIn>>
  /\ UNCHANGED <<ringVars, frameOut, ChildMsgQ, ipc, mainVars, childVars, fileVars>>

VideoMark ==
  /\ vpc = "mark"
  /\ used' = [used EXCEPT ![tailIn] = 1]
  /\ vpc' = "enqueue"
  /\ UNCHANGED <<headIn, tailIn, guard, frameIn, frameOut, frameNum, ChildMsgQ, ipc, mainVars, childVars, fileVars>>

VideoEnqueue ==
  /\ vpc = "enqueue" /\ Len(ChildMsgQ) < QueueCap
  /\ ChildMsgQ' = Append(ChildMsgQ, [frameNum |-> frameNum, indexIn |-> tailIn])
  /\ vpc' = "advance"
  /\ UNCHANGED <<ringVars, frameIn, frameOut, frameNum, ipc, mainVars, childVars, fileVars>>

\* Mutant: tailIn is not wrapped.
AdvanceWithoutWrap ==
  /\ vpc = "advance"
  /\ tailIn' = tailIn + 1
  /\ vpc' = "check"
  /\ UNCHANGED <<used, headIn, guard, frameIn, frameOut, frameNum, ChildMsgQ, ipc, mainVars, childVars, fileVars>>

VideoAdvance ==
  /\ vpc = "advance"
  /\ tailIn' = (tailIn + 1) % frameCountIn
  /\ vpc' = "check"
  /\ UNCHANGED <<used, headIn, guard, frameIn, frameOut, frameNum, ChildMsgQ, ipc, mainVars, childVars, fileVars>>

\* Mutant: the thread ends without queueing the end marker.
EndWithoutMarker ==
  /\ vpc = "eof"
  /\ vpc' = "done"
  /\ UNCHANGED <<ringVars, frameIn, frameOut, frameNum, ChildMsgQ, ipc, mainVars, childVars, fileVars>>

VideoEnd ==
  /\ vpc = "eof" /\ Len(ChildMsgQ) < QueueCap
  /\ ChildMsgQ' = Append(ChildMsgQ, EndMsg)
  /\ vpc' = "done"
  /\ UNCHANGED <<ringVars, frameIn, frameOut, frameNum, ipc, mainVars, childVars, fileVars>>

VideoInThread ==
  /\ ppc # "exited"
  /\ \/ VideoStart \/ VideoCheck \/ VideoDecode \/ VideoMark
     \/ VideoEnqueue \/ VideoAdvance \/ VideoEnd
-----------------------------------------------------------------------------
(***************************************************************************)
(* main.                                                                   *)
(***************************************************************************)
AwaitVideo ==
  /\ ppc = "start" /\ ipc["VIDEO_READY"] # <<>>
  /\ ipc' = Rest(ipc, "VIDEO_READY")
  /\ ppc' = "fork"
  /\ UNCHANGED <<ringVars, frameIn, frameOut, videoVars, ChildMsgQ, cur, i, j, childVars, fileVars>>

Fork(c) ==
  /\ ppc = "fork" /\ cpc[c] = "unborn"
  /\ cpc' = [cpc EXCEPT ![c] = "init"]
  /\ ppc' = IF \E d \in Children \ {c} : cpc[d] = "unborn" THEN "fork" ELSE "recv"
  /\ UNCHANGED <<ringVars, frameIn, frameOut, videoVars, ChildMsgQ, ipc, cur, i, j,
                 picture, job, capable, fileVars>>

\* LOG goes to the local logging thread, a dying gasp is ignored.
OnOther(type) ==
  /\ ppc = "recv" /\ type \in {"LOG", "DYING_GASP"} /\ Chosen(type)
  /\ ipc' = Rest(ipc, type)
  /\ UNCHANGED <<ringVars, frameIn, frameOut, videoVars, ChildMsgQ, mainVars, childVars, fileVars>>

\* Mutant: no break, READY falls through to RENDER_READY.
ReadyFallsThrough ==
  /\ ppc = "recv" /\ Chosen("READY")
  /\ LET c == Head(ipc["READY"])
     IN  /\ \E n \in Lines("ready") :
              ipc' = Post(Logged(Rest(ipc, "READY"), n), c,
                          [type |-> IF capable[c] THEN "RENDER_MODE" ELSE "EXIT"])
         /\ cur' = [NoJob EXCEPT !.child = c]
  /\ ppc' = "next"
  /\ UNCHANGED <<ringVars, frameIn, frameOut, videoVars, ChildMsgQ, i, j, childVars, fileVars>>

OnReady ==
  /\ ppc = "recv" /\ Chosen("READY")
  /\ LET c == Head(ipc["READY"])
     IN  \E n \in Lines("ready") :
           ipc' = Post(Logged(Rest(ipc, "READY"), n), c,
                       [type |-> IF capable[c] THEN "RENDER_MODE" ELSE "EXIT"])
  /\ UNCHANGED <<ringVars, frameIn, frameOut, videoVars, ChildMsgQ, mainVars, childVars, fileVars>>

OnRenderReady ==
  /\ ppc = "recv" /\ Chosen("RENDER_READY")
  /\ cur' = [NoJob EXCEPT !.child = Head(ipc["RENDER_READY"])]
  /\ \E n \in Lines("renderReady") : ipc' = Logged(Rest(ipc, "RENDER_READY"), n)
  /\ ppc' = "next"
  /\ UNCHANGED <<ringVars, frameIn, frameOut, videoVars, ChildMsgQ, i, j, childVars, fileVars>>

\* videoOut saves the output slot; videoFinished is next.
OnFrameDone ==
  /\ ppc = "recv" /\ Chosen("FRAME_DONE")
  /\ cur' = Head(ipc["FRAME_DONE"])
  /\ ipc' = Rest(ipc, "FRAME_DONE")
  /\ outFile' = [outFile EXCEPT ![cur'.frameNum] = frameOut[cur'.indexIn]]
  /\ ppc' = "finish"
  /\ UNCHANGED <<ringVars, frameIn, frameOut, videoVars, ChildMsgQ, i, j, childVars, inFile>>

\* used[s], where s may be the -1 that headIn starts with.
UsedAt(u, s) == IF s = -1 THEN guard ELSE u[s]

\* Mutant: the slot released is the one at the head of the ring.
FinishedReleasesHead ==
  /\ ppc = "finish"
  /\ used' = [used EXCEPT ![headIn] = @ - 1]
  /\ i' = headIn /\ j' = 0
  /\ ppc' = IF UsedAt(used', headIn) # 0 THEN "next" ELSE "scan"
  /\ UNCHANGED <<headIn, tailIn, guard, frameIn, frameOut, videoVars, ChildMsgQ, ipc, cur, childVars, fileVars>>

\* videoFinished, up to its loop.
VideoFinished ==
  /\ ppc = "finish"
  /\ used' = [used EXCEPT ![cur.indexIn] = @ - 1]
  /\ i' = headIn /\ j' = 0
  /\ ppc' = IF UsedAt(used', headIn) # 0 THEN "next" ELSE "scan"
  /\ UNCHANGED <<headIn, tailIn, guard, frameIn, frameOut, videoVars, ChildMsgQ, ipc, cur, childVars, fileVars>>

\* Its loop, one slot a step, and the test after the loop.
VideoFinishedScan ==
  /\ ppc = "scan"
  /\ IF UsedAt(used, i) = 0
     THEN IF j < frameCountIn
          THEN /\ i' = (i + 1) % frameCountIn /\ j' = j + 1
               /\ UNCHANGED <<headIn, ppc>>
          ELSE ppc' = "wrap" /\ UNCHANGED <<headIn, i, j>>
     ELSE headIn' = i /\ ppc' = "next" /\ UNCHANGED <<i, j>>
  /\ UNCHANGED <<used, tailIn, guard, frameIn, frameOut, videoVars, ChildMsgQ, ipc, cur, childVars, fileVars>>

\* Mutant: the head is put one slot ahead of the tail.
WrapPastTail ==
  /\ ppc = "wrap"
  /\ headIn' = (tailIn + 1) % frameCountIn
  /\ ppc' = "next"
  /\ UNCHANGED <<used, tailIn, guard, frameIn, frameOut, videoVars, ChildMsgQ, ipc, cur, i, j, childVars, fileVars>>

\* No slot seen in use: headIn = tailIn, as tailIn is by now.
VideoFinishedWrap ==
  /\ ppc = "wrap"
  /\ headIn' = tailIn
  /\ ppc' = "next"
  /\ UNCHANGED <<used, tailIn, guard, frameIn, frameOut, videoVars, ChildMsgQ, ipc, cur, i, j, childVars, fileVars>>

\* Mutant: the newest frame is taken first.
NextFrameFromBack ==
  /\ ppc = "next" /\ ChildMsgQ # <<>>
  /\ LET msg == ChildMsgQ[Len(ChildMsgQ)]
     IN  \/ /\ msg.frameNum = EndOfInput
            /\ ppc' = "putBack"
            /\ UNCHANGED <<cur, ipc>>
         \/ /\ msg.frameNum # EndOfInput
            /\ cur' = [child |-> cur.child, frameNum |-> msg.frameNum, indexIn |-> msg.indexIn]
            /\ ipc' = Post(ipc, cur.child,
                           [type |-> "RENDER_FRAME", frameNum |-> msg.frameNum, indexIn |-> msg.indexIn])
            /\ ppc' = "videoIn"
  /\ ChildMsgQ' = SubSeq(ChildMsgQ, 1, Len(ChildMsgQ) - 1)
  /\ UNCHANGED <<ringVars, frameIn, frameOut, videoVars, i, j, childVars, fileVars>>

\* getNextFrame blocks while ChildMsgQ is empty; sendFrame passes a frame on.
NextFrame ==
  /\ ppc = "next" /\ ChildMsgQ # <<>>
  /\ LET msg == Head(ChildMsgQ)
     IN  \/ /\ msg.frameNum = EndOfInput
            /\ ppc' = "putBack"
            /\ UNCHANGED <<cur, ipc>>
         \/ /\ msg.frameNum # EndOfInput
            /\ cur' = [child |-> cur.child, frameNum |-> msg.frameNum, indexIn |-> msg.indexIn]
            /\ ipc' = Post(ipc, cur.child,
                           [type |-> "RENDER_FRAME", frameNum |-> msg.frameNum, indexIn |-> msg.indexIn])
            /\ ppc' = "videoIn"
  /\ ChildMsgQ' = Tail(ChildMsgQ)
  /\ UNCHANGED <<ringVars, frameIn, frameOut, videoVars, i, j, childVars, fileVars>>

\* Mutant: the end marker is thrown away.
MarkerNotPutBack ==
  /\ ppc = "putBack"
  /\ \E n \in Lines("marker") : ipc' = Post(Logged(ipc, n), cur.child, [type |-> "EXIT"])
  /\ ppc' = "recv" /\ cur' = NoJob
  /\ UNCHANGED <<ringVars, frameIn, frameOut, videoVars, ChildMsgQ, i, j, childVars, fileVars>>

\* The end marker goes back for the next child; this one is told to exit.
PutBack ==
  /\ ppc = "putBack" /\ Len(ChildMsgQ) < QueueCap
  /\ ChildMsgQ' = Append(ChildMsgQ, EndMsg)
  /\ \E n \in Lines("marker") : ipc' = Post(Logged(ipc, n), cur.child, [type |-> "EXIT"])
  /\ ppc' = "recv" /\ cur' = NoJob
  /\ UNCHANGED <<ringVars, frameIn, frameOut, videoVars, i, j, childVars, fileVars>>

VideoIn ==
  /\ ppc = "videoIn"
  /\ inFile' = [inFile EXCEPT ![cur.frameNum] = frameIn[cur.indexIn]]
  /\ ppc' = "recv" /\ cur' = NoJob
  /\ UNCHANGED <<ringVars, frameIn, frameOut, videoVars, ChildMsgQ, ipc, i, j, childVars, outFile>>

\* The SIGCHLD handler ends the parent, threads and all, with the last child.
ParentExit ==
  /\ ppc \notin {"start", "fork", "exited"} /\ \A c \in Children : cpc[c] = "exited"
  /\ ppc' = "exited"
  /\ UNCHANGED <<ringVars, frameIn, frameOut, videoVars, ChildMsgQ, ipc, cur, i, j, childVars, fileVars>>

Main ==
  \/ AwaitVideo \/ (\E c \in Children : Fork(c))
  \/ (\E type \in Server : OnOther(type))
  \/ OnReady \/ OnRenderReady \/ OnFrameDone
  \/ VideoFinished \/ VideoFinishedScan \/ VideoFinishedWrap
  \/ NextFrame \/ PutBack \/ VideoIn \/ ParentExit
-----------------------------------------------------------------------------
(***************************************************************************)
(* do_child.                                                               *)
(***************************************************************************)
ChildInit(c) ==
  /\ cpc[c] = "init"
  /\ \E able \in BOOLEAN : capable' = [capable EXCEPT ![c] = able]
  /\ \E n \in Lines("init") : ipc' = Post(Logged(ipc, n), "READY", c)
  /\ cpc' = [cpc EXCEPT ![c] = "wait"]
  /\ UNCHANGED <<ringVars, frameIn, frameOut, videoVars, ChildMsgQ, mainVars, picture, job, fileVars>>

Gets(c, type) == cpc[c] = "wait" /\ ipc[c] # <<>> /\ Head(ipc[c]).type = type

ChildRenderMode(c) ==
  /\ Gets(c, "RENDER_MODE")
  /\ \E n \in Lines("mode") : ipc' = Post(Logged(Rest(ipc, c), n), "RENDER_READY", c)
  /\ UNCHANGED <<ringVars, frameIn, frameOut, videoVars, ChildMsgQ, mainVars, childVars, fileVars>>

\* loadFrame uploads the input slot.
ChildLoad(c) ==
  /\ Gets(c, "RENDER_FRAME")
  /\ LET msg == Head(ipc[c])
     IN  /\ job' = [job EXCEPT ![c] = [child |-> c, frameNum |-> msg.frameNum, indexIn |-> msg.indexIn]]
         /\ picture' = [picture EXCEPT ![c] = frameIn[msg.indexIn]]
  /\ ipc' = Rest(ipc, c)
  /\ cpc' = [cpc EXCEPT ![c] = "loaded"]
  /\ UNCHANGED <<ringVars, frameIn, frameOut, videoVars, ChildMsgQ, mainVars, capable, fileVars>>

\* Mutant: the output slot is counted from one.
RenderIntoNextSlot(c) ==
  /\ cpc[c] = "loaded"
  /\ frameOut' = [frameOut EXCEPT ![(job[c].indexIn + 1) % frameCountIn] = picture[c]]
  /\ \E n \in Lines("frame") : ipc' = Post(Logged(ipc, n), "FRAME_DONE", job[c])
  /\ cpc' = [cpc EXCEPT ![c] = "wait"]
  /\ job' = [job EXCEPT ![c] = NoJob] /\ picture' = [picture EXCEPT ![c] = 0]
  /\ UNCHANGED <<ringVars, frameIn, videoVars, ChildMsgQ, mainVars, capable, fileVars>>

\* denoiseFrame, unloadFrame into the output slot, FRAME_DONE.
ChildRender(c) ==
  /\ cpc[c] = "loaded"
  /\ frameOut' = [frameOut EXCEPT ![job[c].indexIn] = picture[c]]
  /\ \E n \in Lines("frame") : ipc' = Post(Logged(ipc, n), "FRAME_DONE", job[c])
  /\ cpc' = [cpc EXCEPT ![c] = "wait"]
  /\ job' = [job EXCEPT ![c] = NoJob] /\ picture' = [picture EXCEPT ![c] = 0]
  /\ UNCHANGED <<ringVars, frameIn, videoVars, ChildMsgQ, mainVars, capable, fileVars>>

\* exit runs SoftExitChild.
ChildExit(c) ==
  /\ Gets(c, "EXIT")
  /\ \E n \in Lines("exit") : ipc' = Post(Logged(Rest(ipc, c), n), "DYING_GASP", c)
  /\ cpc' = [cpc EXCEPT ![c] = "exited"]
  /\ UNCHANGED <<ringVars, frameIn, frameOut, videoVars, ChildMsgQ, mainVars, picture, job, capable, fileVars>>

\* Cut short in a phase, and the lines of the way out on top of the phase's own.
LastWords(c, q, phase) ==
  \E n \in 0 .. LogLines[phase] + LogLines["exit"] : ipc' = Post(Logged(q, n), "DYING_GASP", c)

\* An OpenGL or Cg error ends the child through SoftExitChild: in cg_init, in
\* cg_enable, or with a frame, which nobody takes back.
ChildDie(c) ==
  /\ c \in Mortal
  /\ \/ cpc[c] = "init" /\ LastWords(c, ipc, "init")
     \/ cpc[c] = "loaded" /\ LastWords(c, ipc, "frame")
     \/ Gets(c, "RENDER_MODE") /\ LastWords(c, Rest(ipc, c), "mode")
  /\ cpc' = [cpc EXCEPT ![c] = "exited"]
  /\ UNCHANGED <<ringVars, frameIn, frameOut, videoVars, ChildMsgQ, mainVars, picture, job, capable, fileVars>>

Child(c) == \/ ChildInit(c) \/ ChildRenderMode(c) \/ ChildLoad(c)
            \/ ChildRender(c) \/ ChildExit(c) \/ ChildDie(c)
-----------------------------------------------------------------------------
\* The program has ended.
Ended == ppc = "exited" /\ UNCHANGED vars

Next == VideoInThread \/ Main \/ (\E c \in Children : Child(c)) \/ Ended

Spec == Init /\ [][Next]_vars

\* Every thread and process that can run is run in the end.
FairSpec == Spec /\ WF_vars(VideoInThread) /\ WF_vars(Main) /\ \A c \in Children : WF_vars(Child(c))
-----------------------------------------------------------------------------
\* Who is responsible for input slot s: a queued message, a child with a frame
\* message, a frame (dead or alive) or an unread FRAME_DONE, main before videoFinished, or the
\* video thread before it has queued the slot.
FrameMessages(c) == {m \in Range(ipc[c]) : m.type = "RENDER_FRAME"}

Holders(s) ==
       {<<"queued", k>> : k \in {k \in DOMAIN ChildMsgQ : ChildMsgQ[k].indexIn = s}}
  \cup {<<"child", c>> : c \in {c \in Children :
           \/ \E m \in FrameMessages(c) : m.indexIn = s
           \/ job[c].child = c /\ job[c].indexIn = s
           \/ \E m \in Range(ipc["FRAME_DONE"]) : m.child = c /\ m.indexIn = s
           \/ ppc = "finish" /\ cur.child = c /\ cur.indexIn = s}}
  \cup (IF vpc \in {"mark", "enqueue"} /\ tailIn = s THEN {<<"video">>} ELSE {})

\* No slot belongs to two frames at once: the video thread never decodes into
\* a slot whose frame is still queued, being rendered or waiting to be saved.
SlotHasOneOwner == \A s \in Slots : Cardinality(Holders(s)) <= 1

\* used[] counts exactly the slots that somebody is responsible for, so
\* videoFinished frees what is free and nothing else.
UsedCountsOwners ==
  \A s \in Slots : used[s] = Cardinality(Holders(s) \ (IF vpc = "mark" THEN {<<"video">>} ELSE {}))

\* Turn taking: every live child owes main one message or main owes it one,
\* never both, so the System V queue holds at most one of them per child.
Turns(c) ==
       {<<"works">> : x \in {x \in {c} : cpc[c] \in {"unborn", "init", "loaded", "exited"}}}
  \cup {<<"told", k>> : k \in DOMAIN ipc[c]}
  \cup {<<"ready", k>> : k \in {k \in DOMAIN ipc["READY"] : ipc["READY"][k] = c}}
  \cup {<<"renderReady", k>> : k \in {k \in DOMAIN ipc["RENDER_READY"] : ipc["RENDER_READY"][k] = c}}
  \cup {<<"done", k>> : k \in {k \in DOMAIN ipc["FRAME_DONE"] : ipc["FRAME_DONE"][k].child = c}}
  \cup {<<"served">> : x \in {x \in {c} : cur.child = c /\ ppc \in {"finish", "scan", "wrap", "next", "putBack"}}}

OneTurnEach == ppc # "exited" => \A c \in Children : Cardinality(Turns(c)) = 1

\* "Setup the current frame in the GPU": a child works on the picture of the
\* frame its message names.
LoadsItsFrame == \A c \in Children : cpc[c] = "loaded" => picture[c] = job[c].frameNum

\* Every saved file shows the frame it is named after.
FilesShowTheirFrame == \A f \in Frames : inFile[f] \in {0, f} /\ outFile[f] \in {0, f}

\* Frames are handed out in the order of the input, and no child has more than
\* one: all frames up to the latest are out, all but one per child saved.
DispatchedInOrder ==
  LET given == {f \in Frames : inFile[f] # 0}
  IN  /\ \A f \in given : 1 .. f \subseteq given
      /\ Cardinality({f \in given : outFile[f] = 0}) <= numChildren

\* VideoInThread finds the ring or ChildMsgQ full, or has ended.
VideoWaits ==
  \/ vpc = "check" /\ (tailIn + 1) % frameCountIn = headIn
  \/ vpc \in {"enqueue", "eof"} /\ Len(ChildMsgQ) = QueueCap
  \/ vpc = "done"

\* main finds no message, ChildMsgQ empty, or no place in it for the marker.
MainWaits ==
  \/ ppc = "start" /\ ipc["VIDEO_READY"] = <<>>
  \/ ppc = "recv" /\ \A type \in Server : ipc[type] = <<>>
  \/ ppc = "next" /\ ChildMsgQ = <<>>
  \/ ppc = "putBack" /\ Len(ChildMsgQ) = QueueCap

\* A child finds no message, or is not there.
ChildWaits(c) == cpc[c] \in {"unborn", "exited"} \/ (cpc[c] = "wait" /\ ipc[c] = <<>>)

AllWait ==
  /\ VideoWaits /\ MainWaits /\ \A c \in Children : ChildWaits(c)
  /\ \E c \in Children : cpc[c] # "exited"

\* While a child is left, it is never so that everyone waits for someone else.
NeverAllWait == ~AllWait

\* If everyone waits, main is in getNextFrame, which finds ChildMsgQ empty, and
\* the video thread waits for a slot that only main can free.
StopsOnlyAtTheRing == AllWait => ppc = "next" /\ ChildMsgQ = <<>> /\ vpc = "check"

\* The run ends.  If a card that could render did not fail, every frame is
\* saved but those a failing card took with it.
Completes ==
  <>[](/\ ppc = "exited"
       /\ (\E c \in Children \ Mortal : capable[c]) =>
            \A f \in Frames :
              \/ outFile[f] # 0
              \/ \E c \in Mortal : job[c].child = c /\ job[c].frameNum = f)

\* "No more frames, put this back for the next client": every child that is
\* waiting for its next frame when the input ends is told to exit.
EveryClientIsTold == \A c \in Children : (cpc[c] = "wait") ~> (cpc[c] # "wait")
=============================================================================
