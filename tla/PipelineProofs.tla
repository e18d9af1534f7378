--------------------------- MODULE PipelineProofs ---------------------------
(***************************************************************************)
(* Theorems about module Pipeline, for any number of children, frames and  *)
(* slots.                                                                  *)
(***************************************************************************)
EXTENDS Pipeline, ProofLemmas

Channels == Server \cup Children

ToChild == [type : {"RENDER_MODE", "EXIT"}]
           \cup [type : {"RENDER_FRAME"}, frameNum : Frames, indexIn : Slots]

FrameJobs == [child : Children, frameNum : Frames, indexIn : Slots]

\* What the messages of each type carry.
Content(t) ==
  IF t \in Children THEN ToChild
  ELSE IF t = "FRAME_DONE" THEN FrameJobs
  ELSE IF t \in {"READY", "RENDER_READY", "DYING_GASP"} THEN Children
  ELSE {"ready", "line"}

IpcTypes(q) == DOMAIN q = Channels /\ \A t \in Channels : q[t] \in Seq(Content(t))

\* The places of main at which it handles the message of a child.
Serving == {"finish", "scan", "wrap", "next", "putBack"}

\* What main and the children work on is a frame of a child.
WorkTypes ==
  /\ \A c \in Children : cpc[c] = "loaded" => job[c] \in FrameJobs /\ job[c].child = c
  /\ ppc \in Serving \cup {"videoIn"} => cur.child \in Children
  /\ ppc \in {"finish", "videoIn"} => cur.frameNum \in Frames
  /\ vpc \in {"mark", "enqueue"} => frameNum >= 1

TypeInv == TypeOK /\ IpcTypes(ipc) /\ WorkTypes
-----------------------------------------------------------------------------
\* The child a message is from, or to.
Owner(t, m) == IF t \in Children THEN t
               ELSE IF t = "FRAME_DONE" THEN m.child
               ELSE IF t \in {"READY", "RENDER_READY", "DYING_GASP"} THEN m
               ELSE Nobody

From(q, t, c) == \E k \in 1 .. Len(q[t]) : Owner(t, q[t][k]) = c

NoTwo(q, t) == \A h, k \in 1 .. Len(q[t]) : Owner(t, q[t][h]) = Owner(t, q[t][k]) => h = k

Told(q, c, type) == \E k \in 1 .. Len(q[c]) : q[c][k].type = type

Served(c) == cur.child = c /\ ppc \in Serving

\* Where a child's turn may be: with the child, with main, or in a message.
Places == {"works", "served", "told", "READY", "RENDER_READY", "FRAME_DONE"}

At(c, place) == IF place = "works" THEN cpc[c] # "wait"
                ELSE IF place = "served" THEN Served(c)
                ELSE IF place = "told" THEN From(ipc, c, c)
                ELSE From(ipc, place, c)

OneTurn(c) == \E place \in Places : \A other \in Places : At(c, other) <=> other = place

NoTwoFrom(q) == \A t \in Channels \ {"LOG"} : NoTwo(q, t)

TurnInv ==
  /\ NoTwoFrom(ipc)
  /\ \A c \in Children : OneTurn(c)
  /\ \A c \in Children : From(ipc, "DYING_GASP", c) => cpc[c] = "exited"
  /\ vpc = "init" => ~From(ipc, "VIDEO_READY", Nobody)

\* How far a child has come, and main on its behalf.
Left(c) ==
  IF cpc[c] \in {"unborn", "init"} THEN 7
  ELSE IF cpc[c] = "exited" THEN 0
  ELSE IF From(ipc, "READY", c) THEN 6
  ELSE IF Told(ipc, c, "RENDER_MODE") THEN 5
  ELSE IF From(ipc, "RENDER_READY", c) THEN 4
  ELSE IF cpc[c] = "loaded" \/ Served(c) \/ Told(ipc, c, "RENDER_FRAME") THEN 3
  ELSE IF From(ipc, "FRAME_DONE", c) THEN 2
  ELSE 1

\* The log messages that may still come, if that much is left, before main has to
\* empty the queue of them.
Weight(left) ==
  (IF left >= 1 THEN LogLines["exit"] ELSE 0)
  + (IF left >= 3 THEN LogLines["frame"] + LogLines["marker"] ELSE 0)
  + (IF left >= 4 THEN LogLines["renderReady"] ELSE 0)
  + (IF left >= 5 THEN LogLines["mode"] ELSE 0)
  + (IF left >= 6 THEN LogLines["ready"] ELSE 0)
  + (IF left >= 7 THEN LogLines["init"] ELSE 0)

PerChild == Weight(7)

LinesLeft == {x \in Children \X (1 .. PerChild) : x[2] <= Weight(Left(x[1]))}

\* A child comes no nearer to its beginning.
LeftLater == \A c \in Children : Left(c)' <= Left(c) \/ Left(c)' <= 3

Budget == Cardinality(LinesLeft) + IF vpc = "init" THEN LogLines["video"] ELSE 0

MostLines == numChildren * PerChild + LogLines["video"]

LogInv == Len(ipc["LOG"]) + Budget <= MostLines

\* There is room for all of them, and for a message after them.
Room == Pending(ipc) + 1 + Budget <= IpcCap
-----------------------------------------------------------------------------
In(q, t) == {q[t][k] : k \in 1 .. Len(q[t])}

FramesTo(q, c) == {m \in In(q, c) : m.type = "RENDER_FRAME"}

\* The frames saved as in/N.ppm, and with them the one that main has just passed
\* to a child.
Given == {f \in Frames : inFile[f] # 0}
Sent  == Given \cup (IF ppc = "videoIn" THEN {cur.frameNum} ELSE {})

\* The frames the video thread has queued, and whether the end marker is there.
Queued == IF vpc \in {"mark", "enqueue"} THEN frameNum - 1 ELSE frameNum
Marked == \E k \in 1 .. Len(ChildMsgQ) : ChildMsgQ[k] = EndMsg

\* ChildMsgQ holds the frames that follow frame a, in order, as far as the video
\* thread has come, and the end marker after the last of them.
Follows(a) ==
  /\ ppc = "videoIn" => cur.frameNum = a
  /\ ppc = "putBack" => ChildMsgQ = <<>> /\ vpc = "done"
  /\ \A k \in 1 .. Len(ChildMsgQ) :
       IF ChildMsgQ[k] = EndMsg THEN k = Len(ChildMsgQ) /\ vpc = "done"
       ELSE ChildMsgQ[k].frameNum = a + k
  /\ Queued = a + Len(ChildMsgQ) - (IF Marked THEN 1 ELSE 0)

OrderInv ==
  \E g \in 0 .. NumFrames :
    /\ Given = 1 .. g
    /\ ppc # "exited" => Follows(g + (IF ppc = "videoIn" THEN 1 ELSE 0))

\* No frame that is under way is blank.
InputFilled ==
  /\ vpc \in {"mark", "enqueue"} => frameIn[tailIn] # 0
  /\ \A k \in 1 .. Len(ChildMsgQ) : ChildMsgQ[k] # EndMsg => frameIn[ChildMsgQ[k].indexIn] # 0
  /\ ppc = "videoIn" => frameIn[cur.indexIn] # 0

OutputFilled ==
  /\ \A c \in Children :
       /\ \A m \in In(ipc, c) : m.type = "RENDER_FRAME" => frameIn[m.indexIn] # 0
       /\ cpc[c] = "loaded" => picture[c] # 0
  /\ \A m \in In(ipc, "FRAME_DONE") : frameOut[m.indexIn] # 0

\* Child c has frame f: in a message to it, on its card, or in its answer.
Holds(c, f) ==
  \/ \E m \in In(ipc, c) : m.type = "RENDER_FRAME" /\ m.frameNum = f
  \/ job[c].child = c /\ job[c].frameNum = f
  \/ \E m \in In(ipc, "FRAME_DONE") : m.child = c /\ m.frameNum = f

HeldInv ==
  /\ \A c \in Children : cpc[c] \notin {"loaded", "exited"} => job[c] = NoJob
  /\ \A f \in Sent : outFile[f] = 0 => \E c \in Children : Holds(c, f)
-----------------------------------------------------------------------------
(***************************************************************************)
(* The ring of a run with one card.  Frame f is decoded into slot          *)
(* SlotOf(f).  Frame a, the last that main has given out, is the only one  *)
(* that may be under way; frame a + 1 may be queued and one more decoded.  *)
(***************************************************************************)
SlotOf(f) == (f - 1) % frameCountIn

\* The frames that tailIn has gone past.
Advanced == IF vpc \in {"mark", "enqueue", "advance"} THEN frameNum - 1 ELSE frameNum

FrameMsg(f) == [frameNum |-> f, indexIn |-> SlotOf(f)]

\* ChildMsgQ has one place.
Line(a) ==
  \/ ChildMsgQ = <<>> /\ Queued = a
  \/ ChildMsgQ = <<EndMsg>> /\ Queued = a /\ vpc = "done"
  \/ ChildMsgQ = <<FrameMsg(a + 1)>> /\ Queued = a + 1 /\ frameIn[SlotOf(a + 1)] = a + 1

TailInv ==
  /\ tailIn = SlotOf(Advanced + 1)
  /\ vpc \in {"mark", "enqueue"} => frameIn[tailIn] = frameNum
  /\ vpc = "advance" => frameNum >= 1
  /\ ppc = "putBack" => vpc = "done"

\* A message about frame a.
About(m, a) == m.frameNum = a /\ m.indexIn = SlotOf(a)

\* Frame a has not been given back.
Out ==
  \/ \E c \in Children : FramesTo(ipc, c) # {} \/ job[c].child = c
  \/ In(ipc, "FRAME_DONE") # {}
  \/ ppc = "finish"

OutInv(a) ==
  /\ \A c \in Children :
       /\ \A m \in FramesTo(ipc, c) : About(m, a)
       /\ job[c].child = c => About(job[c], a)
       /\ cpc[c] = "loaded" => picture[c] = a
  /\ \A m \in In(ipc, "FRAME_DONE") : About(m, a) /\ frameOut[SlotOf(a)] = a
  /\ ppc \in {"finish", "videoIn"} => About(cur, a)
  /\ Out \/ ppc = "videoIn" => a >= 1
  /\ a >= 1 => frameIn[SlotOf(a)] = a

InUse(a, s) ==
  \/ Out /\ s = SlotOf(a)
  \/ ChildMsgQ = <<FrameMsg(a + 1)>> /\ s = SlotOf(a + 1)
  \/ vpc = "enqueue" /\ s = tailIn

UsedInv(a) == \A s \in Slots : used[s] = IF InUse(a, s) THEN 1 ELSE 0

RingInv ==
  /\ TailInv
  /\ \E a \in 0 .. NumFrames : Line(a) /\ OutInv(a) /\ UsedInv(a)
-----------------------------------------------------------------------------
\* The number of children, and the size of the ring.
LEMMA RingSize ==
  /\ numChildren \in Nat \ {0}
  /\ frameCountIn \in Nat /\ frameCountIn >= 5 /\ frameCountIn <= maxFrames \div 2
<1>1. numChildren \in Nat /\ numChildren # 0
  BY PipelineAssumption, FS_CardinalityType, FS_EmptySet DEF numChildren
<1> DEFINE a == Max({numChildren + 6, MIN_FRAMEBUFFER})
           b == maxFrames \div 2
<1>2. a \in {numChildren + 6, MIN_FRAMEBUFFER} /\ a >= MIN_FRAMEBUFFER
  <2>1. \E x \in {numChildren + 6, MIN_FRAMEBUFFER} :
          \A y \in {numChildren + 6, MIN_FRAMEBUFFER} : x >= y
    BY <1>1 DEF MIN_FRAMEBUFFER
  <2> QED
    BY <2>1 DEF Max
<1>3. a \in Nat /\ a >= 10 /\ b \in Nat /\ b >= 5
  BY <1>1, <1>2, PipelineAssumption DEF MIN_FRAMEBUFFER
<1> HIDE DEF a, b
<1>4. frameCountIn \in {a, b} /\ frameCountIn <= b
  <2>1. \E x \in {a, b} : \A y \in {a, b} : x <= y
    BY <1>3
  <2>2. Min({a, b}) \in {a, b} /\ Min({a, b}) <= b
    BY <2>1 DEF Min
  <2> QED
    BY <2>2 DEF frameCountIn, a, b
<1> QED
  BY <1>1, <1>3, <1>4 DEF b

\* The message types.
LEMMA ServerNames ==
  /\ Server = {"READY", "VIDEO_READY", "RENDER_READY", "DYING_GASP", "LOG", "FRAME_DONE"}
  /\ Children \cap Server = {}
BY ClientTypes DEF Server, ServerTypes

\* The places of the children and the message types, in every state that has
\* its types.
LEMMA PlacesAndNames ==
  ASSUME TypeInv
  PROVE  /\ cpc \in [Children -> {"unborn", "init", "wait", "loaded", "exited"}]
         /\ \A c \in Children : c \notin Server
         /\ Server = {"READY", "VIDEO_READY", "RENDER_READY", "DYING_GASP", "LOG", "FRAME_DONE"}
         /\ Channels = Server \cup Children
         /\ Nobody \notin Children
<1>1. cpc \in [Children -> {"unborn", "init", "wait", "loaded", "exited"}]
  BY DEF TypeInv, TypeOK
<1>2. \A c \in Children : c \notin Server
  BY ServerNames
<1>3. Nobody \notin Children
  BY PipelineAssumption
<1>4. /\ Server = {"READY", "VIDEO_READY", "RENDER_READY", "DYING_GASP", "LOG", "FRAME_DONE"}
      /\ Channels = Server \cup Children
  BY ServerNames DEF Channels
<1> QED
  BY <1>1, <1>2, <1>3, <1>4

\* A message that is sent finds room or is lost; both keep the types.
LEMMA PostTypes ==
  ASSUME NEW q, IpcTypes(q), NEW t \in Channels, NEW m \in Content(t)
  PROVE  IpcTypes(Post(q, t, m))
<1>1. q[t] \in Seq(Content(t)) /\ DOMAIN q = Channels
  BY DEF IpcTypes
<1>2. Append(q[t], m) \in Seq(Content(t))
  BY <1>1, AppendProperties
<1> QED
  BY <1>1, <1>2 DEF IpcTypes, Post

\* The queue holds finitely many messages.
LEMMA MessagesFinite ==
  ASSUME NEW q, IpcTypes(q)
  PROVE  IsFiniteSet(Messages(q)) /\ Pending(q) \in Nat
<1> DEFINE part(t) == {t} \X DOMAIN q[t]
           f == [t \in Channels |-> part(t)]
           parts == {part(t) : t \in Channels}
<1>1. IsFiniteSet(Channels)
  <2>1. IsFiniteSet({"READY", "VIDEO_READY", "RENDER_READY", "DYING_GASP", "LOG", "FRAME_DONE"})
    <3>1. IsFiniteSet({"READY"})
      BY FS_Singleton
    <3>2. IsFiniteSet({"READY"} \cup {"VIDEO_READY"})
      BY <3>1, FS_AddElement
    <3>3. IsFiniteSet({"READY"} \cup {"VIDEO_READY"} \cup {"RENDER_READY"})
      BY <3>2, FS_AddElement
    <3>4. IsFiniteSet({"READY"} \cup {"VIDEO_READY"} \cup {"RENDER_READY"} \cup {"DYING_GASP"})
      BY <3>3, FS_AddElement
    <3>5. IsFiniteSet({"READY"} \cup {"VIDEO_READY"} \cup {"RENDER_READY"} \cup {"DYING_GASP"}
                      \cup {"LOG"})
      BY <3>4, FS_AddElement
    <3>6. IsFiniteSet({"READY"} \cup {"VIDEO_READY"} \cup {"RENDER_READY"} \cup {"DYING_GASP"}
                      \cup {"LOG"} \cup {"FRAME_DONE"})
      BY <3>5, FS_AddElement
    <3>7. {"READY"} \cup {"VIDEO_READY"} \cup {"RENDER_READY"} \cup {"DYING_GASP"}
            \cup {"LOG"} \cup {"FRAME_DONE"} =
          {"READY", "VIDEO_READY", "RENDER_READY", "DYING_GASP", "LOG", "FRAME_DONE"}
      OBVIOUS
    <3> QED
      BY <3>6, <3>7
  <2> QED
    BY <2>1, ServerNames, PipelineAssumption, FS_Union DEF Channels
<1>2. f \in Surjection(Channels, parts)
  BY DEF Surjection
<1>3. IsFiniteSet(parts)
  BY <1>1, <1>2, FS_Surjection
<1>4. ASSUME NEW t \in Channels PROVE IsFiniteSet(part(t))
  <2>1. DOMAIN q[t] = 1 .. Len(q[t]) /\ Len(q[t]) \in Nat
    BY DEF IpcTypes
  <2>2. IsFiniteSet(DOMAIN q[t])
    BY <2>1, FS_Interval
  <2> QED
    BY <2>2, FS_Singleton, FS_Product
<1>5. IsFiniteSet(UNION parts)
  <2>1. \A T \in parts : IsFiniteSet(T)
    BY <1>4
  <2> HIDE DEF parts
  <2> QED
    BY <1>3, <2>1, FS_UNION
<1>6. Messages(q) = UNION parts
  BY DEF Messages, IpcTypes
<1> QED
  BY <1>5, <1>6, FS_CardinalityType DEF Pending

\* The lines that each handler may log.
LEMMA PhaseLines ==
  /\ \A phase \in Phases : LogLines[phase] \in Nat /\ Lines(phase) \subseteq Nat
  /\ Phases = {"video", "ready", "renderReady", "marker", "init", "mode", "frame", "exit"}
BY PipelineAssumption DEF Lines, Phases

\* The log grows by what is logged, as far as there is room.
LEMMA LoggedIs ==
  ASSUME NEW q, IpcTypes(q), NEW n \in Nat
  PROVE  \E k \in 0 .. n :
           /\ [h \in 1 .. k |-> "line"] \in Seq(Content("LOG"))
           /\ Len([h \in 1 .. k |-> "line"]) = k
           /\ Logged(q, n) = [q EXCEPT !["LOG"] = q["LOG"] \o [h \in 1 .. k |-> "line"]]
           /\ Pending(q) + n <= IpcCap => k = n
<1> DEFINE m == Min({n, IpcCap - Pending(q)})
           k == IF m < 0 THEN 0 ELSE m
<1>1. Pending(q) \in Nat /\ IpcCap \in Nat
  BY MessagesFinite, PipelineAssumption
<1>2. m \in {n, IpcCap - Pending(q)} /\ m <= n /\ m <= IpcCap - Pending(q)
  <2>1. \E x \in {n, IpcCap - Pending(q)} : \A y \in {n, IpcCap - Pending(q)} : x <= y
    BY <1>1
  <2>2. PICK x \in {n, IpcCap - Pending(q)} :
          x = m /\ \A y \in {n, IpcCap - Pending(q)} : x <= y
    BY <2>1 DEF Min
  <2> HIDE DEF m
  <2> QED
    BY <2>2
<1>3. Logged(q, n) = [q EXCEPT !["LOG"] = q["LOG"] \o [h \in 1 .. m |-> "line"]]
  BY DEF Logged
<1> HIDE DEF m
<1>4. k \in 0 .. n /\ 1 .. k = 1 .. m /\ (Pending(q) + n <= IpcCap => k = n)
  BY <1>1, <1>2
<1>5. [h \in 1 .. m |-> "line"] = [h \in 1 .. k |-> "line"]
  BY <1>4
<1>6. "line" \in Content("LOG")
  BY ServerNames DEF Content
<1> HIDE DEF k
<1>7. /\ [h \in 1 .. k |-> "line"] \in Seq(Content("LOG"))
      /\ Len([h \in 1 .. k |-> "line"]) = k
  BY <1>4, <1>6
<1> QED
  BY <1>3, <1>4, <1>5, <1>7

LEMMA LoggedTypes ==
  ASSUME NEW q, IpcTypes(q), NEW n \in Nat
  PROVE  IpcTypes(Logged(q, n))
<1> DEFINE line(k) == [h \in 1 .. k |-> "line"]
<1>1. PICK k \in 0 .. n :
        /\ line(k) \in Seq(Content("LOG"))
        /\ Logged(q, n) = [q EXCEPT !["LOG"] = q["LOG"] \o line(k)]
  BY LoggedIs
<1> HIDE DEF line
<1>2. q["LOG"] \in Seq(Content("LOG")) /\ DOMAIN q = Channels
  BY ServerNames DEF IpcTypes, Channels
<1>3. q["LOG"] \o line(k) \in Seq(Content("LOG"))
  BY <1>1, <1>2, ConcatProperties
<1> QED
  BY <1>1, <1>2, <1>3 DEF IpcTypes

\* A handler logs so many lines at most, and sends a message.
Says(q, most, t, m) == \E n \in Nat : n <= most /\ ipc' = Post(Logged(q, n), t, m)

LEMMA SaysTypes ==
  ASSUME NEW q, IpcTypes(q), NEW most, NEW t \in Channels, NEW m \in Content(t),
         Says(q, most, t, m)
  PROVE  IpcTypes(ipc')
<1>1. PICK n \in Nat : ipc' = Post(Logged(q, n), t, m)
  BY DEF Says
<1>2. IpcTypes(Logged(q, n))
  BY LoggedTypes
<1> QED
  BY <1>1, <1>2, PostTypes

LEMMA ChildSays ==
  ASSUME NEW c
  PROVE  /\ ChildInit(c) => Says(ipc, LogLines["init"], "READY", c)
         /\ ChildRenderMode(c) => Says(Rest(ipc, c), LogLines["mode"], "RENDER_READY", c)
         /\ ChildRender(c) => Says(ipc, LogLines["frame"], "FRAME_DONE", job[c])
         /\ ChildExit(c) => Says(Rest(ipc, c), LogLines["exit"], "DYING_GASP", c)
         /\ ChildDie(c) =>
              \/ cpc[c] = "init" /\ Says(ipc, LogLines["init"] + LogLines["exit"], "DYING_GASP", c)
              \/ cpc[c] = "loaded" /\ Says(ipc, LogLines["frame"] + LogLines["exit"], "DYING_GASP", c)
              \/ Gets(c, "RENDER_MODE")
                 /\ Says(Rest(ipc, c), LogLines["mode"] + LogLines["exit"], "DYING_GASP", c)
<1>1. \A phase \in Phases : \A n \in Lines(phase) : n \in Nat /\ n <= LogLines[phase]
  BY PhaseLines DEF Lines
<1>2. {"init", "mode", "frame", "exit"} \subseteq Phases
  BY PhaseLines
<1>3. ASSUME NEW phase \in Phases, NEW q, LastWords(c, q, phase)
      PROVE  Says(q, LogLines[phase] + LogLines["exit"], "DYING_GASP", c)
  <2>1. LogLines[phase] \in Nat /\ LogLines["exit"] \in Nat
    BY PhaseLines
  <2>2. \A n \in 0 .. LogLines[phase] + LogLines["exit"] :
          n \in Nat /\ n <= LogLines[phase] + LogLines["exit"]
    BY <2>1
  <2> QED
    BY <1>3, <2>2 DEF LastWords, Says
<1>4. ASSUME ChildInit(c) PROVE Says(ipc, LogLines["init"], "READY", c)
  BY <1>1, <1>2, <1>4 DEF ChildInit, Says
<1>5. ASSUME ChildRenderMode(c) PROVE Says(Rest(ipc, c), LogLines["mode"], "RENDER_READY", c)
  BY <1>1, <1>2, <1>5 DEF ChildRenderMode, Says
<1>6. ASSUME ChildRender(c) PROVE Says(ipc, LogLines["frame"], "FRAME_DONE", job[c])
  BY <1>1, <1>2, <1>6 DEF ChildRender, Says
<1>7. ASSUME ChildExit(c) PROVE Says(Rest(ipc, c), LogLines["exit"], "DYING_GASP", c)
  BY <1>1, <1>2, <1>7 DEF ChildExit, Says
<1>8. ASSUME ChildDie(c)
      PROVE  \/ cpc[c] = "init" /\ Says(ipc, LogLines["init"] + LogLines["exit"], "DYING_GASP", c)
             \/ cpc[c] = "loaded" /\ Says(ipc, LogLines["frame"] + LogLines["exit"], "DYING_GASP", c)
             \/ Gets(c, "RENDER_MODE")
                /\ Says(Rest(ipc, c), LogLines["mode"] + LogLines["exit"], "DYING_GASP", c)
  <2>1. \/ cpc[c] = "init" /\ LastWords(c, ipc, "init")
        \/ cpc[c] = "loaded" /\ LastWords(c, ipc, "frame")
        \/ Gets(c, "RENDER_MODE") /\ LastWords(c, Rest(ipc, c), "mode")
    BY <1>8 DEF ChildDie
  <2> QED
    BY <1>2, <1>3, <2>1
<1> QED
  BY <1>4, <1>5, <1>6, <1>7, <1>8

LEMMA ServerSays ==
  /\ VideoStart => Says(ipc, LogLines["video"], "VIDEO_READY", "ready")
  /\ OnReady => LET c == Head(ipc["READY"])
                IN  Says(Rest(ipc, "READY"), LogLines["ready"], c,
                         [type |-> IF capable[c] THEN "RENDER_MODE" ELSE "EXIT"])
  /\ OnRenderReady => \E n \in Nat : /\ n <= LogLines["renderReady"]
                                     /\ ipc' = Logged(Rest(ipc, "RENDER_READY"), n)
  /\ PutBack => Says(ipc, LogLines["marker"], cur.child, [type |-> "EXIT"])
<1>1. \A phase \in Phases : \A n \in Lines(phase) : n \in Nat /\ n <= LogLines[phase]
  BY PhaseLines DEF Lines
<1>2. {"video", "ready", "renderReady", "marker"} \subseteq Phases
  BY PhaseLines
<1>3. ASSUME VideoStart PROVE Says(ipc, LogLines["video"], "VIDEO_READY", "ready")
  BY <1>1, <1>2, <1>3 DEF VideoStart, Says
<1>4. ASSUME OnReady
      PROVE  LET c == Head(ipc["READY"])
             IN  Says(Rest(ipc, "READY"), LogLines["ready"], c,
                      [type |-> IF capable[c] THEN "RENDER_MODE" ELSE "EXIT"])
  BY <1>1, <1>2, <1>4 DEF OnReady, Says
<1>5. ASSUME OnRenderReady
      PROVE  \E n \in Nat : /\ n <= LogLines["renderReady"]
                            /\ ipc' = Logged(Rest(ipc, "RENDER_READY"), n)
  BY <1>1, <1>2, <1>5 DEF OnRenderReady
<1>6. ASSUME PutBack PROVE Says(ipc, LogLines["marker"], cur.child, [type |-> "EXIT"])
  BY <1>1, <1>2, <1>6 DEF PutBack, Says
<1> QED
  BY <1>3, <1>4, <1>5, <1>6

LEMMA RestTypes ==
  ASSUME NEW q, IpcTypes(q), NEW t \in Channels, q[t] # <<>>
  PROVE  IpcTypes(Rest(q, t)) /\ Head(q[t]) \in Content(t)
<1>1. q[t] \in Seq(Content(t)) /\ DOMAIN q = Channels
  BY DEF IpcTypes
<1>2. Tail(q[t]) \in Seq(Content(t)) /\ Head(q[t]) \in Content(t)
  BY <1>1, HeadTailProperties
<1> QED
  BY <1>1, <1>2 DEF IpcTypes, Rest

\* The ring's indices stay in the ring.
LEMMA NextSlot ==
  ASSUME NEW s \in Slots \cup {-1}
  PROVE  (s + 1) % frameCountIn \in Slots
BY RingSize DEF Slots

LEMMA TypeInit == Init => TypeInv
<1> SUFFICES ASSUME Init PROVE TypeInv
  OBVIOUS
<1>1. 0 \in Slots /\ 0 \in 0 .. NumFrames /\ 0 \in 0 .. frameCountIn
  BY RingSize, PipelineAssumption DEF Slots
<1>2. NoJob \in Jobs
  BY <1>1 DEF NoJob, Jobs
<1>3. TypeOK
  BY <1>1, <1>2 DEF Init, TypeOK
<1>4. IpcTypes(ipc)
  BY DEF Init, IpcTypes, Channels
<1>5. WorkTypes
  BY DEF Init, WorkTypes, Serving
<1> QED
  BY <1>3, <1>4, <1>5 DEF TypeInv

LEMMA VideoKeepsTypes == TypeInv /\ VideoInThread => TypeInv'
<1> SUFFICES ASSUME TypeInv, VideoInThread PROVE TypeInv'
  OBVIOUS
<1> USE DEF ringVars, videoVars, mainVars, childVars, fileVars
<1>0. TypeOK /\ WorkTypes /\ IpcTypes(ipc)
  BY DEF TypeInv
<1>1. IpcTypes(ipc') /\ DOMAIN ipc' = Server \cup Children
  <2>1. CASE VideoStart
    <3>1. "VIDEO_READY" \in Channels /\ "ready" \in Content("VIDEO_READY")
      BY ServerNames DEF Channels, Content
    <3>2. IpcTypes(ipc')
      BY <1>0, <2>1, <3>1, ServerSays, SaysTypes
    <3> QED
      BY <3>2 DEF IpcTypes, Channels
  <2>2. CASE ipc' = ipc
    BY <1>0, <2>2 DEF IpcTypes, Channels
  <2> QED
    BY <2>1, <2>2 DEF VideoInThread, VideoCheck, VideoDecode, VideoMark,
       VideoEnqueue, VideoAdvance, VideoEnd
<1>2. CASE VideoStart \/ VideoCheck
  BY <1>0, <1>1, <1>2 DEF VideoStart, VideoCheck, TypeInv, TypeOK, WorkTypes
<1>3. CASE VideoDecode
  <2>1. frameNum < NumFrames => frameNum + 1 \in Frames /\ frameNum + 1 \in 0 .. NumFrames
                                /\ frameNum + 1 >= 1
    BY <1>0, PipelineAssumption DEF TypeOK, Frames
  <2>2. TypeOK'
    BY <1>0, <1>1, <1>3, <2>1 DEF VideoDecode, TypeOK
  <2>3. WorkTypes'
    BY <1>0, <1>3, <2>1 DEF VideoDecode, WorkTypes
  <2> QED
    BY <1>1, <2>2, <2>3 DEF TypeInv
<1>4. CASE VideoMark \/ VideoAdvance
  <2>1. (tailIn + 1) % frameCountIn \in Slots
    BY <1>0, NextSlot DEF TypeOK
  <2>2. TypeOK'
    BY <1>0, <1>1, <1>4, <2>1 DEF VideoMark, VideoAdvance, TypeOK
  <2>3. WorkTypes'
    BY <1>0, <1>4 DEF VideoMark, VideoAdvance, WorkTypes
  <2> QED
    BY <1>1, <2>2, <2>3 DEF TypeInv
<1>5. CASE VideoEnqueue \/ VideoEnd
  <2>1. ASSUME vpc = "enqueue"
        PROVE  [frameNum |-> frameNum, indexIn |-> tailIn] \in [frameNum : Frames, indexIn : Slots]
    BY <1>0, <2>1, PipelineAssumption DEF WorkTypes, TypeOK, Frames
  <2>2. PICK m \in [frameNum : Frames, indexIn : Slots] \cup {EndMsg} :
          ChildMsgQ' = Append(ChildMsgQ, m)
    BY <1>5, <2>1 DEF VideoEnqueue, VideoEnd
  <2>3. ChildMsgQ' \in Seq([frameNum : Frames, indexIn : Slots] \cup {EndMsg})
    BY <1>0, <2>2, AppendProperties DEF TypeOK
  <2>4. TypeOK'
    BY <1>0, <1>1, <1>5, <2>3 DEF VideoEnqueue, VideoEnd, TypeOK
  <2>5. WorkTypes'
    BY <1>0, <1>5 DEF VideoEnqueue, VideoEnd, WorkTypes
  <2> QED
    BY <1>1, <2>4, <2>5 DEF TypeInv
<1> QED
  BY <1>2, <1>3, <1>4, <1>5 DEF VideoInThread

LEMMA ChildKeepsTypes == ASSUME TypeInv, NEW c \in Children, Child(c) PROVE TypeInv'
<1> USE DEF ringVars, videoVars, mainVars, childVars, fileVars
<1>0. TypeOK /\ WorkTypes /\ IpcTypes(ipc)
  BY DEF TypeInv
<1>a. /\ c \in Channels /\ {"READY", "RENDER_READY", "FRAME_DONE", "DYING_GASP"} \subseteq Channels
      /\ c \in Content("READY") /\ c \in Content("RENDER_READY") /\ c \in Content("DYING_GASP")
      /\ Content("FRAME_DONE") = FrameJobs /\ Content(c) = ToChild
  BY ServerNames DEF Channels, Content
<1>b. ipc[c] # <<>> => IpcTypes(Rest(ipc, c)) /\ Head(ipc[c]) \in ToChild
  BY <1>0, <1>a, RestTypes
<1>c. \A q : IpcTypes(q) => DOMAIN q = Server \cup Children
  BY DEF IpcTypes, Channels
<1>1. CASE ChildInit(c)
  <2>1. IpcTypes(ipc')
    BY <1>0, <1>1, <1>a, SaysTypes, ChildSays
  <2>2. TypeOK'
    BY <1>0, <1>1, <1>c, <2>1 DEF ChildInit, TypeOK
  <2> QED
    BY <1>0, <1>1, <2>1, <2>2 DEF ChildInit, TypeInv, TypeOK, WorkTypes
<1>2. CASE ChildRenderMode(c)
  <2>1. IpcTypes(ipc')
    BY <1>0, <1>2, <1>a, <1>b, SaysTypes, ChildSays DEF ChildRenderMode, Gets
  <2>2. TypeOK'
    BY <1>0, <1>2, <1>c, <2>1 DEF ChildRenderMode, TypeOK
  <2> QED
    BY <1>0, <1>2, <2>1, <2>2 DEF ChildRenderMode, TypeInv, WorkTypes
<1>3. CASE ChildLoad(c)
  <2> DEFINE msg == Head(ipc[c])
             mine == [child |-> c, frameNum |-> msg.frameNum, indexIn |-> msg.indexIn]
  <2>1. IpcTypes(ipc') /\ msg \in ToChild /\ msg.type = "RENDER_FRAME"
    BY <1>3, <1>b DEF ChildLoad, Gets
  <2>2. msg.frameNum \in Frames /\ msg.indexIn \in Slots
    BY <2>1 DEF ToChild
  <2>3. /\ job' = [job EXCEPT ![c] = mine] /\ picture' = [picture EXCEPT ![c] = frameIn[msg.indexIn]]
        /\ cpc' = [cpc EXCEPT ![c] = "loaded"]
        /\ UNCHANGED <<ringVars, frameIn, frameOut, videoVars, ChildMsgQ, mainVars, capable, fileVars>>
    BY <1>3 DEF ChildLoad
  <2>4. mine \in Jobs /\ mine \in FrameJobs /\ mine.child = c
    BY <2>2 DEF Jobs, FrameJobs
  <2> HIDE DEF mine, msg
  <2>5. TypeOK'
    BY <1>0, <1>c, <2>1, <2>2, <2>3, <2>4 DEF TypeOK
  <2>6. WorkTypes'
    BY <1>0, <2>3, <2>4 DEF TypeOK, WorkTypes
  <2> QED
    BY <2>1, <2>5, <2>6 DEF TypeInv
<1>4. CASE ChildRender(c)
  <2>0. job[c] \in FrameJobs /\ job[c].indexIn \in Slots
    BY <1>0, <1>4 DEF ChildRender, WorkTypes, FrameJobs
  <2>1. IpcTypes(ipc')
    BY <1>0, <1>4, <1>a, <2>0, SaysTypes, ChildSays
  <2>2. NoJob \in Jobs
    BY RingSize DEF NoJob, Jobs, Slots
  <2>3. TypeOK'
    BY <1>0, <1>4, <1>c, <2>0, <2>1, <2>2 DEF ChildRender, TypeOK
  <2>4. WorkTypes'
    BY <1>0, <1>4 DEF ChildRender, TypeOK, WorkTypes
  <2> QED
    BY <2>1, <2>3, <2>4 DEF TypeInv
<1>5. CASE ChildExit(c) \/ ChildDie(c)
  <2>1. IpcTypes(ipc')
    <3>1. \E q \in {ipc, Rest(ipc, c)} : \E most : IpcTypes(q) /\ Says(q, most, "DYING_GASP", c)
      BY <1>0, <1>5, <1>b, ChildSays DEF ChildExit, Gets
    <3> QED
      BY <1>a, <3>1, SaysTypes
  <2>2. /\ cpc' = [cpc EXCEPT ![c] = "exited"]
        /\ UNCHANGED <<ringVars, frameIn, frameOut, videoVars, ChildMsgQ, mainVars,
                       picture, job, capable, fileVars>>
    BY <1>5 DEF ChildExit, ChildDie
  <2>3. TypeOK'
    BY <1>0, <1>c, <2>1, <2>2 DEF TypeOK
  <2> QED
    BY <1>0, <2>1, <2>2, <2>3 DEF TypeInv, TypeOK, WorkTypes
<1> QED
  BY <1>1, <1>2, <1>3, <1>4, <1>5 DEF Child

LEMMA MainKeepsTypes == TypeInv /\ Main => TypeInv'
<1> SUFFICES ASSUME TypeInv, Main PROVE TypeInv'
  OBVIOUS
<1> USE DEF ringVars, videoVars, mainVars, childVars, fileVars
<1>0. TypeOK /\ WorkTypes /\ IpcTypes(ipc)
  BY DEF TypeInv
<1>a. /\ Server \subseteq Channels /\ Children \subseteq Channels
      /\ Server = {"READY", "VIDEO_READY", "RENDER_READY", "DYING_GASP", "LOG", "FRAME_DONE"}
      /\ Content("READY") = Children /\ Content("RENDER_READY") = Children
      /\ Content("FRAME_DONE") = FrameJobs
      /\ \A c \in Children : Content(c) = ToChild
  BY ServerNames DEF Channels, Content
<1>b. \A type \in Server : ipc[type] # <<>> =>
        IpcTypes(Rest(ipc, type)) /\ Head(ipc[type]) \in Content(type)
  BY <1>0, <1>a, RestTypes
<1>c. \A q : IpcTypes(q) => DOMAIN q = Server \cup Children
  BY DEF IpcTypes, Channels
<1>d. \A child \in Children \cup {Nobody} : [NoJob EXCEPT !.child = child] \in Jobs
                                            /\ [NoJob EXCEPT !.child = child].child = child
  BY RingSize DEF NoJob, Jobs, Slots
<1>e. NoJob \in Jobs
  BY RingSize DEF NoJob, Jobs, Slots
<1>f. FrameJobs \subseteq Jobs /\ \A x \in FrameJobs : x.child \in Children /\ x.frameNum \in Frames
                                                     /\ x.indexIn \in Slots
  BY DEF FrameJobs, Jobs
<1>g. \A x \in Jobs : x.indexIn \in Slots
  BY DEF Jobs
<1>1. CASE AwaitVideo
  <2>1. IpcTypes(ipc')
    BY <1>1, <1>a, <1>b DEF AwaitVideo
  <2> QED
    BY <1>0, <1>1, <1>c, <2>1 DEF AwaitVideo, TypeInv, TypeOK, WorkTypes, Serving
<1>2. ASSUME NEW c \in Children, Fork(c) PROVE TypeInv'
  <2>1. TypeOK'
    BY <1>0, <1>2 DEF Fork, TypeOK
  <2>2. WorkTypes'
    BY <1>0, <1>2 DEF Fork, TypeOK, WorkTypes, Serving
  <2> QED
    BY <1>0, <1>2, <2>1, <2>2 DEF Fork, TypeInv
<1>3. ASSUME NEW type \in Server, OnOther(type) PROVE TypeInv'
  <2>1. IpcTypes(ipc')
    BY <1>3, <1>b DEF OnOther, Chosen
  <2> QED
    BY <1>0, <1>3, <1>c, <2>1 DEF OnOther, TypeInv, TypeOK, WorkTypes
<1>4. CASE OnReady
  <2> DEFINE c == Head(ipc["READY"])
             m == [type |-> IF capable[c] THEN "RENDER_MODE" ELSE "EXIT"]
  <2>1. c \in Children /\ IpcTypes(Rest(ipc, "READY"))
    BY <1>4, <1>a, <1>b DEF OnReady, Chosen
  <2>2. m \in Content(c)
    BY <1>a, <2>1 DEF ToChild
  <2>3. Says(Rest(ipc, "READY"), LogLines["ready"], c, m)
        /\ UNCHANGED <<ringVars, frameIn, frameOut, videoVars, ChildMsgQ, mainVars, childVars, fileVars>>
    BY <1>4, ServerSays DEF OnReady
  <2> HIDE DEF c, m
  <2>4. IpcTypes(ipc')
    BY <1>a, <2>1, <2>2, <2>3, SaysTypes
  <2> QED
    BY <1>0, <1>c, <2>3, <2>4 DEF TypeInv, TypeOK, WorkTypes
<1>5. CASE OnRenderReady
  <2> DEFINE c == Head(ipc["RENDER_READY"])
  <2>1. c \in Children /\ IpcTypes(Rest(ipc, "RENDER_READY"))
    BY <1>5, <1>a, <1>b DEF OnRenderReady, Chosen
  <2>2. (\E n \in Nat : ipc' = Logged(Rest(ipc, "RENDER_READY"), n))
        /\ cur' = [NoJob EXCEPT !.child = c] /\ ppc' = "next"
        /\ UNCHANGED <<ringVars, frameIn, frameOut, videoVars, ChildMsgQ, i, j, childVars, fileVars>>
    BY <1>5, ServerSays DEF OnRenderReady
  <2> HIDE DEF c
  <2>3. IpcTypes(ipc') /\ cur' \in Jobs /\ cur'.child \in Children
    BY <1>d, <2>1, <2>2, LoggedTypes
  <2>4. TypeOK'
    BY <1>0, <1>c, <2>2, <2>3 DEF TypeOK
  <2>5. WorkTypes'
    BY <1>0, <2>2, <2>3 DEF WorkTypes, Serving
  <2> QED
    BY <2>3, <2>4, <2>5 DEF TypeInv
<1>6. CASE OnFrameDone
  <2>1. cur' \in FrameJobs /\ IpcTypes(ipc')
    BY <1>6, <1>a, <1>b DEF OnFrameDone, Chosen
  <2>2. cur' \in Jobs /\ cur'.child \in Children /\ cur'.frameNum \in Frames /\ cur'.indexIn \in Slots
    BY <1>f, <2>1
  <2>3. outFile' = [outFile EXCEPT ![cur'.frameNum] = frameOut[cur'.indexIn]] /\ ppc' = "finish"
        /\ UNCHANGED <<ringVars, frameIn, frameOut, videoVars, ChildMsgQ, i, j, childVars, inFile>>
    BY <1>6 DEF OnFrameDone
  <2>4. outFile' \in [Frames -> Frames \cup {0}]
    BY <1>0, <2>2, <2>3 DEF TypeOK
  <2>5. TypeOK'
    BY <1>0, <1>c, <2>1, <2>2, <2>3, <2>4 DEF TypeOK
  <2>6. WorkTypes'
    BY <1>0, <2>2, <2>3 DEF WorkTypes, Serving
  <2> QED
    BY <2>1, <2>5, <2>6 DEF TypeInv
<1>7. CASE VideoFinished
  <2>1. cur.indexIn \in Slots
    BY <1>0, <1>g DEF TypeOK
  <2>2. used' \in [Slots -> Int] /\ 0 \in 0 .. frameCountIn
    <3>1. used' = [used EXCEPT ![cur.indexIn] = used[cur.indexIn] - 1]
      BY <1>7 DEF VideoFinished
    <3>2. used[cur.indexIn] - 1 \in Int
      BY <1>0, <2>1 DEF TypeOK
    <3>3. used' \in [Slots -> Int]
      BY <1>0, <3>1, <3>2 DEF TypeOK
    <3> QED
      BY <3>3, RingSize
  <2>3. TypeOK'
    BY <1>0, <1>7, <2>2 DEF VideoFinished, TypeOK
  <2>4. WorkTypes'
    BY <1>0, <1>7 DEF VideoFinished, WorkTypes, Serving
  <2> QED
    BY <1>0, <1>7, <2>3, <2>4 DEF VideoFinished, TypeInv
<1>8. CASE VideoFinishedScan
  <2>1. (i + 1) % frameCountIn \in Slots
    BY <1>0, NextSlot DEF TypeOK
  <2>2. j < frameCountIn => j + 1 \in 0 .. frameCountIn
    BY <1>0, RingSize DEF TypeOK
  <2>3. TypeOK'
    BY <1>0, <1>8, <2>1, <2>2 DEF VideoFinishedScan, TypeOK
  <2>4. WorkTypes'
    BY <1>0, <1>8 DEF VideoFinishedScan, WorkTypes, Serving
  <2> QED
    BY <1>0, <1>8, <2>3, <2>4 DEF VideoFinishedScan, TypeInv
<1>9. CASE VideoFinishedWrap
  <2>3. TypeOK'
    BY <1>0, <1>9 DEF VideoFinishedWrap, TypeOK
  <2>4. WorkTypes'
    BY <1>0, <1>9 DEF VideoFinishedWrap, WorkTypes, Serving
  <2> QED
    BY <1>0, <1>9, <2>3, <2>4 DEF VideoFinishedWrap, TypeInv
<1>10. CASE NextFrame
  <2> DEFINE msg == Head(ChildMsgQ)
             items == [frameNum : Frames, indexIn : Slots] \cup {EndMsg}
             new == [child |-> cur.child, frameNum |-> msg.frameNum, indexIn |-> msg.indexIn]
             m == [type |-> "RENDER_FRAME", frameNum |-> msg.frameNum, indexIn |-> msg.indexIn]
  <2>1. ChildMsgQ \in Seq(items) /\ ChildMsgQ # <<>> /\ ppc = "next" /\ cur.child \in Children
    BY <1>0, <1>10 DEF NextFrame, TypeOK, WorkTypes, Serving
  <2>2. msg \in items /\ Tail(ChildMsgQ) \in Seq(items)
    BY <2>1, HeadTailProperties
  <2>3. msg.frameNum # EndOfInput => msg.frameNum \in Frames /\ msg.indexIn \in Slots
    BY <2>2 DEF EndMsg
  <2>4. /\ ChildMsgQ' = Tail(ChildMsgQ)
        /\ UNCHANGED <<ringVars, frameIn, frameOut, videoVars, i, j, childVars, fileVars>>
        /\ \/ ppc' = "putBack" /\ UNCHANGED <<cur, ipc>>
           \/ /\ msg.frameNum # EndOfInput
              /\ cur' = new /\ ppc' = "videoIn"
              /\ ipc' = Post(ipc, cur.child, m)
    BY <1>10 DEF NextFrame
  <2>5. msg.frameNum # EndOfInput =>
          new \in Jobs /\ m \in ToChild /\ new.child \in Children /\ new.frameNum \in Frames
    BY <2>1, <2>3 DEF Jobs, ToChild
  <2> HIDE DEF msg, new, m, items
  <2>6. IpcTypes(ipc')
    BY <1>0, <1>a, <2>1, <2>4, <2>5, PostTypes
  <2>7. TypeOK'
    BY <1>0, <1>c, <2>1, <2>2, <2>4, <2>5, <2>6 DEF TypeOK, items
  <2>8. WorkTypes'
    BY <1>0, <2>1, <2>4, <2>5 DEF WorkTypes, Serving
  <2> QED
    BY <2>6, <2>7, <2>8 DEF TypeInv
<1>11. CASE PutBack
  <2>1. cur.child \in Children
    BY <1>0, <1>11 DEF PutBack, WorkTypes, Serving
  <2>2. [type |-> "EXIT"] \in Content(cur.child)
    BY <1>a, <2>1 DEF ToChild
  <2>3. IpcTypes(ipc')
    BY <1>0, <1>11, <1>a, <2>1, <2>2, SaysTypes, ServerSays
  <2>4. ChildMsgQ' \in Seq([frameNum : Frames, indexIn : Slots] \cup {EndMsg})
    BY <1>0, <1>11, AppendProperties DEF PutBack, TypeOK
  <2>5. TypeOK'
    BY <1>0, <1>11, <1>c, <1>e, <2>3, <2>4 DEF PutBack, TypeOK
  <2>6. WorkTypes'
    BY <1>0, <1>11 DEF PutBack, WorkTypes, Serving
  <2> QED
    BY <2>3, <2>5, <2>6 DEF TypeInv
<1>12. CASE VideoIn
  <2>1. cur.indexIn \in Slots /\ cur.frameNum \in Frames
    BY <1>0, <1>12, <1>g DEF VideoIn, TypeOK, WorkTypes
  <2>2. TypeOK'
    BY <1>0, <1>12, <1>e, <2>1 DEF VideoIn, TypeOK
  <2>3. WorkTypes'
    BY <1>0, <1>12 DEF VideoIn, WorkTypes, Serving
  <2> QED
    BY <1>0, <1>12, <2>2, <2>3 DEF VideoIn, TypeInv
<1>13. CASE ParentExit
  <2>1. TypeOK'
    BY <1>0, <1>13 DEF ParentExit, TypeOK
  <2>2. WorkTypes'
    BY <1>0, <1>13 DEF ParentExit, WorkTypes, Serving
  <2> QED
    BY <1>0, <1>13, <2>1, <2>2 DEF ParentExit, TypeInv
<1> QED
  BY <1>1, <1>2, <1>3, <1>4, <1>5, <1>6, <1>7, <1>8, <1>9, <1>10, <1>11, <1>12, <1>13 DEF Main

LEMMA TypeStep == TypeInv /\ [Next]_vars => TypeInv'
<1> SUFFICES ASSUME TypeInv, [Next]_vars PROVE TypeInv'
  OBVIOUS
<1>1. CASE Ended \/ UNCHANGED vars
  BY <1>1 DEF Ended, vars, ringVars, videoVars, mainVars, childVars, fileVars,
     TypeInv, TypeOK, WorkTypes
<1> QED
  BY <1>1, VideoKeepsTypes, MainKeepsTypes, ChildKeepsTypes DEF Next

LEMMA TypesHold == Spec => []TypeInv
BY TypeInit, TypeStep, PTL DEF Spec

\* Types of the program's state, for any number of children, frames, slots and
\* messages: indices stay in the ring, and what travels through the two queues
\* is what its receiver takes it for, also when messages are lost.
THEOREM PipelineTypes == Spec => []TypeOK
<1>1. TypeInv => TypeOK
  BY DEF TypeInv
<1> QED
  BY <1>1, TypesHold, PTL
-----------------------------------------------------------------------------
(***************************************************************************)
(* What sending and receiving do to the System V queue.                    *)
(***************************************************************************)

\* A message that finds room comes last among those of its type.
LEMMA PostFacts ==
  ASSUME NEW q, IpcTypes(q), NEW t \in Channels, NEW m \in Content(t), Pending(q) < IpcCap,
         NEW p, p = Post(q, t, m)
  PROVE  /\ IpcTypes(p) /\ Pending(p) <= Pending(q) + 1
         /\ \A u \in Channels \ {t} : p[u] = q[u]
         /\ Len(q[t]) \in Nat /\ Len(p[t]) = Len(q[t]) + 1
         /\ \A k \in 1 .. Len(q[t]) : p[t][k] = q[t][k]
         /\ p[t][Len(q[t]) + 1] = m
<1>1. IpcTypes(p)
  BY PostTypes
<1>2. q[t] \in Seq(Content(t)) /\ DOMAIN q = Channels /\ Len(q[t]) \in Nat
  BY DEF IpcTypes
<1>3. p = [q EXCEPT ![t] = Append(q[t], m)]
  BY DEF Post
<1>4. \A u \in Channels \ {t} : p[u] = q[u]
  BY <1>2, <1>3
<1>5. p[t] = Append(q[t], m)
  BY <1>2, <1>3
<1>6. /\ Len(p[t]) = Len(q[t]) + 1 /\ p[t][Len(q[t]) + 1] = m
      /\ \A k \in 1 .. Len(q[t]) : p[t][k] = q[t][k]
  BY <1>2, <1>5, AppendProperties
<1>7. Pending(p) <= Pending(q) + 1
  <2>1. DOMAIN p[t] = 1 .. Len(q[t]) + 1 /\ DOMAIN q[t] = 1 .. Len(q[t])
    BY <1>1, <1>2, <1>6 DEF IpcTypes
  <2>2. DOMAIN p[t] = DOMAIN q[t] \cup {Len(q[t]) + 1}
    BY <1>2, <2>1
  <2>3. Messages(p) \subseteq Messages(q) \cup {<<t, Len(q[t]) + 1>>}
    <3> SUFFICES ASSUME NEW x \in Messages(p)
                 PROVE  x \in Messages(q) \cup {<<t, Len(q[t]) + 1>>}
      OBVIOUS
    <3>1. PICK u \in Channels : x \in {u} \X DOMAIN p[u]
      BY <1>1 DEF Messages, IpcTypes
    <3> QED
      BY <1>2, <1>4, <2>2, <3>1 DEF Messages
  <2> QED
    BY <2>3, MessagesFinite, OneMore DEF Pending
<1> QED
  BY <1>1, <1>2, <1>4, <1>6, <1>7

\* The first message of its type is taken.
LEMMA RestFacts ==
  ASSUME NEW q, IpcTypes(q), NEW t \in Channels, q[t] # <<>>, NEW p, p = Rest(q, t)
  PROVE  /\ IpcTypes(p) /\ Pending(p) <= Pending(q)
         /\ \A u \in Channels \ {t} : p[u] = q[u]
         /\ Len(p[t]) \in Nat /\ Len(q[t]) = Len(p[t]) + 1
         /\ \A k \in 1 .. Len(p[t]) : p[t][k] = q[t][k + 1]
         /\ q[t][1] = Head(q[t]) /\ Head(q[t]) \in Content(t)
<1>1. IpcTypes(p) /\ Head(q[t]) \in Content(t)
  BY RestTypes
<1>2. q[t] \in Seq(Content(t)) /\ DOMAIN q = Channels /\ Len(q[t]) \in Nat
  BY DEF IpcTypes
<1>3. p = [q EXCEPT ![t] = Tail(q[t])]
  BY DEF Rest
<1>4. \A u \in Channels \ {t} : p[u] = q[u]
  BY <1>2, <1>3
<1>5. p[t] = Tail(q[t])
  BY <1>2, <1>3
<1>6. /\ Len(p[t]) \in Nat /\ Len(q[t]) = Len(p[t]) + 1
      /\ q[t][1] = Head(q[t])
      /\ \A k \in 1 .. Len(p[t]) : p[t][k] = q[t][k + 1]
  BY <1>2, <1>5
<1>7. Pending(p) <= Pending(q)
  <2>1. DOMAIN p[t] = 1 .. Len(p[t]) /\ DOMAIN q[t] = 1 .. Len(p[t]) + 1
    BY <1>1, <1>2, <1>6 DEF IpcTypes
  <2>2. DOMAIN p[t] \subseteq DOMAIN q[t]
    BY <1>6, <2>1
  <2>3. Messages(p) \subseteq Messages(q)
    <3> SUFFICES ASSUME NEW x \in Messages(p) PROVE x \in Messages(q)
      OBVIOUS
    <3>1. PICK u \in Channels : x \in {u} \X DOMAIN p[u]
      BY <1>1 DEF Messages, IpcTypes
    <3> QED
      BY <1>2, <1>4, <2>2, <3>1 DEF Messages
  <2> QED
    BY <2>3, MessagesFinite, FS_Subset DEF Pending
<1> QED
  BY <1>1, <1>4, <1>6, <1>7

\* Whose messages are there after one has been sent.
LEMMA PostFrom ==
  ASSUME NEW q, IpcTypes(q), NEW t \in Channels, NEW m \in Content(t), Pending(q) < IpcCap,
         NEW p, p = Post(q, t, m)
  PROVE  /\ \A u \in Channels : \A c :
              From(p, u, c) <=> From(q, u, c) \/ (u = t /\ c = Owner(t, m))
         /\ \A u \in Channels :
              NoTwo(q, u) /\ (u = t => ~From(q, t, Owner(t, m))) => NoTwo(p, u)
         /\ \A c \in Children : \A y :
              Told(p, c, y) <=> Told(q, c, y) \/ (c = t /\ m.type = y)
<1> DEFINE n == Len(q[t])
<1>1. /\ \A u \in Channels \ {t} : p[u] = q[u]
      /\ n \in Nat /\ Len(p[t]) = n + 1
      /\ \A k \in 1 .. n : p[t][k] = q[t][k]
      /\ p[t][n + 1] = m
  BY PostFacts
<1>2. n = Len(q[t])
  OBVIOUS
<1> HIDE DEF n
<1>3. 1 .. n + 1 = (1 .. n) \cup {n + 1}
  BY <1>1
<1>4. ASSUME NEW c PROVE From(p, t, c) <=> From(q, t, c) \/ c = Owner(t, m)
  BY <1>1, <1>2, <1>3 DEF From
<1>5. ASSUME NEW u \in Channels, u # t
      PROVE  (NoTwo(q, u) => NoTwo(p, u)) /\ \A c : From(p, u, c) <=> From(q, u, c)
  BY <1>1, <1>5 DEF From, NoTwo
<1>6. ASSUME NoTwo(q, t), ~From(q, t, Owner(t, m)) PROVE NoTwo(p, t)
  <2> SUFFICES ASSUME NEW h \in 1 .. n + 1, NEW k \in 1 .. n + 1,
                      Owner(t, p[t][h]) = Owner(t, p[t][k])
               PROVE  h = k
    BY <1>1 DEF NoTwo
  <2>1. CASE h \in 1 .. n /\ k \in 1 .. n
    BY <1>1, <1>2, <1>6, <2>1 DEF NoTwo
  <2>2. CASE h = n + 1 /\ k \in 1 .. n
    BY <1>1, <1>2, <1>6, <2>2 DEF From
  <2>3. CASE h \in 1 .. n /\ k = n + 1
    BY <1>1, <1>2, <1>6, <2>3 DEF From
  <2> QED
    BY <1>3, <2>1, <2>2, <2>3
<1>7. ASSUME NEW c \in Children, NEW y
      PROVE  Told(p, c, y) <=> Told(q, c, y) \/ (c = t /\ m.type = y)
  <2>1. CASE c = t
    BY <1>1, <1>2, <1>3, <2>1 DEF Told
  <2>2. CASE c # t
    BY <1>1, <2>2 DEF Told, Channels
  <2> QED
    BY <2>1, <2>2
<1> QED
  BY <1>4, <1>5, <1>6, <1>7

\* Log lines that find room.
LEMMA LoggedFacts ==
  ASSUME NEW q, IpcTypes(q), NEW n \in Nat, Pending(q) + 1 + n <= IpcCap,
         NEW r, r = Logged(q, n)
  PROVE  /\ IpcTypes(r) /\ Pending(r) < IpcCap
         /\ \A u \in Channels \ {"LOG"} : r[u] = q[u]
         /\ Len(q["LOG"]) \in Nat /\ Len(r["LOG"]) = Len(q["LOG"]) + n
<1> DEFINE line == [h \in 1 .. n |-> "line"]
           a == Len(q["LOG"])
<1>1. IpcTypes(r) /\ Pending(q) \in Nat /\ IpcCap \in Nat
  BY LoggedTypes, MessagesFinite, PipelineAssumption
<1>2. /\ line \in Seq(Content("LOG")) /\ Len(line) = n
      /\ r = [q EXCEPT !["LOG"] = q["LOG"] \o line]
  <2>1. Pending(q) + n <= IpcCap
    BY <1>1
  <2> QED
    BY <2>1, LoggedIs
<1>3. q["LOG"] \in Seq(Content("LOG")) /\ DOMAIN q = Channels /\ "LOG" \in Channels /\ a \in Nat
  BY ServerNames DEF IpcTypes, Channels
<1> HIDE DEF line
<1>4. r["LOG"] = q["LOG"] \o line /\ \A u \in Channels \ {"LOG"} : r[u] = q[u]
  BY <1>2, <1>3
<1>5. Len(r["LOG"]) = a + n
  BY <1>2, <1>3, <1>4, ConcatProperties
<1>6. Pending(r) < IpcCap
  <2> DEFINE new == {"LOG"} \X (a + 1 .. a + n)
  <2>1. DOMAIN r["LOG"] = 1 .. a + n /\ DOMAIN q["LOG"] = 1 .. a
    BY <1>1, <1>3, <1>5 DEF IpcTypes
  <2> HIDE DEF a
  <2>2. DOMAIN r["LOG"] = DOMAIN q["LOG"] \cup (a + 1 .. a + n)
    BY <1>3, <2>1
  <2>3. Messages(r) \subseteq Messages(q) \cup new
    <3> SUFFICES ASSUME NEW x \in Messages(r) PROVE x \in Messages(q) \cup new
      OBVIOUS
    <3>1. PICK u \in Channels : x \in {u} \X DOMAIN r[u]
      BY <1>1 DEF Messages, IpcTypes
    <3> QED
      BY <1>3, <1>4, <2>2, <3>1 DEF Messages
  <2>4. IsFiniteSet(new) /\ Cardinality(new) = n
    <3>1. PICK x \in Int, y \in Int : x = a + 1 /\ y = a + n
      BY <1>3
    <3>2. IsFiniteSet(x .. y) /\ Cardinality(x .. y) = IF x > y THEN 0 ELSE y - x + 1
      BY FS_Interval
    <3>3. IsFiniteSet(a + 1 .. a + n) /\ Cardinality(a + 1 .. a + n) = n
      BY <1>3, <3>1, <3>2
    <3>4. IsFiniteSet({"LOG"}) /\ Cardinality({"LOG"}) = 1
      BY FS_Singleton
    <3>5. IsFiniteSet(new) /\ Cardinality(new) = 1 * Cardinality(a + 1 .. a + n)
      BY <3>3, <3>4, FS_Product
    <3> HIDE DEF new
    <3> QED
      BY <3>3, <3>5
  <2> HIDE DEF new
  <2>5. IsFiniteSet(Messages(q)) /\ Pending(q) = Cardinality(Messages(q))
    BY MessagesFinite DEF Pending
  <2>6. /\ IsFiniteSet(Messages(q) \cup new) /\ Cardinality(Messages(q) \cup new) \in Nat
        /\ Cardinality(Messages(q) \cup new) <= Cardinality(Messages(q)) + Cardinality(new)
    BY <2>4, <2>5, UnionAtMost
  <2>7. Cardinality(Messages(r)) <= Cardinality(Messages(q) \cup new)
    BY <2>3, <2>6, FS_Subset
  <2>8. Pending(r) \in Nat /\ Pending(r) = Cardinality(Messages(r))
    BY <1>1, MessagesFinite DEF Pending
  <2> QED
    BY <1>1, <2>4, <2>5, <2>6, <2>7, <2>8
<1> QED
  BY <1>1, <1>3, <1>4, <1>5, <1>6

\* The same for a message that is sent after log lines.
LEMMA SendFacts ==
  ASSUME NEW q, IpcTypes(q), NEW t \in Channels \ {"LOG"}, NEW m \in Content(t),
         NEW n \in Nat, Pending(q) + 1 + n <= IpcCap,
         NEW p, p = Post(Logged(q, n), t, m)
  PROVE  /\ \A u \in Channels \ {"LOG"} : \A c :
              From(p, u, c) <=> From(q, u, c) \/ (u = t /\ c = Owner(t, m))
         /\ \A u \in Channels \ {"LOG"} :
              NoTwo(q, u) /\ (u = t => ~From(q, t, Owner(t, m))) => NoTwo(p, u)
         /\ \A c \in Children : \A y :
              Told(p, c, y) <=> Told(q, c, y) \/ (c = t /\ m.type = y)
         /\ Len(q["LOG"]) \in Nat /\ Len(p["LOG"]) = Len(q["LOG"]) + n
         /\ \A u \in Channels \ {t, "LOG"} : p[u] = q[u]
<1> DEFINE r == Logged(q, n)
<1>1. "LOG" \in Channels /\ "LOG" \notin Children
  BY ServerNames DEF Channels
<1>3. /\ IpcTypes(r) /\ Pending(r) < IpcCap
      /\ \A u \in Channels \ {"LOG"} : r[u] = q[u]
      /\ Len(q["LOG"]) \in Nat /\ Len(r["LOG"]) = Len(q["LOG"]) + n
  BY LoggedFacts
<1> HIDE DEF r
<1>4. p = Post(r, t, m)
  BY DEF r
<1>5. /\ \A u \in Channels : \A c :
           From(p, u, c) <=> From(r, u, c) \/ (u = t /\ c = Owner(t, m))
      /\ \A u \in Channels :
           NoTwo(r, u) /\ (u = t => ~From(r, t, Owner(t, m))) => NoTwo(p, u)
      /\ \A c \in Children : \A y :
           Told(p, c, y) <=> Told(r, c, y) \/ (c = t /\ m.type = y)
  BY <1>3, <1>4, PostFrom
<1>6. \A u \in Channels \ {t} : p[u] = r[u]
  BY <1>3, <1>4, PostFacts
<1>7. \A u \in Channels \ {"LOG"} : (NoTwo(r, u) <=> NoTwo(q, u)) /\ \A c : From(r, u, c) <=> From(q, u, c)
  BY <1>3 DEF From, NoTwo
<1>8. \A c \in Children : \A y : Told(r, c, y) <=> Told(q, c, y)
  BY <1>1, <1>3 DEF Told, Channels
<1>9. p["LOG"] = r["LOG"]
  BY <1>1, <1>6
<1> QED
  BY <1>3, <1>5, <1>6, <1>7, <1>8, <1>9

\* Whose messages are there after one has been received.
LEMMA RestFrom ==
  ASSUME NEW q, IpcTypes(q), NEW t \in Channels \ {"LOG"}, q[t] # <<>>, NoTwo(q, t),
         NEW p, p = Rest(q, t)
  PROVE  /\ \A u \in Channels : \A c :
              From(p, u, c) <=> From(q, u, c) /\ ~(u = t /\ c = Owner(t, Head(q[t])))
         /\ \A u \in Channels : NoTwo(q, u) => NoTwo(p, u)
         /\ From(q, t, Owner(t, Head(q[t])))
         /\ \A c \in Children : \A y : Told(p, c, y) <=> Told(q, c, y) /\ c # t
         /\ p["LOG"] = q["LOG"] /\ \A u \in Channels \ {t} : p[u] = q[u]
<1> DEFINE n == Len(p[t])
<1>1. /\ \A u \in Channels \ {t} : p[u] = q[u]
      /\ n \in Nat /\ Len(q[t]) = n + 1
      /\ \A k \in 1 .. n : p[t][k] = q[t][k + 1]
      /\ q[t][1] = Head(q[t])
  BY RestFacts
<1>2. n = Len(p[t])
  OBVIOUS
<1> HIDE DEF n
<1>3. 1 \in 1 .. n + 1 /\ \A k \in 1 .. n : k + 1 \in 1 .. n + 1 /\ k + 1 # 1
  BY <1>1
<1>4. \A k \in 1 .. n + 1 : k = 1 \/ (k - 1 \in 1 .. n /\ (k - 1) + 1 = k)
  BY <1>1
<1>5. From(q, t, Owner(t, Head(q[t])))
  BY <1>1, <1>3 DEF From
<1>6. ASSUME NEW c PROVE From(p, t, c) <=> From(q, t, c) /\ c # Owner(t, Head(q[t]))
  <2>1. ASSUME From(p, t, c) PROVE From(q, t, c) /\ c # Owner(t, Head(q[t]))
    <3>1. PICK k \in 1 .. n : Owner(t, p[t][k]) = c
      BY <1>2, <2>1 DEF From
    <3>2. Owner(t, q[t][k + 1]) = c /\ k + 1 \in 1 .. n + 1 /\ k + 1 # 1
      BY <1>1, <1>3, <3>1
    <3> QED
      BY <1>1, <1>3, <3>2 DEF From, NoTwo
  <2>2. ASSUME From(q, t, c), c # Owner(t, Head(q[t])) PROVE From(p, t, c)
    <3>1. PICK k \in 1 .. n + 1 : Owner(t, q[t][k]) = c
      BY <1>1, <2>2 DEF From
    <3>2. k - 1 \in 1 .. n /\ p[t][k - 1] = q[t][k]
      BY <1>1, <1>4, <2>2, <3>1
    <3> QED
      BY <1>2, <3>1, <3>2 DEF From
  <2> QED
    BY <2>1, <2>2
<1>7. NoTwo(p, t)
  <2> SUFFICES ASSUME NEW h \in 1 .. n, NEW k \in 1 .. n,
                      Owner(t, p[t][h]) = Owner(t, p[t][k])
               PROVE  h = k
    BY <1>2 DEF NoTwo
  <2>1. h + 1 = k + 1
    BY <1>1, <1>3 DEF NoTwo
  <2> QED
    BY <1>1, <2>1
<1>8. ASSUME NEW u \in Channels, u # t
      PROVE  (NoTwo(q, u) => NoTwo(p, u)) /\ \A c : From(p, u, c) <=> From(q, u, c)
  BY <1>1, <1>8 DEF From, NoTwo
<1>9. ASSUME NEW c \in Children, NEW y PROVE Told(p, c, y) <=> Told(q, c, y) /\ c # t
  <2>1. CASE c = t
    <3>1. ~From(p, t, t)
      BY <1>6, <2>1 DEF Owner
    <3> QED
      BY <2>1, <3>1 DEF Told, From, Owner
  <2>2. CASE c # t
    BY <1>1, <2>2 DEF Told, Channels
  <2> QED
    BY <2>1, <2>2
<1>10. p["LOG"] = q["LOG"]
  BY <1>1, ServerNames DEF Channels
<1> QED
  BY <1>1, <1>5, <1>6, <1>7, <1>8, <1>9, <1>10

\* What a step does to the queue, log lines aside: a message of child d is taken
\* from the types took, and one is left with the types gave.
Moved(q, p, d, took, gave, type) ==
  /\ NoTwoFrom(p)
  /\ \A u \in Channels \ {"LOG"} : \A c :
       From(p, u, c) <=> (From(q, u, c) /\ ~(u \in took /\ c = d)) \/ (u \in gave /\ c = d)
  /\ \A c \in Children : \A y :
       Told(p, c, y) <=> (Told(q, c, y) /\ c \notin took) \/ (c \in gave /\ y = type)

LEMMA StepSends ==
  ASSUME NEW q, IpcTypes(q), NoTwoFrom(q), NEW n \in Nat, Pending(q) + 1 + n <= IpcCap,
         NEW t \in Channels \ {"LOG"}, NEW m \in Content(t),
         NEW d, Owner(t, m) = d, ~From(q, t, d), NEW y, t \in Children => y = m.type,
         NEW p, p = Post(Logged(q, n), t, m) \/ p = Post(q, t, m)
  PROVE  Moved(q, p, d, {}, {t}, y)
<1>1. Pending(q) < IpcCap
  BY MessagesFinite, PipelineAssumption
<1>2. CASE p = Post(q, t, m)
  BY <1>1, <1>2, PostFrom DEF Moved, NoTwoFrom
<1>3. CASE p = Post(Logged(q, n), t, m)
  BY <1>3, SendFacts DEF Moved, NoTwoFrom
<1> QED
  BY <1>2, <1>3

LEMMA StepReceives ==
  ASSUME NEW q, IpcTypes(q), NoTwoFrom(q), NEW t \in Channels \ {"LOG"}, q[t] # <<>>,
         NEW d, Owner(t, Head(q[t])) = d, NEW p, p = Rest(q, t), NEW y
  PROVE  /\ Moved(q, p, d, {t}, {}, y) /\ From(q, t, d)
         /\ IpcTypes(p) /\ Pending(p) <= Pending(q) /\ Pending(p) \in Nat /\ p["LOG"] = q["LOG"]
<1>1. NoTwo(q, t)
  BY DEF NoTwoFrom
<1>2. Moved(q, p, d, {t}, {}, y) /\ From(q, t, d) /\ p["LOG"] = q["LOG"]
  BY <1>1, RestFrom DEF Moved, NoTwoFrom
<1>3. IpcTypes(p) /\ Pending(p) <= Pending(q)
  BY RestFacts
<1> QED
  BY <1>2, <1>3, MessagesFinite

\* A child has at most one message, which says what it is told.
LEMMA OnlyMessage ==
  ASSUME NEW q, IpcTypes(q), NEW c \in Children, NoTwo(q, c), q[c] # <<>>
  PROVE  From(q, c, c) /\ \A y : Told(q, c, y) <=> y = Head(q[c]).type
<1>1. q[c] \in Seq(Content(c))
  BY DEF IpcTypes, Channels
<1>2. Len(q[c]) \in Nat /\ Len(q[c]) > 0 /\ q[c][1] = Head(q[c])
  BY <1>1
<1>3. 1 \in 1 .. Len(q[c]) /\ \A k \in 1 .. Len(q[c]) : k = 1
  BY <1>2 DEF NoTwo, Owner
<1> QED
  BY <1>2, <1>3 DEF From, Told, Owner

LEMMA TurnIs ==
  ASSUME NEW c \in Children, OneTurn(c), NEW place \in Places, At(c, place)
  PROVE  \A other \in Places : At(c, other) <=> other = place
BY DEF OneTurn

\* A turn that moves is still one turn.
LEMMA TurnMoves ==
  ASSUME \A c \in Children : OneTurn(c),
         NEW d \in Children, NEW old \in Places, NEW new \in Places, At(d, old),
         \A c \in Children : \A place \in Places :
           At(c, place)' <=> (At(c, place) /\ ~(c = d /\ place = old)) \/ (c = d /\ place = new)
  PROVE  \A c \in Children : OneTurn(c)'
<1> SUFFICES ASSUME NEW c \in Children PROVE OneTurn(c)'
  OBVIOUS
<1>1. PICK p \in Places : \A other \in Places : At(c, other) <=> other = p
  BY DEF OneTurn
<1>2. CASE c = d
  <2>1. \A other \in Places : At(c, other)' <=> other = new
    BY <1>1, <1>2
  <2> QED
    BY <2>1 DEF OneTurn
<1>3. CASE c # d
  <2>1. \A other \in Places : At(c, other)' <=> other = p
    BY <1>1, <1>3
  <2> QED
    BY <2>1 DEF OneTurn
<1> QED
  BY <1>2, <1>3
-----------------------------------------------------------------------------
(***************************************************************************)
(* How much may still be logged.                                           *)
(***************************************************************************)

\* What a child's place says of how far it has come.
LeftAt(c) ==
  /\ Left(c) \in 0 .. 7
  /\ cpc[c] \in {"unborn", "init"} => Left(c) = 7
  /\ cpc[c] = "exited" => Left(c) = 0
  /\ At(c, "READY") => Left(c) = 6
  /\ At(c, "told") /\ Told(ipc, c, "RENDER_MODE") => Left(c) = 5
  /\ At(c, "RENDER_READY") => Left(c) = 4
  /\ cpc[c] = "loaded" \/ At(c, "served") => Left(c) = 3
  /\ At(c, "told") /\ ~Told(ipc, c, "RENDER_MODE") /\ Told(ipc, c, "RENDER_FRAME") => Left(c) = 3
  /\ At(c, "FRAME_DONE") => Left(c) = 2
  /\ At(c, "told") /\ ~Told(ipc, c, "RENDER_MODE") /\ ~Told(ipc, c, "RENDER_FRAME") => Left(c) = 1

LEMMA LeftIs == TypeInv /\ TurnInv => \A c \in Children : LeftAt(c)
<1> SUFFICES ASSUME TypeInv, TurnInv, NEW c \in Children PROVE LeftAt(c)
  OBVIOUS
<1>1. PICK p \in Places : \A other \in Places : At(c, other) <=> other = p
  BY DEF TurnInv, OneTurn
<1>2. /\ (cpc[c] # "wait") <=> p = "works"
      /\ Served(c) <=> p = "served"
      /\ From(ipc, c, c) <=> p = "told"
      /\ From(ipc, "READY", c) <=> p = "READY"
      /\ From(ipc, "RENDER_READY", c) <=> p = "RENDER_READY"
      /\ From(ipc, "FRAME_DONE", c) <=> p = "FRAME_DONE"
  BY <1>1 DEF At, Places
<1>3. \A y : Told(ipc, c, y) => From(ipc, c, c)
  BY DEF Told, From, Owner
<1>4. cpc[c] \in {"unborn", "init", "wait", "loaded", "exited"}
  BY DEF TypeInv, TypeOK
<1>5. Left(c) \in 0 .. 7
  BY DEF Left
<1> QED
  BY <1>2, <1>3, <1>4, <1>5 DEF LeftAt, Left, At

\* The same for the steps a child can take.
LEMMA LeftWhen ==
  ASSUME TypeInv, TurnInv, NEW c \in Children
  PROVE  /\ cpc[c] = "init" => Left(c) = 7
         /\ cpc[c] = "loaded" => Left(c) = 3
         /\ \A y : Gets(c, y) =>
              Left(c) = IF y = "RENDER_MODE" THEN 5 ELSE IF y = "RENDER_FRAME" THEN 3 ELSE 1
<1>1. LeftAt(c)
  BY LeftIs
<1>2. ASSUME NEW y, Gets(c, y)
      PROVE  Left(c) = IF y = "RENDER_MODE" THEN 5 ELSE IF y = "RENDER_FRAME" THEN 3 ELSE 1
  <2>1. IpcTypes(ipc) /\ NoTwo(ipc, c)
    BY ServerNames DEF TypeInv, TurnInv, NoTwoFrom, Channels
  <2>2. ipc[c] # <<>> /\ Head(ipc[c]).type = y
    BY <1>2 DEF Gets
  <2>3. At(c, "told") /\ \A x : Told(ipc, c, x) <=> x = y
    BY <2>1, <2>2, OnlyMessage DEF At
  <2> QED
    BY <1>1, <2>3 DEF LeftAt
<1> QED
  BY <1>1, <1>2 DEF LeftAt

LEMMA UpTo == ASSUME NEW w \in Nat PROVE IsFiniteSet(1 .. w) /\ Cardinality(1 .. w) = w
<1>1. 1 \in Int /\ w \in Int
  OBVIOUS
<1>2. IsFiniteSet(1 .. w) /\ Cardinality(1 .. w) = IF 1 > w THEN 0 ELSE w - 1 + 1
  BY <1>1, FS_Interval
<1> QED
  BY <1>2

LEMMA WeightIs ==
  /\ \A phase \in {"video", "ready", "renderReady", "marker", "init", "mode", "frame", "exit"} :
       LogLines[phase] \in Nat
  /\ Weight(0) = 0 /\ Weight(1) = LogLines["exit"] /\ Weight(2) = LogLines["exit"]
  /\ Weight(3) = Weight(2) + LogLines["frame"] + LogLines["marker"]
  /\ Weight(4) = Weight(3) + LogLines["renderReady"]
  /\ Weight(5) = Weight(4) + LogLines["mode"]
  /\ Weight(6) = Weight(5) + LogLines["ready"]
  /\ Weight(7) = Weight(6) + LogLines["init"]
  /\ \A h \in 0 .. 7 : Weight(h) \in Nat /\ \A k \in 0 .. h : Weight(k) <= Weight(h)
  /\ PerChild = Weight(7) /\ PerChild \in Nat
<1>1. \A phase \in {"video", "ready", "renderReady", "marker", "init", "mode", "frame", "exit"} :
        LogLines[phase] \in Nat
  BY PhaseLines
<1>2. /\ Weight(0) = 0 /\ Weight(1) = LogLines["exit"] /\ Weight(2) = LogLines["exit"]
      /\ Weight(3) = Weight(2) + LogLines["frame"] + LogLines["marker"]
      /\ Weight(4) = Weight(3) + LogLines["renderReady"]
      /\ Weight(5) = Weight(4) + LogLines["mode"]
      /\ Weight(6) = Weight(5) + LogLines["ready"]
      /\ Weight(7) = Weight(6) + LogLines["init"]
  BY <1>1 DEF Weight
<1>3. 0 .. 7 = {0, 1, 2, 3, 4, 5, 6, 7}
  OBVIOUS
<1>4. \A h \in 0 .. 7 : Weight(h) \in Nat
  BY <1>1, <1>2, <1>3
<1>5. ASSUME NEW h \in 0 .. 7, NEW k \in 0 .. h PROVE Weight(k) <= Weight(h)
  BY <1>1 DEF Weight
<1> QED
  BY <1>1, <1>2, <1>4, <1>5 DEF PerChild

LEMMA LinesFinite == /\ IsFiniteSet(LinesLeft) /\ Cardinality(LinesLeft) \in Nat
                     /\ Cardinality(LinesLeft) <= numChildren * PerChild
                     /\ numChildren * PerChild \in Nat
<1> DEFINE all == Children \X (1 .. PerChild)
<1>1. IsFiniteSet(1 .. PerChild) /\ Cardinality(1 .. PerChild) = PerChild
  BY WeightIs, UpTo
<1>2. IsFiniteSet(all) /\ Cardinality(all) = numChildren * PerChild
  BY <1>1, PipelineAssumption, FS_Product DEF numChildren
<1>3. LinesLeft \subseteq all
  BY DEF LinesLeft
<1> HIDE DEF all
<1>4. IsFiniteSet(LinesLeft) /\ Cardinality(LinesLeft) <= Cardinality(all)
  BY <1>2, <1>3, FS_Subset
<1>5. Cardinality(all) \in Nat /\ Cardinality(LinesLeft) \in Nat
  BY <1>2, <1>4, FS_CardinalityType
<1> QED
  BY <1>2, <1>4, <1>5

LEMMA MostIs == MostLines \in Nat /\ MostLines = numChildren * PerChild + LogLines["video"]
<1>1. PICK k \in Nat : k = numChildren * PerChild
  BY LinesFinite
<1>2. MostLines = k + LogLines["video"]
  BY <1>1 DEF MostLines
<1>3. LogLines["video"] \in Nat
  BY WeightIs
<1> QED
  BY <1>1, <1>2, <1>3

\* What one child may still log is part of the whole.
LEMMA ChildShare ==
  ASSUME TypeInv, TurnInv, NEW c \in Children
  PROVE  Weight(Left(c)) <= Cardinality(LinesLeft)
<1> DEFINE w == Weight(Left(c))
           mine == {c} \X (1 .. w)
<1>1. w \in Nat /\ w <= PerChild /\ PerChild \in Nat
  <2>1. Left(c) \in 0 .. 7
    BY LeftIs DEF LeftAt
  <2>2. 7 \in 0 .. 7 /\ Left(c) \in 0 .. 7 /\ 0 .. Left(c) \subseteq 0 .. 7
    BY <2>1
  <2> QED
    BY <2>2, WeightIs
<1>2. mine \subseteq LinesLeft
  BY <1>1 DEF LinesLeft
<1> HIDE DEF w
<1>3. IsFiniteSet(1 .. w) /\ Cardinality(1 .. w) = w
  BY <1>1, UpTo
<1>4. IsFiniteSet({c}) /\ Cardinality({c}) = 1
  BY FS_Singleton
<1>5. Cardinality(mine) = 1 * Cardinality(1 .. w)
  BY <1>3, <1>4, FS_Product
<1> HIDE DEF mine
<1>6. Cardinality(mine) <= Cardinality(LinesLeft)
  BY <1>2, LinesFinite, FS_Subset
<1> QED
  BY <1>1, <1>3, <1>5, <1>6 DEF w

\* There is room for what a handler may log, and for its message.
LEMMA RoomFor ==
  ASSUME TypeInv, TurnInv, Room
  PROVE  /\ Pending(ipc) \in Nat /\ Pending(ipc) + 1 <= IpcCap
         /\ \A n \in Nat : (\E c \in Children : n <= Weight(Left(c))) \/ (vpc = "init" /\ n <= LogLines["video"])
                             => Pending(ipc) + 1 + n <= IpcCap
<1> DEFINE n1 == Cardinality(LinesLeft)
           v == IF vpc = "init" THEN LogLines["video"] ELSE 0
<1>1. Pending(ipc) \in Nat /\ IpcCap \in Nat /\ n1 \in Nat /\ v \in Nat
  BY MessagesFinite, PipelineAssumption, LinesFinite, WeightIs DEF TypeInv
<1>2. Pending(ipc) + 1 + (n1 + v) <= IpcCap
  BY DEF Room, Budget
<1>3. \A c \in Children : Weight(Left(c)) \in Nat /\ Weight(Left(c)) <= n1
  <2>1. \A c \in Children : Left(c) \in 0 .. 7
    BY LeftIs DEF LeftAt
  <2> QED
    BY <2>1, ChildShare, WeightIs
<1>4. vpc = "init" => v = LogLines["video"]
  OBVIOUS
<1> HIDE DEF n1, v
<1>5. ASSUME NEW n \in Nat,
             (\E c \in Children : n <= Weight(Left(c))) \/ (vpc = "init" /\ n <= LogLines["video"])
      PROVE  Pending(ipc) + 1 + n <= IpcCap
  <2>1. n <= n1 + v
    BY <1>1, <1>3, <1>4, <1>5
  <2> QED
    BY <1>1, <1>2, <2>1
<1> QED
  BY <1>1, <1>2, <1>5
-----------------------------------------------------------------------------
(***************************************************************************)
(* The messages each action takes and sends, if there is room for them.    *)
(***************************************************************************)
Exchange(d, took, gave, type, lines) ==
  Moved(ipc, ipc', d, took, gave, type) /\ Len(ipc'["LOG"]) <= Len(ipc["LOG"]) + lines

\* What a handler says on its own account, and what it says in answer.
LEMMA Speaks ==
  ASSUME IpcTypes(ipc), NoTwoFrom(ipc), NEW most \in Nat, Pending(ipc) + 1 + most <= IpcCap,
         NEW t \in Channels \ {"LOG"}, NEW m \in Content(t),
         NEW d, Owner(t, m) = d, ~From(ipc, t, d), NEW y, t \in Children => y = m.type,
         Says(ipc, most, t, m)
  PROVE  Exchange(d, {}, {t}, y, most)
<1>1. PICK n \in Nat : n <= most /\ ipc' = Post(Logged(ipc, n), t, m)
  BY DEF Says
<1>2. Pending(ipc) + 1 + n <= IpcCap
  BY <1>1, MessagesFinite, PipelineAssumption
<1>3. Moved(ipc, ipc', d, {}, {t}, y)
  BY <1>1, <1>2, StepSends
<1>4. Len(ipc["LOG"]) \in Nat /\ Len(ipc'["LOG"]) = Len(ipc["LOG"]) + n
  BY <1>1, <1>2, SendFacts
<1>5. Len(ipc'["LOG"]) <= Len(ipc["LOG"]) + most
  BY <1>1, <1>4
<1> QED
  BY <1>3, <1>5 DEF Exchange

LEMMA Answers ==
  ASSUME IpcTypes(ipc), NoTwoFrom(ipc), NEW most \in Nat, Pending(ipc) + 1 + most <= IpcCap,
         NEW t \in Channels \ {"LOG"}, ipc[t] # <<>>,
         NEW u \in Channels \ {"LOG"}, u # t, NEW m \in Content(u),
         NEW d, Owner(u, m) = d, Owner(t, Head(ipc[t])) = d, ~From(ipc, u, d),
         NEW y, u \in Children => y = m.type,
         Says(Rest(ipc, t), most, u, m)
  PROVE  Exchange(d, {t}, {u}, y, most) /\ From(ipc, t, d)
<1> DEFINE r == Rest(ipc, t)
<1>1. /\ Moved(ipc, r, d, {t}, {}, y) /\ From(ipc, t, d)
      /\ IpcTypes(r) /\ Pending(r) <= Pending(ipc) /\ Pending(r) \in Nat
      /\ r["LOG"] = ipc["LOG"]
  BY StepReceives
<1>2. Says(r, most, u, m)
  OBVIOUS
<1> HIDE DEF r
<1>3. PICK n \in Nat : n <= most /\ ipc' = Post(Logged(r, n), u, m)
  BY <1>2 DEF Says
<1>4. Pending(r) + 1 + n <= IpcCap
  BY <1>1, <1>3, MessagesFinite, PipelineAssumption
<1>5. ~From(r, u, d) /\ NoTwoFrom(r)
  BY <1>1 DEF Moved
<1>6. Moved(r, ipc', d, {}, {u}, y)
  BY <1>1, <1>3, <1>4, <1>5, StepSends
<1>7. Len(r["LOG"]) \in Nat /\ Len(ipc'["LOG"]) = Len(r["LOG"]) + n
  BY <1>1, <1>3, <1>4, SendFacts
<1>8. Moved(ipc, ipc', d, {t}, {u}, y)
  BY <1>1, <1>6 DEF Moved
<1>9. Len(ipc'["LOG"]) <= Len(ipc["LOG"]) + most
  BY <1>1, <1>3, <1>7
<1> QED
  BY <1>1, <1>8, <1>9 DEF Exchange

\* No message, or only a log line, is received.
LEMMA NothingMoves ==
  ASSUME TypeInv, TurnInv, NEW y
  PROVE  /\ ipc' = ipc => Exchange(Nobody, {}, {}, y, 0)
         /\ ipc["LOG"] # <<>> /\ ipc' = Rest(ipc, "LOG") => Exchange(Nobody, {}, {}, y, -1)
<1>1. IpcTypes(ipc) /\ NoTwoFrom(ipc) /\ "LOG" \in Channels /\ "LOG" \notin Children
  BY ServerNames DEF TypeInv, TurnInv, Channels
<1>2. Len(ipc["LOG"]) \in Nat
  BY <1>1 DEF IpcTypes
<1>3. ASSUME ipc' = ipc PROVE Exchange(Nobody, {}, {}, y, 0)
  BY <1>1, <1>2, <1>3 DEF Exchange, Moved
<1>4. ASSUME ipc["LOG"] # <<>>, ipc' = Rest(ipc, "LOG") PROVE Exchange(Nobody, {}, {}, y, -1)
  <2>1. /\ \A u \in Channels \ {"LOG"} : ipc'[u] = ipc[u]
        /\ Len(ipc'["LOG"]) \in Nat /\ Len(ipc["LOG"]) = Len(ipc'["LOG"]) + 1
    BY <1>1, <1>4, RestFacts
  <2>2. Len(ipc'["LOG"]) <= Len(ipc["LOG"]) + (-1)
    BY <2>1
  <2>3. \A u \in Channels \ {"LOG"} :
          (NoTwo(ipc', u) <=> NoTwo(ipc, u)) /\ \A c : From(ipc', u, c) <=> From(ipc, u, c)
    BY <2>1 DEF NoTwo, From
  <2>4. \A c \in Children : \A what : Told(ipc', c, what) <=> Told(ipc, c, what)
    BY <1>1, <2>1 DEF Told, Channels
  <2> QED
    BY <1>1, <2>2, <2>3, <2>4 DEF Exchange, Moved, NoTwoFrom
<1> QED
  BY <1>3, <1>4

LEMMA ChildExchanges ==
  ASSUME TypeInv, TurnInv, Room, NEW c \in Children
  PROVE  /\ ChildInit(c) => Exchange(c, {}, {"READY"}, "none", LogLines["init"])
         /\ ChildRenderMode(c) => Exchange(c, {c}, {"RENDER_READY"}, "none", LogLines["mode"])
         /\ ChildLoad(c) => Exchange(c, {c}, {}, "none", 0)
         /\ ChildRender(c) => Exchange(c, {}, {"FRAME_DONE"}, "none", LogLines["frame"])
         /\ ChildExit(c) => Exchange(c, {c}, {"DYING_GASP"}, "none", LogLines["exit"])
         /\ ChildDie(c) => \/ /\ cpc[c] # "wait"
                              /\ Exchange(c, {}, {"DYING_GASP"}, "none", Weight(Left(c)))
                           \/ /\ Gets(c, "RENDER_MODE")
                              /\ Exchange(c, {c}, {"DYING_GASP"}, "none", Weight(Left(c)))
         /\ \A y : Gets(c, y) => At(c, "told") /\ \A x : Told(ipc, c, x) <=> x = y
<1>1. /\ IpcTypes(ipc) /\ NoTwoFrom(ipc) /\ NoTwo(ipc, c) /\ OneTurn(c)
      /\ From(ipc, "DYING_GASP", c) => cpc[c] = "exited"
  BY ServerNames DEF TypeInv, TurnInv, NoTwoFrom, Channels
<1>2. /\ c \in Channels \ {"LOG"} /\ c \notin Server
      /\ Server = {"READY", "VIDEO_READY", "RENDER_READY", "DYING_GASP", "LOG", "FRAME_DONE"}
      /\ Server \subseteq Channels /\ c # Nobody
  BY ServerNames, PipelineAssumption DEF Channels
<1>3. /\ \A t \in {"READY", "RENDER_READY", "DYING_GASP"} : c \in Content(t) /\ Owner(t, c) = c
      /\ Content("FRAME_DONE") = FrameJobs
      /\ \A m : Owner("FRAME_DONE", m) = m.child
      /\ \A m : Owner(c, m) = c
      /\ \A t \in Server : t \notin Children
  BY <1>2, ServerNames DEF Content, Owner
<1>4. ASSUME cpc[c] # "wait"
      PROVE  \A t \in {"READY", "RENDER_READY", "FRAME_DONE"} : ~From(ipc, t, c)
  BY <1>1, <1>4 DEF OneTurn, At, Places
\* The lines that each step may send, out of those that are left.
<1>r. ASSUME NEW most \in Nat, most <= Weight(Left(c)) PROVE Pending(ipc) + 1 + most <= IpcCap
  BY <1>r, RoomFor
<1>5. ASSUME NEW t \in {"READY", "FRAME_DONE", "DYING_GASP"}, NEW m \in Content(t),
             Owner(t, m) = c, ~From(ipc, t, c),
             NEW most \in Nat, most <= Weight(Left(c)), Says(ipc, most, t, m)
      PROVE  Exchange(c, {}, {t}, "none", most)
  <2>1. t \in Channels \ {"LOG"} /\ t \notin Children
    BY <1>2, <1>3
  <2>2. Pending(ipc) + 1 + most <= IpcCap
    BY <1>r, <1>5
  <2> QED
    BY <1>1, <1>5, <2>1, <2>2, Speaks
<1>6. ASSUME NEW y, Gets(c, y)
      PROVE  /\ ipc[c] # <<>> /\ cpc[c] = "wait" /\ From(ipc, c, c)
             /\ \A t \in {"READY", "RENDER_READY", "FRAME_DONE", "DYING_GASP"} : ~From(ipc, t, c)
             /\ \A x : Told(ipc, c, x) <=> x = y
  <2>1. ipc[c] # <<>> /\ cpc[c] = "wait" /\ Head(ipc[c]).type = y
    BY <1>6 DEF Gets
  <2>2. From(ipc, c, c) /\ \A x : Told(ipc, c, x) <=> x = y
    BY <1>1, <2>1, OnlyMessage
  <2>3. \A t \in {"READY", "RENDER_READY", "FRAME_DONE"} : ~From(ipc, t, c)
    BY <1>1, <2>2 DEF OneTurn, At, Places
  <2> QED
    BY <1>1, <2>1, <2>2, <2>3
<1>7. ASSUME NEW y, Gets(c, y), NEW t \in {"RENDER_READY", "DYING_GASP"},
             NEW most \in Nat, most <= Weight(Left(c)), Says(Rest(ipc, c), most, t, c)
      PROVE  Exchange(c, {c}, {t}, "none", most)
  <2>1. /\ t \in Channels \ {"LOG"} /\ t # c /\ t \notin Children
        /\ c \in Content(t) /\ Owner(t, c) = c /\ Owner(c, Head(ipc[c])) = c
    BY <1>2, <1>3
  <2>2. ipc[c] # <<>> /\ ~From(ipc, t, c)
    BY <1>6, <1>7
  <2>3. Pending(ipc) + 1 + most <= IpcCap
    BY <1>r, <1>7
  <2>4. IpcTypes(ipc) /\ NoTwoFrom(ipc) /\ c \in Channels \ {"LOG"}
    BY <1>1, <1>2
  <2> QED
    BY <1>7, <2>1, <2>2, <2>3, <2>4, Answers
<1>w. /\ LogLines["init"] \in Nat /\ LogLines["mode"] \in Nat /\ LogLines["frame"] \in Nat
      /\ LogLines["exit"] \in Nat
      /\ cpc[c] = "init" => /\ LogLines["init"] <= Weight(Left(c))
                            /\ LogLines["init"] + LogLines["exit"] <= Weight(Left(c))
      /\ cpc[c] = "loaded" => /\ LogLines["frame"] <= Weight(Left(c))
                              /\ LogLines["frame"] + LogLines["exit"] <= Weight(Left(c))
      /\ Gets(c, "RENDER_MODE") => /\ LogLines["mode"] <= Weight(Left(c))
                                   /\ LogLines["mode"] + LogLines["exit"] <= Weight(Left(c))
      /\ Gets(c, "EXIT") => LogLines["exit"] <= Weight(Left(c))
      /\ Weight(Left(c)) \in Nat
  <2>1. /\ LogLines["marker"] \in Nat /\ LogLines["renderReady"] \in Nat
        /\ LogLines["ready"] \in Nat
    BY WeightIs
  <2>2. /\ Weight(7) >= LogLines["init"] + LogLines["exit"]
        /\ Weight(5) >= LogLines["mode"] + LogLines["exit"]
        /\ Weight(3) >= LogLines["frame"] + LogLines["exit"] /\ Weight(1) = LogLines["exit"]
        /\ LogLines["init"] \in Nat /\ LogLines["mode"] \in Nat /\ LogLines["frame"] \in Nat
        /\ LogLines["exit"] \in Nat
        /\ Weight(7) \in Nat /\ Weight(5) \in Nat /\ Weight(3) \in Nat
    BY <2>1, WeightIs
  <2>3. Left(c) \in 0 .. 7
    BY LeftIs DEF LeftAt
  <2>4. Weight(Left(c)) \in Nat
    BY <2>3, WeightIs
  <2>5. /\ cpc[c] = "init" => Left(c) = 7
        /\ cpc[c] = "loaded" => Left(c) = 3
        /\ Gets(c, "RENDER_MODE") => Left(c) = 5
        /\ Gets(c, "EXIT") => Left(c) = 1
    BY LeftWhen
  <2> QED
    BY <2>2, <2>4, <2>5
<1>8. ASSUME ChildInit(c) PROVE Exchange(c, {}, {"READY"}, "none", LogLines["init"])
  <2>1. cpc[c] = "init" /\ Says(ipc, LogLines["init"], "READY", c)
    BY <1>8, ChildSays DEF ChildInit
  <2> QED
    BY <1>3, <1>4, <1>5, <1>w, <2>1
<1>9. ASSUME ChildRenderMode(c) PROVE Exchange(c, {c}, {"RENDER_READY"}, "none", LogLines["mode"])
  <2>1. Gets(c, "RENDER_MODE") /\ Says(Rest(ipc, c), LogLines["mode"], "RENDER_READY", c)
    BY <1>9, ChildSays DEF ChildRenderMode
  <2> QED
    BY <1>7, <1>w, <2>1
<1>10. ASSUME ChildLoad(c) PROVE Exchange(c, {c}, {}, "none", 0)
  <2>1. ipc' = Rest(ipc, c) /\ ipc[c] # <<>> /\ Owner(c, Head(ipc[c])) = c
    BY <1>3, <1>10 DEF ChildLoad, Gets
  <2>2. Moved(ipc, ipc', c, {c}, {}, "none") /\ ipc'["LOG"] = ipc["LOG"]
    BY <1>1, <1>2, <2>1, StepReceives
  <2>3. Len(ipc["LOG"]) \in Nat
    BY <1>1, <1>2 DEF IpcTypes
  <2>4. Len(ipc'["LOG"]) <= Len(ipc["LOG"]) + 0
    BY <2>2, <2>3
  <2> QED
    BY <2>2, <2>4 DEF Exchange
<1>11. ASSUME ChildRender(c) PROVE Exchange(c, {}, {"FRAME_DONE"}, "none", LogLines["frame"])
  <2>1. cpc[c] = "loaded" /\ job[c] \in FrameJobs /\ job[c].child = c
    BY <1>11 DEF ChildRender, TypeInv, WorkTypes
  <2>2. Says(ipc, LogLines["frame"], "FRAME_DONE", job[c]) /\ ~From(ipc, "FRAME_DONE", c)
    BY <1>4, <1>11, <2>1, ChildSays
  <2> QED
    BY <1>3, <1>5, <1>w, <2>1, <2>2
<1>12. ASSUME ChildExit(c) PROVE Exchange(c, {c}, {"DYING_GASP"}, "none", LogLines["exit"])
  <2>1. Gets(c, "EXIT") /\ Says(Rest(ipc, c), LogLines["exit"], "DYING_GASP", c)
    BY <1>12, ChildSays DEF ChildExit
  <2> QED
    BY <1>7, <1>w, <2>1
\* More lines than are said is a bound as good.
<1>s. ASSUME NEW q, NEW least \in Nat, least <= Weight(Left(c)), Says(q, least, "DYING_GASP", c)
      PROVE  Says(q, Weight(Left(c)), "DYING_GASP", c)
  BY <1>s, <1>w DEF Says
<1>13. ASSUME ChildDie(c)
       PROVE  \/ /\ cpc[c] # "wait"
                 /\ Exchange(c, {}, {"DYING_GASP"}, "none", Weight(Left(c)))
              \/ /\ Gets(c, "RENDER_MODE")
                 /\ Exchange(c, {c}, {"DYING_GASP"}, "none", Weight(Left(c)))
  <2>1. \/ cpc[c] = "init" /\ Says(ipc, LogLines["init"] + LogLines["exit"], "DYING_GASP", c)
        \/ cpc[c] = "loaded" /\ Says(ipc, LogLines["frame"] + LogLines["exit"], "DYING_GASP", c)
        \/ Gets(c, "RENDER_MODE")
           /\ Says(Rest(ipc, c), LogLines["mode"] + LogLines["exit"], "DYING_GASP", c)
    BY <1>13, ChildSays
  <2>2. /\ LogLines["init"] + LogLines["exit"] \in Nat /\ LogLines["mode"] + LogLines["exit"] \in Nat
        /\ LogLines["frame"] + LogLines["exit"] \in Nat
    BY <1>w
  <2>3. \/ cpc[c] \in {"init", "loaded"} /\ Says(ipc, Weight(Left(c)), "DYING_GASP", c)
        \/ /\ Gets(c, "RENDER_MODE")
           /\ Says(Rest(ipc, c), Weight(Left(c)), "DYING_GASP", c)
    BY <1>s, <1>w, <2>1, <2>2
  <2>4. Weight(Left(c)) \in Nat /\ Weight(Left(c)) <= Weight(Left(c))
    BY <1>w
  <2>5. CASE cpc[c] \in {"init", "loaded"} /\ Says(ipc, Weight(Left(c)), "DYING_GASP", c)
    <3>1. ~From(ipc, "DYING_GASP", c)
      BY <1>1, <2>5
    <3>2. Exchange(c, {}, {"DYING_GASP"}, "none", Weight(Left(c)))
      BY <1>3, <1>5, <2>4, <2>5, <3>1
    <3> QED
      BY <2>5, <3>2
  <2>6. CASE Gets(c, "RENDER_MODE") /\ Says(Rest(ipc, c), Weight(Left(c)), "DYING_GASP", c)
    BY <1>7, <2>4, <2>6
  <2> QED
    BY <2>3, <2>5, <2>6
<1>14. ASSUME NEW y, Gets(c, y) PROVE At(c, "told") /\ \A x : Told(ipc, c, x) <=> x = y
  BY <1>6, <1>14 DEF At
<1> QED
  BY <1>8, <1>9, <1>10, <1>11, <1>12, <1>13, <1>14

LEMMA ServerExchanges ==
  ASSUME TypeInv, TurnInv, Room
  PROVE  /\ VideoStart => Exchange(Nobody, {}, {"VIDEO_READY"}, "none", LogLines["video"])
         /\ AwaitVideo => Exchange(Nobody, {"VIDEO_READY"}, {}, "none", 0)
         /\ OnOther("DYING_GASP") =>
              \E d \in Children : Exchange(d, {"DYING_GASP"}, {}, "none", 0)
         /\ OnReady =>
              \E d \in Children : \E y \in {"RENDER_MODE", "EXIT"} :
                At(d, "READY") /\ Exchange(d, {"READY"}, {d}, y, LogLines["ready"])
         /\ OnRenderReady =>
              \E d \in Children : /\ At(d, "RENDER_READY") /\ cur'.child = d
                                  /\ Exchange(d, {"RENDER_READY"}, {}, "none",
                                              LogLines["renderReady"])
         /\ OnFrameDone =>
              \E d \in Children : /\ At(d, "FRAME_DONE") /\ cur'.child = d
                                  /\ Exchange(d, {"FRAME_DONE"}, {}, "none", 0)
<1>1. /\ IpcTypes(ipc) /\ NoTwoFrom(ipc) /\ \A c \in Children : OneTurn(c)
      /\ Pending(ipc) \in Nat /\ IpcCap \in Nat /\ Pending(ipc) + 1 <= IpcCap
  BY RoomFor, PipelineAssumption DEF TypeInv, TurnInv
<1>2. /\ Server = {"READY", "VIDEO_READY", "RENDER_READY", "DYING_GASP", "LOG", "FRAME_DONE"}
      /\ Channels = Server \cup Children /\ Server \cap Children = {}
      /\ Nobody \notin Children
  BY ServerNames, PipelineAssumption DEF Channels
<1>3. /\ \A t \in {"READY", "RENDER_READY", "DYING_GASP"} :
           Content(t) = Children /\ \A m : Owner(t, m) = m
      /\ Content("FRAME_DONE") = FrameJobs /\ \A m : Owner("FRAME_DONE", m) = m.child
      /\ "ready" \in Content("VIDEO_READY") /\ \A m : Owner("VIDEO_READY", m) = Nobody
      /\ \A c \in Children : Content(c) = ToChild /\ \A m : Owner(c, m) = c
  BY <1>2 DEF Content, Owner
<1>4. Len(ipc["LOG"]) \in Nat
  BY <1>1, <1>2 DEF IpcTypes
<1>5. ASSUME NEW t \in Server \ {"LOG"}, ipc[t] # <<>>, NEW d, Owner(t, Head(ipc[t])) = d
      PROVE  /\ From(ipc, t, d) /\ Head(ipc[t]) \in Content(t)
             /\ ipc' = Rest(ipc, t) => Exchange(d, {t}, {}, "none", 0)
             /\ \A n \in Nat : Pending(ipc) + 1 + n <= IpcCap /\ ipc' = Logged(Rest(ipc, t), n)
                                 => Exchange(d, {t}, {}, "none", n)
  <2> DEFINE r == Rest(ipc, t)
  <2>1. t \in Channels \ {"LOG"} /\ "LOG" \notin Children
    BY <1>2
  <2>2. /\ Moved(ipc, r, d, {t}, {}, "none") /\ From(ipc, t, d)
        /\ IpcTypes(r) /\ Pending(r) <= Pending(ipc) /\ Pending(r) \in Nat
        /\ r["LOG"] = ipc["LOG"]
    BY <1>1, <1>5, <2>1, StepReceives
  <2>3. Head(ipc[t]) \in Content(t)
    BY <1>1, <1>5, <2>1, RestTypes
  <2> HIDE DEF r
  <2>5. ASSUME ipc' = r PROVE Exchange(d, {t}, {}, "none", 0)
    <3>1. Len(ipc'["LOG"]) <= Len(ipc["LOG"]) + 0
      BY <1>4, <2>2, <2>5
    <3> QED
      BY <2>2, <2>5, <3>1 DEF Exchange
  <2>6. ASSUME NEW n \in Nat, Pending(ipc) + 1 + n <= IpcCap, ipc' = Logged(r, n)
        PROVE  Exchange(d, {t}, {}, "none", n)
    <3>0. Pending(r) + 1 + n <= IpcCap
      BY <1>1, <2>2, <2>6
    <3>1. /\ \A u \in Channels \ {"LOG"} : ipc'[u] = r[u]
          /\ Len(ipc'["LOG"]) = Len(r["LOG"]) + n
      BY <2>2, <2>6, <3>0, LoggedFacts
    <3>2. \A u \in Channels \ {"LOG"} :
            (NoTwo(ipc', u) <=> NoTwo(r, u)) /\ \A c : From(ipc', u, c) <=> From(r, u, c)
      BY <3>1 DEF NoTwo, From
    <3>3. \A c \in Children : \A y : Told(ipc', c, y) <=> Told(r, c, y)
      BY <1>2, <3>1 DEF Told
    <3>4. Moved(ipc, ipc', d, {t}, {}, "none")
      BY <2>2, <3>2, <3>3 DEF Moved, NoTwoFrom
    <3>5. Len(ipc'["LOG"]) <= Len(ipc["LOG"]) + n
      BY <1>4, <2>2, <3>1
    <3> QED
      BY <3>4, <3>5 DEF Exchange
  <2> QED
    BY <2>2, <2>3, <2>5, <2>6 DEF r
<1>6. ASSUME VideoStart
      PROVE  Exchange(Nobody, {}, {"VIDEO_READY"}, "none", LogLines["video"])
  <2>1. /\ Says(ipc, LogLines["video"], "VIDEO_READY", "ready")
        /\ ~From(ipc, "VIDEO_READY", Nobody) /\ vpc = "init"
    BY <1>6, ServerSays DEF VideoStart, TurnInv
  <2>2. "VIDEO_READY" \in Channels \ {"LOG"} /\ "VIDEO_READY" \notin Children
    BY <1>2
  <2>3. Owner("VIDEO_READY", "ready") = Nobody /\ "ready" \in Content("VIDEO_READY")
    BY <1>3
  <2>4. LogLines["video"] \in Nat /\ Pending(ipc) + 1 + LogLines["video"] <= IpcCap
    BY <2>1, RoomFor, WeightIs
  <2> QED
    BY <1>1, <2>1, <2>2, <2>3, <2>4, Speaks
<1>7. ASSUME AwaitVideo PROVE Exchange(Nobody, {"VIDEO_READY"}, {}, "none", 0)
  BY <1>2, <1>3, <1>5, <1>7 DEF AwaitVideo
<1>8. ASSUME OnOther("DYING_GASP")
      PROVE  \E d \in Children : Exchange(d, {"DYING_GASP"}, {}, "none", 0)
  BY <1>2, <1>3, <1>5, <1>8 DEF OnOther, Chosen
<1>9. ASSUME OnReady
      PROVE  \E d \in Children : \E y \in {"RENDER_MODE", "EXIT"} :
               At(d, "READY") /\ Exchange(d, {"READY"}, {d}, y, LogLines["ready"])
  <2>1. PICK d, m :
          /\ d = Head(ipc["READY"]) /\ ipc["READY"] # <<>>
          /\ m = [type |-> IF capable[d] THEN "RENDER_MODE" ELSE "EXIT"]
          /\ Says(Rest(ipc, "READY"), LogLines["ready"], d, m)
    BY <1>9, ServerSays DEF OnReady, Chosen
  <2>2. "READY" \in Server \ {"LOG"} /\ Owner("READY", Head(ipc["READY"])) = d
        /\ Content("READY") = Children
    BY <1>2, <1>3, <2>1
  <2>3. From(ipc, "READY", d) /\ d \in Children
    BY <1>5, <2>1, <2>2
  <2>4. m \in ToChild /\ m.type \in {"RENDER_MODE", "EXIT"}
    BY <2>1 DEF ToChild
  <2>5. Owner(d, m) = d /\ m \in Content(d)
    BY <1>3, <2>3, <2>4
  <2>6. At(d, "READY") /\ ~From(ipc, d, d)
    BY <1>1, <2>3 DEF At, OneTurn, Places
  <2>7. "READY" \in Channels \ {"LOG"} /\ d \in Channels \ {"LOG"} /\ d # "READY"
    BY <1>2, <2>3
  <2>8. LogLines["ready"] \in Nat /\ Pending(ipc) + 1 + LogLines["ready"] <= IpcCap
    <3>1. Left(d) = 6
      BY <2>3, <2>6, LeftIs DEF LeftAt
    <3>2. LogLines["ready"] \in Nat /\ LogLines["ready"] <= Weight(6)
      BY WeightIs
    <3> QED
      BY <2>3, <3>1, <3>2, RoomFor
  <2>9. IpcTypes(ipc) /\ NoTwoFrom(ipc) /\ ipc["READY"] # <<>>
    BY <1>1, <2>1
  <2>10. Exchange(d, {"READY"}, {d}, m.type, LogLines["ready"])
    BY <2>1, <2>2, <2>5, <2>6, <2>7, <2>8, <2>9, Answers
  <2> QED
    BY <2>3, <2>4, <2>6, <2>10
<1>10. ASSUME OnRenderReady
       PROVE  \E d \in Children : /\ At(d, "RENDER_READY") /\ cur'.child = d
                                  /\ Exchange(d, {"RENDER_READY"}, {}, "none",
                                              LogLines["renderReady"])
  <2> DEFINE d == Head(ipc["RENDER_READY"])
  <2>1. PICK n \in Nat :
          n <= LogLines["renderReady"] /\ ipc' = Logged(Rest(ipc, "RENDER_READY"), n)
    BY <1>10, ServerSays
  <2>2. cur'.child = d /\ ipc["RENDER_READY"] # <<>>
    <3>1. \A child : [NoJob EXCEPT !.child = child].child = child
      BY Zenon DEF NoJob
    <3>2. ipc["RENDER_READY"] # <<>> /\ cur' = [NoJob EXCEPT !.child = d]
      BY <1>10 DEF OnRenderReady, Chosen
    <3> QED
      BY <3>1, <3>2, Zenon
  <2>3. "RENDER_READY" \in Server \ {"LOG"} /\ Owner("RENDER_READY", d) = d
        /\ Content("RENDER_READY") = Children
    BY <1>2, <1>3
  <2>4. From(ipc, "RENDER_READY", d) /\ d \in Children
    BY <1>5, <2>2, <2>3
  <2>5. Pending(ipc) + 1 + n <= IpcCap
    <3>1. Left(d) = 4
      BY <2>4, LeftIs DEF LeftAt, At
    <3>2. n <= Weight(4)
      BY <2>1, WeightIs
    <3>3. n <= Weight(Left(d))
      BY <3>1, <3>2
    <3>4. PICK c \in Children : n <= Weight(Left(c))
      BY <2>4, <3>3
    <3> QED
      BY <3>4, RoomFor
  <2>6. Exchange(d, {"RENDER_READY"}, {}, "none", n)
    BY <1>5, <2>1, <2>2, <2>3, <2>5
  <2>7. Exchange(d, {"RENDER_READY"}, {}, "none", LogLines["renderReady"])
    <3>1. LogLines["renderReady"] \in Nat /\ Len(ipc'["LOG"]) <= Len(ipc["LOG"]) + n
      BY <2>6, WeightIs DEF Exchange
    <3>2. ipc'["LOG"] \in Seq(Content("LOG"))
      <4>1. IpcTypes(ipc')
        BY <1>1, <2>1, <2>2, <2>3, RestTypes, LoggedTypes DEF Channels
      <4> QED
        BY <4>1, <1>2 DEF IpcTypes
    <3>3. Len(ipc'["LOG"]) <= Len(ipc["LOG"]) + LogLines["renderReady"]
      BY <1>4, <2>1, <3>1, <3>2
    <3> QED
      BY <2>6, <3>3 DEF Exchange
  <2> QED
    BY <2>2, <2>4, <2>7 DEF At
<1>11. ASSUME OnFrameDone
       PROVE  \E d \in Children : /\ At(d, "FRAME_DONE") /\ cur'.child = d
                                  /\ Exchange(d, {"FRAME_DONE"}, {}, "none", 0)
  <2> DEFINE d == Head(ipc["FRAME_DONE"]).child
  <2>1. ipc' = Rest(ipc, "FRAME_DONE") /\ ipc["FRAME_DONE"] # <<>>
        /\ cur' = Head(ipc["FRAME_DONE"])
    BY <1>11 DEF OnFrameDone, Chosen
  <2>2. "FRAME_DONE" \in Server \ {"LOG"} /\ Owner("FRAME_DONE", Head(ipc["FRAME_DONE"])) = d
        /\ Content("FRAME_DONE") = FrameJobs
    BY <1>2, <1>3
  <2>3. /\ From(ipc, "FRAME_DONE", d) /\ Head(ipc["FRAME_DONE"]) \in FrameJobs
        /\ Exchange(d, {"FRAME_DONE"}, {}, "none", 0)
    BY <1>5, <2>1, <2>2
  <2>4. d \in Children
    BY <2>3 DEF FrameJobs
  <2> QED
    BY <2>1, <2>3, <2>4 DEF At
<1> QED
  BY <1>6, <1>7, <1>8, <1>9, <1>10, <1>11

LEMMA ServiceExchanges ==
  ASSUME TypeInv, TurnInv, Room
  PROVE  /\ NextFrame => /\ At(cur.child, "served")
                         /\ \/ ppc' = "putBack" /\ UNCHANGED <<cur, ipc>>
                            \/ /\ ppc' = "videoIn"
                               /\ Exchange(cur.child, {}, {cur.child}, "RENDER_FRAME", 0)
         /\ PutBack => /\ At(cur.child, "served")
                       /\ Exchange(cur.child, {}, {cur.child}, "EXIT", LogLines["marker"])
<1> DEFINE d == cur.child
<1>1. /\ IpcTypes(ipc) /\ NoTwoFrom(ipc) /\ \A c \in Children : OneTurn(c)
      /\ Pending(ipc) \in Nat /\ IpcCap \in Nat /\ Pending(ipc) + 1 <= IpcCap
  BY RoomFor, PipelineAssumption DEF TypeInv, TurnInv
<1>2. Len(ipc["LOG"]) \in Nat /\ \A c \in Children : c \in Channels \ {"LOG"}
  BY <1>1, ServerNames DEF IpcTypes, Channels
<1>3. ASSUME ppc \in {"next", "putBack"}
      PROVE  /\ d \in Children /\ At(d, "served") /\ ~From(ipc, d, d)
             /\ d \in Channels \ {"LOG"}
             /\ Content(d) = ToChild /\ \A m : Owner(d, m) = d
  <2>1. d \in Children /\ At(d, "served")
    BY <1>3 DEF TypeInv, WorkTypes, Serving, At, Served
  <2>2. ~From(ipc, d, d)
    BY <1>1, <2>1 DEF OneTurn, At, Places
  <2> QED
    BY <1>2, <2>1, <2>2 DEF Content, Owner
<1>4. ASSUME NextFrame
      PROVE  /\ At(d, "served")
             /\ \/ ppc' = "putBack" /\ UNCHANGED <<cur, ipc>>
                \/ ppc' = "videoIn" /\ Exchange(d, {}, {d}, "RENDER_FRAME", 0)
  <2> DEFINE msg == Head(ChildMsgQ)
             m == [type |-> "RENDER_FRAME", frameNum |-> msg.frameNum, indexIn |-> msg.indexIn]
  <2>1. /\ ppc = "next" /\ ChildMsgQ # <<>>
        /\ \/ ppc' = "putBack" /\ UNCHANGED <<cur, ipc>>
           \/ /\ msg.frameNum # EndOfInput /\ ipc' = Post(ipc, d, m) /\ ppc' = "videoIn"
    BY <1>4 DEF NextFrame
  <2>2. ASSUME msg.frameNum # EndOfInput, ipc' = Post(ipc, d, m)
        PROVE  Exchange(d, {}, {d}, "RENDER_FRAME", 0)
    <3>1. msg \in [frameNum : Frames, indexIn : Slots]
      <4>1. msg \in [frameNum : Frames, indexIn : Slots] \cup {EndMsg}
        BY <2>1, HeadTailProperties DEF TypeInv, TypeOK
      <4> QED
        BY <2>2, <4>1 DEF EndMsg
    <3>2. m \in ToChild /\ m.type = "RENDER_FRAME"
      BY <3>1 DEF ToChild
    <3> HIDE DEF m, msg
    <3>3. Moved(ipc, ipc', d, {}, {d}, "RENDER_FRAME")
      <4>1. 0 \in Nat /\ Pending(ipc) + 1 + 0 <= IpcCap
        BY <1>1
      <4> QED
        BY <1>1, <1>3, <2>1, <2>2, <3>2, <4>1, StepSends
    <3>4. Pending(ipc) < IpcCap
      BY <1>1
    <3>5. ipc'["LOG"] = ipc["LOG"]
      <4>1. "LOG" \in Channels \ {d} /\ d \in Channels /\ m \in Content(d)
        BY <1>3, <2>1, <3>2, ServerNames DEF Channels
      <4> QED
        BY <1>1, <2>2, <3>4, <4>1, PostFacts
    <3>6. Len(ipc'["LOG"]) <= Len(ipc["LOG"]) + 0
      BY <1>2, <3>5
    <3> QED
      BY <3>3, <3>6 DEF Exchange
  <2> QED
    BY <1>3, <2>1, <2>2
<1>5. ASSUME PutBack
      PROVE  At(d, "served") /\ Exchange(d, {}, {d}, "EXIT", LogLines["marker"])
  <2> DEFINE m == [type |-> "EXIT"]
  <2>1. Says(ipc, LogLines["marker"], d, m) /\ ppc = "putBack"
    BY <1>5, ServerSays DEF PutBack
  <2>2. m \in ToChild /\ m.type = "EXIT"
    BY DEF ToChild
  <2> HIDE DEF m
  <2>3. LogLines["marker"] \in Nat /\ Pending(ipc) + 1 + LogLines["marker"] <= IpcCap
    <3>1. Left(d) = 3
      BY <1>3, <2>1, LeftIs DEF LeftAt
    <3>2. LogLines["marker"] \in Nat /\ LogLines["marker"] <= Weight(3)
      BY WeightIs
    <3> QED
      BY <1>3, <2>1, <3>1, <3>2, RoomFor
  <2>4. Exchange(d, {}, {d}, "EXIT", LogLines["marker"])
    BY <1>1, <1>3, <2>1, <2>2, <2>3, Speaks
  <2> QED
    BY <1>3, <2>1, <2>4
<1> QED
  BY <1>4, <1>5
-----------------------------------------------------------------------------
(***************************************************************************)
(* Turn taking.                                                            *)
(***************************************************************************)

\* The turn of child d, and no other, goes from one place to another, and the
\* messages that carry it are among those taken and sent.
TurnGoes(d, took, gave, old, new) ==
  /\ \A c \in Children :
       /\ (cpc'[c] # "wait") <=>
            (cpc[c] # "wait" /\ ~(c = d /\ old = "works")) \/ (c = d /\ new = "works")
       /\ Served(c)' <=>
            (Served(c) /\ ~(c = d /\ old = "served")) \/ (c = d /\ new = "served")
       /\ (c \in took <=> c = d /\ old = "told") /\ (c \in gave <=> c = d /\ new = "told")
       /\ cpc[c] = "exited" => cpc'[c] = "exited"
  /\ \A place \in {"READY", "RENDER_READY", "FRAME_DONE"} :
       (place \in took <=> place = old) /\ (place \in gave <=> place = new)

\* An exchange that takes child d's turn from one place to another, or takes and
\* sends other messages only, keeps the invariant.
LEMMA TurnsKept ==
  ASSUME TypeInv, TurnInv, NEW d, NEW took \in SUBSET Channels, NEW gave \in SUBSET Channels,
         NEW y, NEW lines, Exchange(d, took, gave, y, lines), NEW old, NEW new,
         \/ d \in Children /\ old \in Places /\ new \in Places /\ At(d, old)
         \/ old = "none" /\ new = "none",
         TurnGoes(d, took, gave, old, new),
         "DYING_GASP" \in gave => cpc'[d] = "exited",
         "VIDEO_READY" \in gave => vpc' # "init", vpc' = "init" => vpc = "init"
  PROVE  TurnInv'
<1>1. /\ \A c \in Children : OneTurn(c)
      /\ \A c \in Children : c \notin Server
      /\ Server = {"READY", "VIDEO_READY", "RENDER_READY", "DYING_GASP", "LOG", "FRAME_DONE"}
      /\ Channels = Server \cup Children
  BY ServerNames DEF TurnInv, Channels
<1>2. NoTwoFrom(ipc')
  BY DEF Exchange, Moved
<1>3. \A u \in Channels \ {"LOG"} : \A c :
        From(ipc', u, c) <=> (From(ipc, u, c) /\ ~(u \in took /\ c = d)) \/ (u \in gave /\ c = d)
  BY DEF Exchange, Moved
<1>4. ASSUME NEW c \in Children, NEW place \in Places
      PROVE  At(c, place)' <=> (At(c, place) /\ ~(c = d /\ place = old)) \/ (c = d /\ place = new)
  <2>1. CASE place = "works"
    BY <2>1 DEF At, TurnGoes
  <2>2. CASE place = "served"
    BY <2>2 DEF At, TurnGoes
  <2>3. CASE place = "told"
    <3>1. c \in Channels \ {"LOG"}
      BY <1>1
    <3>2. From(ipc', c, c) <=> (From(ipc, c, c) /\ ~(c \in took /\ c = d)) \/ (c \in gave /\ c = d)
      BY <1>3, <3>1
    <3>3. (c \in took <=> c = d /\ old = "told") /\ (c \in gave <=> c = d /\ new = "told")
      BY DEF TurnGoes
    <3> QED
      BY <2>3, <3>2, <3>3 DEF At
  <2>4. CASE place \in {"READY", "RENDER_READY", "FRAME_DONE"}
    <3>1. place \in Channels \ {"LOG"}
      BY <1>1, <2>4
    <3>2. From(ipc', place, c) <=> (From(ipc, place, c) /\ ~(place \in took /\ c = d))
                                   \/ (place \in gave /\ c = d)
      BY <1>3, <3>1
    <3>3. (place \in took <=> place = old) /\ (place \in gave <=> place = new)
      BY <2>4 DEF TurnGoes
    <3> QED
      BY <2>4, <3>2, <3>3 DEF At
  <2> QED
    BY <2>1, <2>2, <2>3, <2>4 DEF Places
<1>5. \A c \in Children : OneTurn(c)'
  <2>1. CASE d \in Children /\ old \in Places /\ new \in Places /\ At(d, old)
    BY <1>1, <1>4, <2>1, TurnMoves
  <2>2. CASE old = "none" /\ new = "none"
    <3>1. \A c \in Children : \A place \in Places : At(c, place)' <=> At(c, place)
      BY <1>4, <2>2 DEF Places
    <3> SUFFICES ASSUME NEW c \in Children PROVE OneTurn(c)'
      OBVIOUS
    <3>2. PICK p \in Places : \A other \in Places : At(c, other) <=> other = p
      BY <1>1 DEF OneTurn
    <3> QED
      BY <3>1, <3>2 DEF OneTurn
  <2> QED
    BY <2>1, <2>2
<1>6. \A c \in Children : From(ipc', "DYING_GASP", c) => cpc'[c] = "exited"
  <2>1. \A c \in Children : cpc[c] = "exited" => cpc'[c] = "exited"
    BY DEF TurnGoes
  <2> QED
    BY <1>1, <1>3, <2>1 DEF TurnInv
<1>7. vpc' = "init" => ~From(ipc', "VIDEO_READY", Nobody)
  BY <1>1, <1>3 DEF TurnInv
<1> QED
  BY <1>2, <1>5, <1>6, <1>7 DEF TurnInv

LEMMA ChildKeepsTurns ==
  ASSUME TypeInv, TurnInv, Room, NEW d \in Children, Child(d)
  PROVE  TurnInv'
<1>1. /\ cpc \in [Children -> {"unborn", "init", "wait", "loaded", "exited"}]
      /\ \A c \in Children : c \notin Server
      /\ Server = {"READY", "VIDEO_READY", "RENDER_READY", "DYING_GASP", "LOG", "FRAME_DONE"}
      /\ Channels = Server \cup Children /\ Nobody \notin Children
  BY PlacesAndNames
<1> USE DEF videoVars, mainVars, childVars
<1>2. OneTurn(d) /\ (From(ipc, "DYING_GASP", d) => cpc[d] = "exited")
  BY DEF TurnInv
<1>3. UNCHANGED <<vpc, ppc, cur>> /\ \A c \in Children : Served(c)' <=> Served(c)
  BY DEF Child, ChildInit, ChildRenderMode, ChildLoad, ChildRender, ChildExit, ChildDie, Served
<1>4. ASSUME NEW took, NEW gave, NEW lines, Exchange(d, took, gave, "none", lines),
             NEW old \in {"works", "told"}, NEW new \in Places, At(d, old),
             cpc[d] # "exited", old = "told" => cpc[d] = "wait",
             took = IF old = "told" THEN {d} ELSE {},
             \/ new = "works" /\ gave = {} /\ cpc' = [cpc EXCEPT ![d] = "loaded"]
             \/ new = "works" /\ gave = {"DYING_GASP"} /\ cpc' = [cpc EXCEPT ![d] = "exited"]
             \/ /\ new \in {"READY", "RENDER_READY", "FRAME_DONE"} /\ gave = {new}
                /\ cpc' = [cpc EXCEPT ![d] = "wait"]
      PROVE  TurnInv'
  <2>1. took \in SUBSET Channels /\ gave \in SUBSET Channels /\ old \in Places
    BY <1>1, <1>4 DEF Places
  <2>2. ASSUME NEW c \in Children
        PROVE  /\ (cpc'[c] # "wait") <=>
                    (cpc[c] # "wait" /\ ~(c = d /\ old = "works")) \/ (c = d /\ new = "works")
               /\ cpc[c] = "exited" => cpc'[c] = "exited"
    BY <1>1, <1>4
  <2>3. ASSUME NEW c \in Children
        PROVE  /\ Served(c)' <=>
                    (Served(c) /\ ~(c = d /\ old = "served")) \/ (c = d /\ new = "served")
               /\ (c \in took <=> c = d /\ old = "told") /\ (c \in gave <=> c = d /\ new = "told")
    BY <1>1, <1>3, <1>4
  <2>4. \A place \in {"READY", "RENDER_READY", "FRAME_DONE"} :
          (place \in took <=> place = old) /\ (place \in gave <=> place = new)
    BY <1>1, <1>4
  <2>5. /\ "DYING_GASP" \in gave => cpc'[d] = "exited"
        /\ "VIDEO_READY" \notin gave /\ vpc' = vpc
    BY <1>1, <1>3, <1>4
  <2>6. \/ d \in Children /\ old \in Places /\ new \in Places /\ At(d, old)
        \/ old = "none" /\ new = "none"
    BY <1>4, <2>1
  <2>7. Exchange(d, took, gave, "none", lines)
    BY <1>4
  <2>8. TurnGoes(d, took, gave, old, new)
    BY <2>2, <2>3, <2>4 DEF TurnGoes
  <2> HIDE <1>4
  <2> QED
    BY <2>1, <2>5, <2>6, <2>7, <2>8, TurnsKept
<1>5. \A y : Gets(d, y) => At(d, "told") /\ cpc[d] = "wait"
  BY ChildExchanges DEF Gets
<1>6. cpc[d] # "wait" => At(d, "works")
  BY DEF At
<1>7. CASE ChildInit(d)
  <2>1. Exchange(d, {}, {"READY"}, "none", LogLines["init"])
    BY <1>7, ChildExchanges
  <2>2. cpc[d] = "init" /\ cpc' = [cpc EXCEPT ![d] = "wait"]
    BY <1>7 DEF ChildInit
  <2> QED
    BY <1>4, <1>6, <2>1, <2>2 DEF Places
<1>8. CASE ChildRenderMode(d)
  <2>1. Exchange(d, {d}, {"RENDER_READY"}, "none", LogLines["mode"])
    BY <1>8, ChildExchanges
  <2>2. At(d, "told") /\ cpc[d] = "wait" /\ cpc' = cpc
    BY <1>5, <1>8 DEF ChildRenderMode
  <2>3. cpc' = [cpc EXCEPT ![d] = "wait"]
    BY <1>1, <2>2
  <2> QED
    BY <1>4, <2>1, <2>2, <2>3 DEF Places
<1>9. CASE ChildLoad(d)
  <2>1. Exchange(d, {d}, {}, "none", 0)
    BY <1>9, ChildExchanges
  <2>2. At(d, "told") /\ cpc[d] = "wait" /\ cpc' = [cpc EXCEPT ![d] = "loaded"]
    BY <1>5, <1>9 DEF ChildLoad
  <2> QED
    BY <1>4, <2>1, <2>2 DEF Places
<1>10. CASE ChildRender(d)
  <2>1. Exchange(d, {}, {"FRAME_DONE"}, "none", LogLines["frame"])
    BY <1>10, ChildExchanges
  <2>2. cpc[d] = "loaded" /\ cpc' = [cpc EXCEPT ![d] = "wait"]
    BY <1>10 DEF ChildRender
  <2> QED
    BY <1>4, <1>6, <2>1, <2>2 DEF Places
<1>11. CASE ChildExit(d)
  <2>1. Exchange(d, {d}, {"DYING_GASP"}, "none", LogLines["exit"])
    BY <1>11, ChildExchanges
  <2>2. At(d, "told") /\ cpc[d] = "wait" /\ cpc' = [cpc EXCEPT ![d] = "exited"]
    BY <1>5, <1>11 DEF ChildExit
  <2> QED
    BY <1>4, <2>1, <2>2 DEF Places
<1>12. CASE ChildDie(d)
  <2>1. \/ cpc[d] # "wait" /\ Exchange(d, {}, {"DYING_GASP"}, "none", Weight(Left(d)))
        \/ Gets(d, "RENDER_MODE") /\ Exchange(d, {d}, {"DYING_GASP"}, "none", Weight(Left(d)))
    BY <1>12, ChildExchanges
  <2>2. cpc[d] # "exited" /\ cpc' = [cpc EXCEPT ![d] = "exited"]
    BY <1>12 DEF ChildDie, Gets
  <2>3. CASE cpc[d] # "wait" /\ Exchange(d, {}, {"DYING_GASP"}, "none", Weight(Left(d)))
    BY <1>4, <1>6, <2>2, <2>3 DEF Places
  <2>4. CASE Gets(d, "RENDER_MODE") /\ Exchange(d, {d}, {"DYING_GASP"}, "none", Weight(Left(d)))
    BY <1>4, <1>5, <2>2, <2>4 DEF Places
  <2> QED
    BY <2>1, <2>3, <2>4
<1> QED
  BY <1>7, <1>8, <1>9, <1>10, <1>11, <1>12 DEF Child

LEMMA ServerKeepsTurns ==
  ASSUME TypeInv, TurnInv, Room, VideoInThread \/ Main
  PROVE  TurnInv'
<1>1. /\ cpc \in [Children -> {"unborn", "init", "wait", "loaded", "exited"}]
      /\ \A c \in Children : c \notin Server
      /\ Server = {"READY", "VIDEO_READY", "RENDER_READY", "DYING_GASP", "LOG", "FRAME_DONE"}
      /\ Channels = Server \cup Children /\ Nobody \notin Children
  BY PlacesAndNames
<1> USE DEF videoVars, mainVars, childVars
<1>2. \A c \in Children : cpc[c] # "wait" => ~Served(c)
  BY DEF TurnInv, OneTurn, At, Places
\* No child's turn moves.
<1>3. ASSUME NEW d, NEW took \in SUBSET {"VIDEO_READY", "DYING_GASP"},
             NEW gave \in SUBSET {"VIDEO_READY"}, NEW lines,
             Exchange(d, took, gave, "none", lines),
             \A c \in Children : /\ (cpc'[c] # "wait") <=> (cpc[c] # "wait")
                                 /\ Served(c)' <=> Served(c)
                                 /\ cpc[c] = "exited" => cpc'[c] = "exited",
             "VIDEO_READY" \in gave => vpc' # "init", vpc' = "init" => vpc = "init"
      PROVE  TurnInv'
  <2>1. took \in SUBSET Channels /\ gave \in SUBSET Channels
    BY <1>1, <1>3
  <2>2. ASSUME NEW c \in Children PROVE c \notin took /\ c \notin gave
    BY <1>1, <1>3
  <2>3. \A place \in {"READY", "RENDER_READY", "FRAME_DONE"} : place \notin took /\ place \notin gave
    BY <1>3
  <2>4. "DYING_GASP" \notin gave
    BY <1>3
  <2> DEFINE old == "none"
  <2>5. \A c \in Children :
          /\ (cpc'[c] # "wait") <=>
               (cpc[c] # "wait" /\ ~(c = d /\ old = "works")) \/ (c = d /\ old = "works")
          /\ Served(c)' <=>
               (Served(c) /\ ~(c = d /\ old = "served")) \/ (c = d /\ old = "served")
          /\ (c \in took <=> c = d /\ old = "told") /\ (c \in gave <=> c = d /\ old = "told")
          /\ cpc[c] = "exited" => cpc'[c] = "exited"
    BY <1>3, <2>2
  <2>6. \A place \in {"READY", "RENDER_READY", "FRAME_DONE"} :
          (place \in took <=> place = old) /\ (place \in gave <=> place = old)
    BY <2>3
  <2>7. old = "none"
    OBVIOUS
  <2> HIDE DEF old
  <2>8. \/ d \in Children /\ old \in Places /\ old \in Places /\ At(d, old)
        \/ old = "none" /\ old = "none"
    BY <2>7
  <2>9. "DYING_GASP" \in gave => cpc'[d] = "exited"
    BY <2>4
  <2>10. /\ TypeInv /\ TurnInv /\ Exchange(d, took, gave, "none", lines)
         /\ "VIDEO_READY" \in gave => vpc' # "init"
         /\ vpc' = "init" => vpc = "init"
    BY <1>3
  <2>11. TurnGoes(d, took, gave, old, old)
    BY <2>5, <2>6 DEF TurnGoes
  <2> QED
    BY <2>1, <2>8, <2>9, <2>10, <2>11, TurnsKept
\* The turn of child d moves to or from main.
<1>4. ASSUME NEW d \in Children, NEW took \in SUBSET Channels, NEW gave \in SUBSET Channels,
             NEW y, NEW lines, Exchange(d, took, gave, y, lines),
             NEW old \in Places, NEW new \in Places, At(d, old),
             UNCHANGED <<cpc, vpc>>,
             took = IF old = "served" THEN {} ELSE {old},
             gave = IF new = "served" THEN {} ELSE {d}, new \in {"served", "told"},
             old \in {"served", "READY", "RENDER_READY", "FRAME_DONE"},
             IF old = "served" THEN ppc \in Serving /\ cur.child = d ELSE ppc \notin Serving,
             IF new = "served" THEN ppc' \in Serving /\ cur'.child = d ELSE ppc' \notin Serving
      PROVE  TurnInv'
  <2>1. ASSUME NEW c \in Children
        PROVE  /\ (cpc'[c] # "wait") <=>
                    (cpc[c] # "wait" /\ ~(c = d /\ old = "works")) \/ (c = d /\ new = "works")
               /\ cpc[c] = "exited" => cpc'[c] = "exited"
               /\ (c \in took <=> c = d /\ old = "told") /\ (c \in gave <=> c = d /\ new = "told")
    BY <1>1, <1>4
  <2>2. ASSUME NEW c \in Children
        PROVE  Served(c)' <=>
                 (Served(c) /\ ~(c = d /\ old = "served")) \/ (c = d /\ new = "served")
    BY <1>4 DEF Served
  <2>3. \A place \in {"READY", "RENDER_READY", "FRAME_DONE"} :
          (place \in took <=> place = old) /\ (place \in gave <=> place = new)
    BY <1>1, <1>4
  <2>4. "DYING_GASP" \notin gave /\ "VIDEO_READY" \notin gave /\ vpc' = vpc
    BY <1>1, <1>4
  <2>5. Exchange(d, took, gave, y, lines) /\ At(d, old)
    BY <1>4
  <2>6. TurnGoes(d, took, gave, old, new)
    BY <2>1, <2>2, <2>3 DEF TurnGoes
  <2> HIDE <1>4
  <2> QED
    BY <2>4, <2>5, <2>6, TurnsKept
<1>5. ASSUME ipc' = ipc, UNCHANGED cpc, vpc' = vpc \/ vpc' # "init",
             \A c \in Children : Served(c)' <=> Served(c)
      PROVE  TurnInv'
  <2>1. Exchange(Nobody, {}, {}, "none", 0)
    BY <1>5, NothingMoves
  <2> QED
    BY <1>3, <1>5, <2>1
<1>6. CASE VideoStart
  <2>1. Exchange(Nobody, {}, {"VIDEO_READY"}, "none", LogLines["video"])
    BY <1>6, ServerExchanges
  <2>2. vpc' # "init" /\ UNCHANGED <<ppc, cur, cpc>>
    BY <1>6 DEF VideoStart
  <2> QED
    BY <1>3, <2>1, <2>2 DEF Served
<1>7. CASE VideoCheck \/ VideoDecode \/ VideoMark \/ VideoEnqueue \/ VideoAdvance \/ VideoEnd
  <2>1. vpc' # "init" /\ UNCHANGED <<ppc, cur, cpc, ipc>>
    BY <1>7 DEF VideoCheck, VideoDecode, VideoMark, VideoEnqueue, VideoAdvance, VideoEnd
  <2> QED
    BY <1>5, <2>1 DEF Served
<1>8. CASE AwaitVideo
  <2>1. Exchange(Nobody, {"VIDEO_READY"}, {}, "none", 0)
    BY <1>8, ServerExchanges
  <2>2. UNCHANGED <<cpc, vpc>> /\ \A c \in Children : ~Served(c) /\ ~Served(c)'
    BY <1>8 DEF AwaitVideo, Served, Serving
  <2> QED
    BY <1>3, <2>1, <2>2
<1>9. ASSUME NEW c \in Children, Fork(c) PROVE TurnInv'
  <2>1. Exchange(Nobody, {}, {}, "none", 0)
    BY <1>9, NothingMoves DEF Fork
  <2>2. UNCHANGED vpc /\ \A d \in Children : ~Served(d) /\ ~Served(d)'
    BY <1>9 DEF Fork, Served, Serving
  <2>3. \A d \in Children : /\ (cpc'[d] # "wait") <=> (cpc[d] # "wait")
                            /\ cpc[d] = "exited" => cpc'[d] = "exited"
    BY <1>1, <1>9 DEF Fork
  <2> QED
    BY <1>3, <2>1, <2>2, <2>3
<1>10. ASSUME NEW type \in Server, OnOther(type) PROVE TurnInv'
  <2>1. UNCHANGED <<cpc, vpc, ppc, cur>>
    BY <1>10 DEF OnOther
  <2>2. CASE type = "DYING_GASP"
    <3>1. PICK d \in Children : Exchange(d, {"DYING_GASP"}, {}, "none", 0)
      BY <1>10, <2>2, ServerExchanges
    <3> QED
      BY <1>3, <2>1, <3>1 DEF Served
  <2>3. CASE type = "LOG"
    <3>1. ipc["LOG"] # <<>> /\ ipc' = Rest(ipc, "LOG")
      BY <1>10, <2>3 DEF OnOther, Chosen
    <3>2. Exchange(Nobody, {}, {}, "none", -1)
      BY <3>1, NothingMoves
    <3> QED
      BY <1>3, <2>1, <3>2 DEF Served
  <2> QED
    BY <1>10, <2>2, <2>3 DEF OnOther
<1>11. CASE OnReady
  <2>1. PICK d \in Children, y \in {"RENDER_MODE", "EXIT"} :
          At(d, "READY") /\ Exchange(d, {"READY"}, {d}, y, LogLines["ready"])
    BY <1>11, ServerExchanges
  <2>2. UNCHANGED <<cpc, vpc>> /\ ppc \notin Serving /\ ppc' \notin Serving
    BY <1>11 DEF OnReady, Serving
  <2> QED
    BY <1>1, <1>4, <2>1, <2>2 DEF Places
<1>12. CASE OnRenderReady
  <2>1. PICK d \in Children : At(d, "RENDER_READY") /\ cur'.child = d
                              /\ Exchange(d, {"RENDER_READY"}, {}, "none", LogLines["renderReady"])
    BY <1>12, ServerExchanges
  <2>2. UNCHANGED <<cpc, vpc>> /\ ppc \notin Serving /\ ppc' \in Serving
    BY <1>12 DEF OnRenderReady, Serving
  <2> QED
    BY <1>1, <1>4, <2>1, <2>2 DEF Places
<1>13. CASE OnFrameDone
  <2>1. PICK d \in Children : At(d, "FRAME_DONE") /\ cur'.child = d
                              /\ Exchange(d, {"FRAME_DONE"}, {}, "none", 0)
    BY <1>13, ServerExchanges
  <2>2. UNCHANGED <<cpc, vpc>> /\ ppc \notin Serving /\ ppc' \in Serving
    BY <1>13 DEF OnFrameDone, Serving
  <2> QED
    BY <1>1, <1>4, <2>1, <2>2 DEF Places
<1>14. CASE VideoFinished \/ VideoFinishedScan \/ VideoFinishedWrap
  <2>1. UNCHANGED <<ipc, cpc, vpc, cur>> /\ ppc \in Serving /\ ppc' \in Serving
    BY <1>14 DEF VideoFinished, VideoFinishedScan, VideoFinishedWrap, Serving
  <2> QED
    BY <1>5, <2>1 DEF Served
<1>15. CASE NextFrame
  <2>1. UNCHANGED <<cpc, vpc>> /\ ppc \in Serving /\ cur.child \in Children
    BY <1>15 DEF NextFrame, Serving, TypeInv, WorkTypes
  <2>2. /\ At(cur.child, "served")
        /\ \/ ppc' = "putBack" /\ UNCHANGED <<cur, ipc>>
           \/ ppc' = "videoIn" /\ Exchange(cur.child, {}, {cur.child}, "RENDER_FRAME", 0)
    BY <1>15, ServiceExchanges
  <2>3. CASE ppc' = "putBack" /\ UNCHANGED <<cur, ipc>>
    BY <1>5, <2>1, <2>3 DEF Served, Serving
  <2>4. CASE ppc' = "videoIn" /\ Exchange(cur.child, {}, {cur.child}, "RENDER_FRAME", 0)
    <3>1. ppc' \notin Serving
      BY <2>4 DEF Serving
    <3>2. PICK d \in Children : d = cur.child
      BY <2>1
    <3> QED
      BY <1>1, <1>4, <2>1, <2>2, <2>4, <3>1, <3>2 DEF Places
  <2> QED
    BY <2>2, <2>3, <2>4
<1>16. CASE PutBack
  <2>1. UNCHANGED <<cpc, vpc>> /\ ppc \in Serving /\ cur.child \in Children /\ ppc' \notin Serving
    BY <1>16 DEF PutBack, Serving, TypeInv, WorkTypes
  <2>2. At(cur.child, "served") /\ Exchange(cur.child, {}, {cur.child}, "EXIT", LogLines["marker"])
    BY <1>16, ServiceExchanges
  <2>3. PICK d \in Children : d = cur.child
    BY <2>1
  <2> QED
    BY <1>1, <1>4, <2>1, <2>2, <2>3 DEF Places
<1>17. CASE VideoIn
  <2>1. UNCHANGED <<ipc, cpc, vpc>> /\ ppc \notin Serving /\ ppc' \notin Serving
    BY <1>17 DEF VideoIn, Serving
  <2> QED
    BY <1>5, <2>1 DEF Served
<1>18. CASE ParentExit
  <2>1. UNCHANGED <<ipc, cpc, vpc>> /\ ppc' \notin Serving /\ \A c \in Children : cpc[c] = "exited"
    BY <1>18 DEF ParentExit, Serving
  <2> QED
    BY <1>2, <1>5, <2>1 DEF Served
<1> QED
  BY <1>6, <1>7, <1>8, <1>9, <1>10, <1>11, <1>12, <1>13, <1>14, <1>15, <1>16, <1>17, <1>18
     DEF VideoInThread, Main

LEMMA TurnInit == Init => TurnInv
BY ServerNames DEF Init, TurnInv, NoTwoFrom, NoTwo, From, OneTurn, At, Places, Served, Serving,
   Channels

LEMMA TurnStep == TypeInv /\ TurnInv /\ Room /\ [Next]_vars => TurnInv'
<1> SUFFICES ASSUME TypeInv, TurnInv, Room, [Next]_vars PROVE TurnInv'
  OBVIOUS
<1>1. CASE Ended \/ UNCHANGED vars
  BY <1>1 DEF Ended, vars, ringVars, videoVars, mainVars, childVars, fileVars,
     TurnInv, NoTwoFrom, OneTurn, At, Served
<1> QED
  BY <1>1, ServerKeepsTurns, ChildKeepsTurns DEF Next
-----------------------------------------------------------------------------
(***************************************************************************)
(* How many log lines can wait.                                            *)
(***************************************************************************)

\* main takes no finished frame while a log line waits.
LEMMA LogFirst == TypeInv /\ Chosen("FRAME_DONE") => ipc["LOG"] = <<>>
<1> SUFFICES ASSUME TypeInv, Chosen("FRAME_DONE"), ipc["LOG"] # <<>> PROVE FALSE
  OBVIOUS
<1> DEFINE rank(t) == CHOOSE k \in 1 .. Len(ServerTypes) : ServerTypes[k] = t
<1>1. Len(ServerTypes) = 6 /\ 1 .. 6 = {1, 2, 3, 4, 5, 6}
  BY DEF ServerTypes
<1>2. /\ ServerTypes[1] = "READY" /\ ServerTypes[2] = "VIDEO_READY"
      /\ ServerTypes[3] = "RENDER_READY" /\ ServerTypes[4] = "DYING_GASP"
      /\ ServerTypes[5] = "LOG" /\ ServerTypes[6] = "FRAME_DONE"
  BY DEF ServerTypes
<1>3. rank("LOG") = 5
  <2>1. 5 \in 1 .. Len(ServerTypes) /\ ServerTypes[5] = "LOG"
    BY <1>1, <1>2
  <2>2. \A k \in 1 .. Len(ServerTypes) : ServerTypes[k] = "LOG" => k = 5
    BY <1>1, <1>2
  <2> QED
    BY <2>1, <2>2
<1>4. rank("FRAME_DONE") = 6
  <2>1. 6 \in 1 .. Len(ServerTypes) /\ ServerTypes[6] = "FRAME_DONE"
    BY <1>1, <1>2
  <2>2. \A k \in 1 .. Len(ServerTypes) : ServerTypes[k] = "FRAME_DONE" => k = 6
    BY <1>1, <1>2
  <2> QED
    BY <2>1, <2>2
<1>5. "LOG" \in Server
  BY ServerNames
<1>6. rank("FRAME_DONE") <= rank("LOG")
  BY <1>5 DEF Chosen
<1> HIDE DEF rank
<1>7. 6 <= 5
  BY <1>3, <1>4, <1>6
<1> QED
  BY <1>7

LEMMA LinesDrop ==
  ASSUME TypeInv, TurnInv, TypeInv', TurnInv', \A c \in Children : Left(c)' <= Left(c)
  PROVE  /\ Cardinality(LinesLeft)' <= Cardinality(LinesLeft)
         /\ \A d \in Children :
              Cardinality(LinesLeft)' + (Weight(Left(d)) - Weight(Left(d)')) <= Cardinality(LinesLeft)
<1>1. \A c \in Children : Left(c) \in 0 .. 7
  BY LeftIs DEF LeftAt
<1>2. \A c \in Children : Left(c)' \in 0 .. 7
  <2>1. (TypeInv /\ TurnInv => \A c \in Children : LeftAt(c))'
    BY LeftIs, PTL
  <2> QED
    BY <2>1 DEF LeftAt
<1>3. \A c \in Children : /\ Weight(Left(c)) \in Nat /\ Weight(Left(c)') \in Nat
                          /\ Weight(Left(c)') <= Weight(Left(c)) /\ Weight(Left(c)) <= PerChild
  <2> SUFFICES ASSUME NEW c \in Children
               PROVE  /\ Weight(Left(c)) \in Nat /\ Weight(Left(c)') \in Nat
                      /\ Weight(Left(c)') <= Weight(Left(c)) /\ Weight(Left(c)) <= PerChild
    OBVIOUS
  <2>1. PICK h \in 0 .. 7, k \in 0 .. 7 : h = Left(c) /\ k = Left(c)'
    BY <1>1, <1>2
  <2>2. k \in 0 .. h /\ h \in 0 .. 7 /\ 7 \in 0 .. 7
    BY <2>1
  <2>3. Weight(h) \in Nat /\ Weight(k) \in Nat /\ Weight(k) <= Weight(h) /\ Weight(h) <= PerChild
    BY <2>2, WeightIs
  <2> QED
    BY <2>1, <2>3
<1>4. PerChild \in Nat
  BY WeightIs
<1>5. LinesLeft' = {x \in Children \X (1 .. PerChild) : x[2] <= Weight(Left(x[1])')}
  BY DEF LinesLeft, PerChild, Weight
<1>6. LinesLeft' \subseteq LinesLeft
  <2> SUFFICES ASSUME NEW x \in LinesLeft' PROVE x \in LinesLeft
    OBVIOUS
  <2>1. x \in Children \X (1 .. PerChild) /\ x[2] <= Weight(Left(x[1])')
    BY <1>5
  <2>2. x[1] \in Children /\ x[2] \in 1 .. PerChild
    BY <2>1
  <2>3. x[2] <= Weight(Left(x[1]))
    BY <1>3, <1>4, <2>1, <2>2
  <2> QED
    BY <2>1, <2>3 DEF LinesLeft
<1>7. Cardinality(LinesLeft)' <= Cardinality(LinesLeft)
  BY <1>6, LinesFinite, FS_Subset
<1>8. ASSUME NEW d \in Children
      PROVE  Cardinality(LinesLeft)' + (Weight(Left(d)) - Weight(Left(d)')) <= Cardinality(LinesLeft)
  <2>1. PICK v \in Nat, w \in Nat :
          v = Weight(Left(d)') /\ w = Weight(Left(d)) /\ v <= w /\ w <= PerChild
    BY <1>3
  <2> DEFINE gone == {d} \X (v + 1 .. w)
  <2>2. gone \subseteq LinesLeft
    BY <1>4, <2>1 DEF LinesLeft
  <2>3. gone \cap LinesLeft' = {}
    BY <1>5, <2>1
  <2>4. Cardinality(gone) = w - v /\ IsFiniteSet(gone)
    <3>1. PICK x \in Int : x = v + 1
      BY <2>1
    <3>2. IsFiniteSet(x .. w) /\ Cardinality(x .. w) = IF x > w THEN 0 ELSE w - x + 1
      BY FS_Interval
    <3>3. IsFiniteSet(v + 1 .. w) /\ Cardinality(v + 1 .. w) = w - v
      BY <2>1, <3>1, <3>2
    <3>4. IsFiniteSet({d}) /\ Cardinality({d}) = 1
      BY FS_Singleton
    <3>5. IsFiniteSet(gone) /\ Cardinality(gone) = 1 * Cardinality(v + 1 .. w)
      BY <3>3, <3>4, FS_Product
    <3> HIDE DEF gone
    <3> QED
      BY <2>1, <3>3, <3>5
  <2> HIDE DEF gone
  <2>5. LinesLeft' \cup gone \subseteq LinesLeft
    BY <1>6, <2>2
  <2>6. IsFiniteSet(LinesLeft) /\ Cardinality(LinesLeft) \in Nat
    BY LinesFinite
  <2>7. IsFiniteSet(LinesLeft') /\ Cardinality(LinesLeft') \in Nat
    BY <1>6, <2>6, FS_Subset, FS_CardinalityType
  <2>8. /\ IsFiniteSet(LinesLeft' \cup gone)
        /\ Cardinality(LinesLeft' \cup gone)
             = Cardinality(LinesLeft') + Cardinality(gone) - Cardinality(LinesLeft' \cap gone)
    BY <2>4, <2>7, FS_Union
  <2>9. Cardinality(LinesLeft' \cap gone) = 0
    BY <2>3, FS_EmptySet
  <2>10. Cardinality(LinesLeft' \cup gone) <= Cardinality(LinesLeft)
    BY <2>5, <2>6, FS_Subset
  <2>11. Cardinality(LinesLeft') + (w - v) <= Cardinality(LinesLeft)
    BY <2>1, <2>4, <2>6, <2>7, <2>8, <2>9, <2>10
  <2> QED
    BY <2>1, <2>11
<1> QED
  BY <1>7, <1>8

\* A step that logs at most so many lines as are left less after it, or none.
LEMMA LinesKept ==
  ASSUME TypeInv, TurnInv, TypeInv', TurnInv', LogInv,
         NEW lines \in Int, Len(ipc'["LOG"]) <= Len(ipc["LOG"]) + lines,
         \A c \in Children : Left(c)' <= Left(c), vpc' = "init" => vpc = "init",
         \/ lines <= 0
         \/ \E d \in Children : lines <= Weight(Left(d)) - Weight(Left(d)')
         \/ vpc = "init" /\ vpc' # "init" /\ lines <= LogLines["video"]
  PROVE  LogInv'
<1> DEFINE n == Cardinality(LinesLeft)
           m == Cardinality(LinesLeft)'
           v == IF vpc = "init" THEN LogLines["video"] ELSE 0
           w == IF vpc' = "init" THEN LogLines["video"] ELSE 0
           a == Len(ipc["LOG"])
           b == Len(ipc'["LOG"])
           most == MostLines
<1>1. a \in Nat /\ b \in Nat
  <2>1. ipc["LOG"] \in Seq(Content("LOG")) /\ ipc'["LOG"] \in Seq(Content("LOG"))
    BY ServerNames DEF TypeInv, IpcTypes, Channels
  <2> QED
    BY <2>1
<1>2. n \in Nat /\ m \in Nat /\ m <= n
  <2>1. (Cardinality(LinesLeft) \in Nat)'
    BY LinesFinite, PTL
  <2> QED
    BY <2>1, LinesFinite, LinesDrop
<1>3. v \in Nat /\ w \in Nat /\ w <= v /\ LogLines["video"] \in Nat /\ most \in Nat
  <2>1. LogLines["video"] \in Nat
    BY WeightIs
  <2>2. v \in Nat /\ w \in Nat /\ w <= v
    BY <2>1
  <2> QED
    BY <2>1, <2>2, MostIs
<1>4. lines <= 0 \/ m + lines <= n \/ w + lines <= v
  <2>1. ASSUME NEW d \in Children, lines <= Weight(Left(d)) - Weight(Left(d)')
        PROVE  m + lines <= n
    <3>1. PICK x \in Int : x = Weight(Left(d)) - Weight(Left(d)')
      <4>1. Left(d) \in 0 .. 7 /\ Left(d)' \in 0 .. 7
        <5>1. (TypeInv /\ TurnInv => \A c \in Children : LeftAt(c))'
          BY LeftIs, PTL
        <5> QED
          BY <5>1, LeftIs DEF LeftAt
      <4>2. Weight(Left(d)) \in Nat /\ Weight(Left(d)') \in Nat
        BY <4>1, WeightIs
      <4> QED
        BY <4>2
    <3>2. m + x <= n
      BY <3>1, LinesDrop
    <3>3. lines <= x
      BY <2>1, <3>1
    <3> HIDE DEF m, n
    <3> QED
      BY <1>2, <3>2, <3>3
  <2>2. ASSUME vpc = "init", vpc' # "init", lines <= LogLines["video"] PROVE w + lines <= v
    BY <1>3, <2>2
  <2> QED
    BY <2>1, <2>2
<1>5. a + (n + v) <= most
  BY DEF LogInv, Budget
<1>6. b <= a + lines
  OBVIOUS
<1> HIDE DEF a, b, n, m, v, w, most
<1>7. b + (m + w) <= most
  BY <1>1, <1>2, <1>3, <1>4, <1>5, <1>6
<1>8. MostLines' = MostLines
  BY DEF MostLines, numChildren, PerChild, Weight
<1> QED
  BY <1>7, <1>8 DEF LogInv, Budget, b, m, w, most

LEMMA LeftSame ==
  ASSUME NEW d, NEW took, NEW gave, NEW y, NEW lines, Exchange(d, took, gave, y, lines),
         NEW c \in Children, c \notin took, c \notin gave,
         c = d => \A t \in {"READY", "RENDER_READY", "FRAME_DONE"} : t \notin took /\ t \notin gave,
         cpc'[c] = cpc[c], Served(c)' <=> Served(c)
  PROVE  Left(c)' = Left(c)
<1>1. \A t \in {"READY", "RENDER_READY", "FRAME_DONE"} : t \in Channels \ {"LOG"}
  BY ServerNames DEF Channels
<1>2. \A t \in {"READY", "RENDER_READY", "FRAME_DONE"} : From(ipc', t, c) <=> From(ipc, t, c)
  BY <1>1 DEF Exchange, Moved
<1>3. \A x : Told(ipc', c, x) <=> Told(ipc, c, x)
  BY DEF Exchange, Moved
<1>4. /\ From(ipc', "READY", c) <=> From(ipc, "READY", c)
      /\ From(ipc', "RENDER_READY", c) <=> From(ipc, "RENDER_READY", c)
      /\ From(ipc', "FRAME_DONE", c) <=> From(ipc, "FRAME_DONE", c)
  BY <1>2
<1>5. /\ Told(ipc', c, "RENDER_MODE") <=> Told(ipc, c, "RENDER_MODE")
      /\ Told(ipc', c, "RENDER_FRAME") <=> Told(ipc, c, "RENDER_FRAME")
  BY <1>3
<1> QED
  BY <1>4, <1>5 DEF Left

LEMMA ChildKeepsLog ==
  ASSUME TypeInv, TurnInv, Room, LogInv, TypeInv', TurnInv', NEW d \in Children, Child(d)
  PROVE  LogInv' /\ LeftLater
<1>1. /\ cpc \in [Children -> {"unborn", "init", "wait", "loaded", "exited"}]
      /\ d \notin Server
      /\ Server = {"READY", "VIDEO_READY", "RENDER_READY", "DYING_GASP", "LOG", "FRAME_DONE"}
      /\ Channels = Server \cup Children
  BY PlacesAndNames
<1> USE DEF videoVars, mainVars, childVars
<1>2. UNCHANGED <<vpc, ppc, cur>> /\ \A c \in Children : Served(c)' <=> Served(c)
  BY DEF Child, ChildInit, ChildRenderMode, ChildLoad, ChildRender, ChildExit, ChildDie, Served
<1>3. LeftAt(d) /\ LeftAt(d)'
  <2>1. (TypeInv /\ TurnInv => \A c \in Children : LeftAt(c))'
    BY LeftIs, PTL
  <2> QED
    BY <2>1, LeftIs
<1>4. ASSUME NEW took, NEW gave, NEW lines \in Int, Exchange(d, took, gave, "none", lines),
             took \in SUBSET (Server \cup {d}), gave \in SUBSET Server,
             \A c \in Children \ {d} : cpc'[c] = cpc[c], Left(d)' <= Left(d),
             lines <= 0 \/ lines <= Weight(Left(d)) - Weight(Left(d)')
      PROVE  LogInv' /\ LeftLater
  <2>1. ASSUME NEW c \in Children \ {d} PROVE Left(c)' = Left(c)
    <3>1. c \notin took /\ c \notin gave
      BY <1>1, <1>4, ServerNames
    <3> QED
      BY <1>2, <1>4, <3>1, LeftSame
  <2>2. \A c \in Children : Left(c) \in 0 .. 7
    BY LeftIs DEF LeftAt
  <2>3. \A c \in Children : Left(c)' <= Left(c)
    BY <1>4, <2>1, <2>2
  <2>4. Len(ipc'["LOG"]) <= Len(ipc["LOG"]) + lines
    BY <1>4 DEF Exchange
  <2>5. lines <= 0 \/ \E c \in Children : lines <= Weight(Left(c)) - Weight(Left(c)')
    BY <1>4
  <2> QED
    BY <1>2, <1>4, <2>3, <2>4, <2>5, LinesKept DEF LeftLater
\* Where the turn of d was, and where it is.
<1>5. ASSUME NEW y, Gets(d, y)
      PROVE  Left(d) = IF y = "RENDER_MODE" THEN 5 ELSE IF y = "RENDER_FRAME" THEN 3 ELSE 1
  BY <1>5, LeftWhen
<1>6. ASSUME NEW took, NEW gave, NEW lines, Exchange(d, took, gave, "none", lines),
             NEW t \in {"READY", "RENDER_READY", "FRAME_DONE"}, t \in gave
      PROVE  Left(d)' = IF t = "READY" THEN 6 ELSE IF t = "RENDER_READY" THEN 4 ELSE 2
  <2>1. From(ipc', t, d)
    BY <1>1, <1>6 DEF Exchange, Moved
  <2>2. At(d, t)'
    BY <2>1 DEF At
  <2> QED
    BY <1>3, <2>2 DEF LeftAt
\* What the lines of a phase are in terms of what is left.
<1>w. /\ LogLines["init"] \in Int /\ LogLines["init"] <= Weight(7) - Weight(6)
      /\ LogLines["mode"] \in Int /\ LogLines["mode"] <= Weight(5) - Weight(4)
      /\ LogLines["frame"] \in Int /\ LogLines["frame"] <= Weight(3) - Weight(2)
      /\ LogLines["exit"] \in Int /\ LogLines["exit"] <= Weight(1) - Weight(0)
  <2>1. \A h \in {0, 1, 2, 3, 4, 5, 6, 7} : Weight(h) \in Nat
    <3>1. {0, 1, 2, 3, 4, 5, 6, 7} \subseteq 0 .. 7
      OBVIOUS
    <3> QED
      BY <3>1, WeightIs
  <2>2. /\ LogLines["init"] \in Nat /\ LogLines["mode"] \in Nat /\ LogLines["frame"] \in Nat
        /\ LogLines["exit"] \in Nat /\ LogLines["marker"] \in Nat
    BY WeightIs
  <2> QED
    BY <2>1, <2>2, WeightIs
<1>7. CASE ChildInit(d)
  <2>1. Exchange(d, {}, {"READY"}, "none", LogLines["init"])
    BY <1>7, ChildExchanges
  <2>2. cpc[d] = "init" /\ cpc' = [cpc EXCEPT ![d] = "wait"]
    BY <1>7 DEF ChildInit
  <2>3. Left(d) = 7 /\ Left(d)' = 6
    BY <1>3, <1>6, <2>1, <2>2 DEF LeftAt
  <2>4. LogLines["init"] <= Weight(Left(d)) - Weight(Left(d)') /\ Left(d)' <= Left(d)
    BY <1>w, <2>3
  <2> QED
    BY <1>1, <1>4, <1>w, <2>1, <2>2, <2>4
<1>8. CASE ChildRenderMode(d)
  <2>1. Exchange(d, {d}, {"RENDER_READY"}, "none", LogLines["mode"])
    BY <1>8, ChildExchanges
  <2>2. Gets(d, "RENDER_MODE") /\ cpc' = cpc
    BY <1>8 DEF ChildRenderMode
  <2>3. Left(d) = 5 /\ Left(d)' = 4
    BY <1>5, <1>6, <2>1, <2>2
  <2>4. LogLines["mode"] <= Weight(Left(d)) - Weight(Left(d)') /\ Left(d)' <= Left(d)
    BY <1>w, <2>3
  <2> QED
    BY <1>1, <1>4, <1>w, <2>1, <2>2, <2>4
<1>9. CASE ChildLoad(d)
  <2>1. Exchange(d, {d}, {}, "none", 0)
    BY <1>9, ChildExchanges
  <2>2. Gets(d, "RENDER_FRAME") /\ cpc' = [cpc EXCEPT ![d] = "loaded"]
    BY <1>9 DEF ChildLoad
  <2>3. cpc'[d] = "loaded"
    BY <1>1, <2>2
  <2>4. Left(d) = 3 /\ Left(d)' = 3
    BY <1>3, <1>5, <2>2, <2>3 DEF LeftAt
  <2> QED
    BY <1>1, <1>4, <2>1, <2>2, <2>4
<1>10. CASE ChildRender(d)
  <2>1. Exchange(d, {}, {"FRAME_DONE"}, "none", LogLines["frame"])
    BY <1>10, ChildExchanges
  <2>2. cpc[d] = "loaded" /\ cpc' = [cpc EXCEPT ![d] = "wait"]
    BY <1>10 DEF ChildRender
  <2>3. Left(d) = 3 /\ Left(d)' = 2
    BY <1>3, <1>6, <2>1, <2>2 DEF LeftAt
  <2>4. LogLines["frame"] <= Weight(Left(d)) - Weight(Left(d)') /\ Left(d)' <= Left(d)
    BY <1>w, <2>3
  <2> QED
    BY <1>1, <1>4, <1>w, <2>1, <2>2, <2>4
<1>11. CASE ChildExit(d) \/ ChildDie(d)
  <2>1. Left(d) \in 0 .. 7 /\ Weight(Left(d)) \in Nat /\ Weight(0) = 0
    <3>1. Left(d) \in 0 .. 7
      BY <1>3 DEF LeftAt
    <3> QED
      BY <3>1, WeightIs
  <2>2. PICK took \in {{}, {d}} : Exchange(d, took, {"DYING_GASP"}, "none", Weight(Left(d)))
    <3>1. CASE ChildExit(d)
      <4>1. Gets(d, "EXIT") /\ Exchange(d, {d}, {"DYING_GASP"}, "none", LogLines["exit"])
        BY <3>1, ChildExchanges DEF ChildExit
      <4>2. Weight(Left(d)) = LogLines["exit"]
        BY <1>5, <4>1, WeightIs
      <4> QED
        BY <4>1, <4>2
    <3>2. CASE ChildDie(d)
      BY <3>2, ChildExchanges
    <3> QED
      BY <1>11, <3>1, <3>2
  <2>3. cpc' = [cpc EXCEPT ![d] = "exited"]
    BY <1>11 DEF ChildExit, ChildDie
  <2>4. cpc'[d] = "exited"
    BY <1>1, <2>3
  <2>5. Left(d)' = 0
    BY <1>3, <2>4 DEF LeftAt
  <2>6. /\ Left(d)' <= Left(d) /\ Weight(Left(d)) \in Int
        /\ Weight(Left(d)) <= Weight(Left(d)) - Weight(Left(d)')
    BY <2>1, <2>5
  <2>7. \A c \in Children \ {d} : cpc'[c] = cpc[c]
    BY <1>1, <2>3
  <2>8. took \in SUBSET (Server \cup {d}) /\ {"DYING_GASP"} \in SUBSET Server
    BY <1>1
  <2> QED
    BY <1>4, <2>2, <2>6, <2>7, <2>8
<1> QED
  BY <1>7, <1>8, <1>9, <1>10, <1>11 DEF Child

LEMMA BudgetFits == Budget <= MostLines /\ Budget \in Nat
<1> DEFINE n == Cardinality(LinesLeft)
           v == IF vpc = "init" THEN LogLines["video"] ELSE 0
<1>1. PICK k \in Nat : k = numChildren * PerChild
  BY LinesFinite
<1>2. n \in Nat /\ n <= k
  BY <1>1, LinesFinite
<1>3. LogLines["video"] \in Nat /\ v \in Nat /\ v <= LogLines["video"]
  BY WeightIs
<1>4. MostLines = k + LogLines["video"] /\ Budget = n + v
  BY <1>1 DEF MostLines, Budget
<1> HIDE DEF n, v
<1> QED
  BY <1>2, <1>3, <1>4

LEMMA ServerKeepsLog ==
  ASSUME TypeInv, TurnInv, Room, LogInv, TypeInv', TurnInv', VideoInThread \/ Main
  PROVE  LogInv' /\ LeftLater
<1>1. /\ cpc \in [Children -> {"unborn", "init", "wait", "loaded", "exited"}]
      /\ \A c \in Children : c \notin Server
      /\ Server = {"READY", "VIDEO_READY", "RENDER_READY", "DYING_GASP", "LOG", "FRAME_DONE"}
      /\ Channels = Server \cup Children
  BY PlacesAndNames
<1> USE DEF videoVars, mainVars, childVars
<1>2. \A c \in Children : cpc[c] # "wait" => ~Served(c)
  BY DEF TurnInv, OneTurn, At, Places
<1>3. \A c \in Children : LeftAt(c) /\ LeftAt(c)' /\ Left(c) \in 0 .. 7 /\ Left(c)' \in 0 .. 7
  <2>1. (TypeInv /\ TurnInv => \A c \in Children : LeftAt(c))'
    BY LeftIs, PTL
  <2>2. \A c \in Children : LeftAt(c) /\ LeftAt(c)'
    BY <2>1, LeftIs
  <2> QED
    BY <2>2 DEF LeftAt
\* What the lines of a phase are in terms of what is left.
<1>w. /\ LogLines["ready"] \in Int /\ \A h \in {5, 3, 1} : LogLines["ready"] <= Weight(6) - Weight(h)
      /\ LogLines["renderReady"] \in Int /\ LogLines["renderReady"] <= Weight(4) - Weight(3)
      /\ LogLines["marker"] \in Int /\ LogLines["marker"] <= Weight(3) - Weight(1)
  <2>1. \A h \in {0, 1, 2, 3, 4, 5, 6, 7} : Weight(h) \in Nat
    <3>1. {0, 1, 2, 3, 4, 5, 6, 7} \subseteq 0 .. 7
      OBVIOUS
    <3> QED
      BY <3>1, WeightIs
  <2>2. /\ LogLines["ready"] \in Nat /\ LogLines["mode"] \in Nat /\ LogLines["frame"] \in Nat
        /\ LogLines["renderReady"] \in Nat /\ LogLines["exit"] \in Nat /\ LogLines["marker"] \in Nat
    BY WeightIs
  <2> QED
    BY <2>1, <2>2, WeightIs
\* No child's turn moves.
<1>4. ASSUME NEW d, NEW took \in SUBSET {"VIDEO_READY", "DYING_GASP"},
             NEW gave \in SUBSET {"VIDEO_READY"}, NEW lines \in Int,
             Exchange(d, took, gave, "none", lines),
             \A c \in Children : cpc'[c] = cpc[c] /\ (Served(c)' <=> Served(c)),
             vpc' = "init" => vpc = "init",
             lines <= 0 \/ (vpc = "init" /\ vpc' # "init" /\ lines <= LogLines["video"])
      PROVE  LogInv' /\ LeftLater
  <2>1. ASSUME NEW c \in Children PROVE Left(c)' <= Left(c)
    <3>1. c \notin took /\ c \notin gave
      BY <1>1, <1>4
    <3>2. \A t \in {"READY", "RENDER_READY", "FRAME_DONE"} : t \notin took /\ t \notin gave
      BY <1>4
    <3>3. Left(c)' = Left(c)
      BY <1>4, <3>1, <3>2, LeftSame
    <3> QED
      BY <1>3, <3>3
  <2>2. Len(ipc'["LOG"]) <= Len(ipc["LOG"]) + lines
    BY <1>4 DEF Exchange
  <2> QED
    BY <1>4, <2>1, <2>2, LinesKept DEF LeftLater
\* The turn of child d moves to or from main.
<1>5. ASSUME NEW d \in Children, NEW took, NEW gave, NEW y, NEW lines \in Int,
             Exchange(d, took, gave, y, lines),
             took \in SUBSET Server, gave \in SUBSET {d}, UNCHANGED <<cpc, vpc>>,
             \A c \in Children \ {d} : Served(c)' <=> Served(c),
             Left(d)' <= Left(d),
             lines <= 0 \/ lines <= Weight(Left(d)) - Weight(Left(d)')
      PROVE  LogInv' /\ LeftLater
  <2>1. ASSUME NEW c \in Children \ {d} PROVE Left(c)' = Left(c)
    <3>1. c \notin took /\ c \notin gave
      BY <1>1, <1>5
    <3> QED
      BY <1>5, <3>1, LeftSame
  <2>2. \A c \in Children : Left(c)' <= Left(c)
    BY <1>3, <1>5, <2>1
  <2>3. Len(ipc'["LOG"]) <= Len(ipc["LOG"]) + lines
    BY <1>5 DEF Exchange
  <2>4. lines <= 0 \/ \E c \in Children : lines <= Weight(Left(c)) - Weight(Left(c)')
    BY <1>5
  <2> QED
    BY <1>5, <2>2, <2>3, <2>4, LinesKept DEF LeftLater
<1>6. ASSUME ipc' = ipc, UNCHANGED cpc, vpc' = vpc \/ vpc' # "init",
             \A c \in Children : Served(c)' <=> Served(c)
      PROVE  LogInv' /\ LeftLater
  <2>1. Exchange(Nobody, {}, {}, "none", 0)
    BY <1>6, NothingMoves
  <2> QED
    BY <1>4, <1>6, <2>1
<1>7. CASE VideoStart
  <2>1. Exchange(Nobody, {}, {"VIDEO_READY"}, "none", LogLines["video"])
    BY <1>7, ServerExchanges
  <2>2. vpc = "init" /\ vpc' # "init" /\ UNCHANGED <<ppc, cur, cpc>>
    BY <1>7 DEF VideoStart
  <2>3. LogLines["video"] \in Int /\ LogLines["video"] <= LogLines["video"]
    BY WeightIs
  <2> QED
    BY <1>4, <2>1, <2>2, <2>3 DEF Served
<1>8. CASE VideoCheck \/ VideoDecode \/ VideoMark \/ VideoEnqueue \/ VideoAdvance \/ VideoEnd
  <2>1. vpc' # "init" /\ UNCHANGED <<ppc, cur, cpc, ipc>>
    BY <1>8 DEF VideoCheck, VideoDecode, VideoMark, VideoEnqueue, VideoAdvance, VideoEnd
  <2> QED
    BY <1>6, <2>1 DEF Served
<1>9. CASE AwaitVideo
  <2>1. Exchange(Nobody, {"VIDEO_READY"}, {}, "none", 0)
    BY <1>9, ServerExchanges
  <2>2. UNCHANGED <<cpc, vpc>> /\ \A c \in Children : ~Served(c) /\ ~Served(c)'
    BY <1>9 DEF AwaitVideo, Served, Serving
  <2> QED
    BY <1>4, <2>1, <2>2
<1>10. ASSUME NEW c \in Children, Fork(c) PROVE LogInv' /\ LeftLater
  <2>1. Exchange(Nobody, {}, {}, "none", 0)
    BY <1>10, NothingMoves DEF Fork
  <2>2. UNCHANGED vpc /\ \A d \in Children : ~Served(d) /\ ~Served(d)'
    BY <1>10 DEF Fork, Served, Serving
  <2>3. cpc[c] = "unborn" /\ cpc'[c] = "init" /\ \A d \in Children \ {c} : cpc'[d] = cpc[d]
    BY <1>1, <1>10 DEF Fork
  <2>4. Left(c) = 7 /\ Left(c)' = 7
    BY <1>3, <2>3 DEF LeftAt
  <2>5. ASSUME NEW d \in Children PROVE Left(d)' <= Left(d)
    <3>1. CASE d = c
      BY <2>4, <3>1
    <3>2. CASE d # c
      <4>1. Left(d)' = Left(d)
        BY <2>1, <2>2, <2>3, <3>2, LeftSame
      <4> QED
        BY <1>3, <4>1
    <3> QED
      BY <3>1, <3>2
  <2>6. 0 \in Int /\ 0 <= 0 /\ Len(ipc'["LOG"]) <= Len(ipc["LOG"]) + 0
    BY <2>1 DEF Exchange
  <2> QED
    BY <2>2, <2>5, <2>6, LinesKept DEF LeftLater
<1>11. ASSUME NEW type \in Server, OnOther(type) PROVE LogInv' /\ LeftLater
  <2>1. UNCHANGED <<cpc, vpc, ppc, cur>>
    BY <1>11 DEF OnOther
  <2>2. CASE type = "DYING_GASP"
    <3>1. PICK d \in Children : Exchange(d, {"DYING_GASP"}, {}, "none", 0)
      BY <1>11, <2>2, ServerExchanges
    <3> QED
      BY <1>4, <2>1, <3>1 DEF Served
  <2>3. CASE type = "LOG"
    <3>1. ipc["LOG"] # <<>> /\ ipc' = Rest(ipc, "LOG")
      BY <1>11, <2>3 DEF OnOther, Chosen
    <3>2. Exchange(Nobody, {}, {}, "none", -1)
      BY <3>1, NothingMoves
    <3> QED
      BY <1>4, <2>1, <3>2 DEF Served
  <2> QED
    BY <1>11, <2>2, <2>3 DEF OnOther
<1>12. CASE OnReady
  <2>1. PICK d \in Children, y \in {"RENDER_MODE", "EXIT"} :
          At(d, "READY") /\ Exchange(d, {"READY"}, {d}, y, LogLines["ready"])
    BY <1>12, ServerExchanges
  <2>2. UNCHANGED <<cpc, vpc, ppc, cur>>
    BY <1>12 DEF OnReady
  <2>3. At(d, "told")'
    BY <1>1, <2>1 DEF Exchange, Moved, At
  <2>4. Left(d) = 6 /\ Left(d)' \in {5, 3, 1}
    BY <1>3, <2>1, <2>3 DEF LeftAt
  <2>5. /\ Left(d)' <= Left(d) /\ LogLines["ready"] \in Int
        /\ LogLines["ready"] <= Weight(Left(d)) - Weight(Left(d)')
    BY <1>w, <2>4
  <2> QED
    BY <1>1, <1>5, <2>1, <2>2, <2>5 DEF Served
<1>13. CASE OnRenderReady
  <2>1. PICK d \in Children : At(d, "RENDER_READY") /\ cur'.child = d
                              /\ Exchange(d, {"RENDER_READY"}, {}, "none", LogLines["renderReady"])
    BY <1>13, ServerExchanges
  <2>2. UNCHANGED <<cpc, vpc>> /\ ppc \notin Serving /\ ppc' \in Serving
    BY <1>13 DEF OnRenderReady, Serving
  <2>3. At(d, "served")'
    BY <2>1, <2>2 DEF At, Served
  <2>4. Left(d) = 4 /\ Left(d)' = 3
    BY <1>3, <2>1, <2>3 DEF LeftAt
  <2>5. /\ Left(d)' <= Left(d) /\ LogLines["renderReady"] \in Int
        /\ LogLines["renderReady"] <= Weight(Left(d)) - Weight(Left(d)')
    BY <1>w, <2>4
  <2> QED
    BY <1>1, <1>5, <2>1, <2>2, <2>5 DEF Served
<1>14. CASE OnFrameDone
  <2>1. ipc["LOG"] = <<>> /\ UNCHANGED vpc
    BY <1>14, LogFirst DEF OnFrameDone
  <2>2. Len(ipc'["LOG"]) = 0
    <3>1. PICK d \in Children : Exchange(d, {"FRAME_DONE"}, {}, "none", 0)
      BY <1>14, ServerExchanges
    <3>2. Len(ipc["LOG"]) = 0
      BY <2>1
    <3>3. ipc'["LOG"] \in Seq(Content("LOG"))
      BY <1>1 DEF TypeInv, IpcTypes
    <3>4. Len(ipc'["LOG"]) <= 0 /\ Len(ipc'["LOG"]) \in Nat
      BY <3>1, <3>2, <3>3 DEF Exchange
    <3> QED
      BY <3>4
  <2>3. Budget' <= MostLines /\ Budget' \in Nat /\ MostLines' = MostLines
    <3>1. Budget <= MostLines /\ Budget \in Nat
      BY BudgetFits
    <3>2. (Budget <= MostLines /\ Budget \in Nat)'
      BY BudgetFits, PTL
    <3>3. MostLines' = MostLines
      BY DEF MostLines, numChildren, PerChild, Weight
    <3> QED
      BY <3>2, <3>3
  <2>4. LeftLater
    <3>1. PICK d \in Children : cur'.child = d /\ Exchange(d, {"FRAME_DONE"}, {}, "none", 0)
      BY <1>14, ServerExchanges
    <3>2. UNCHANGED cpc /\ ppc \notin Serving /\ ppc' \in Serving
      BY <1>14 DEF OnFrameDone, Serving
    <3>3. At(d, "served")'
      BY <3>1, <3>2 DEF At, Served
    <3>4. Left(d)' = 3
      BY <1>3, <3>3 DEF LeftAt
    <3>5. ASSUME NEW c \in Children \ {d} PROVE Left(c)' = Left(c)
      <4>1. c \notin {"FRAME_DONE"} /\ c \notin {} /\ (Served(c)' <=> Served(c))
        BY <1>1, <3>1, <3>2 DEF Served
      <4> QED
        BY <3>1, <3>2, <4>1, LeftSame
    <3> QED
      BY <1>3, <3>4, <3>5 DEF LeftLater
  <2>5. Len(ipc'["LOG"]) + Budget' <= MostLines'
    BY <2>2, <2>3
  <2> QED
    BY <2>4, <2>5 DEF LogInv
<1>15. CASE VideoFinished \/ VideoFinishedScan \/ VideoFinishedWrap
  <2>1. UNCHANGED <<ipc, cpc, vpc, cur>> /\ ppc \in Serving /\ ppc' \in Serving
    BY <1>15 DEF VideoFinished, VideoFinishedScan, VideoFinishedWrap, Serving
  <2> QED
    BY <1>6, <2>1 DEF Served
<1>16. CASE NextFrame
  <2>1. UNCHANGED <<cpc, vpc>> /\ ppc \in Serving /\ cur.child \in Children
    BY <1>16 DEF NextFrame, Serving, TypeInv, WorkTypes
  <2>2. /\ At(cur.child, "served")
        /\ \/ ppc' = "putBack" /\ UNCHANGED <<cur, ipc>>
           \/ ppc' = "videoIn" /\ Exchange(cur.child, {}, {cur.child}, "RENDER_FRAME", 0)
    BY <1>16, ServiceExchanges
  <2>3. CASE ppc' = "putBack" /\ UNCHANGED <<cur, ipc>>
    BY <1>6, <2>1, <2>3 DEF Served, Serving
  <2>4. CASE ppc' = "videoIn" /\ Exchange(cur.child, {}, {cur.child}, "RENDER_FRAME", 0)
    <3>1. ppc' \notin Serving
      BY <2>4 DEF Serving
    <3>2. PICK d \in Children : d = cur.child
      BY <2>1
    <3>3. Exchange(d, {}, {d}, "RENDER_FRAME", 0) /\ At(d, "served")
      BY <2>2, <2>4, <3>2
    <3>4. At(d, "told")' /\ Told(ipc', d, "RENDER_FRAME") /\ ~Told(ipc', d, "RENDER_MODE")
      <4>1. ~From(ipc, d, d)
        BY <3>3 DEF TurnInv, OneTurn, At, Places
      <4>2. ~Told(ipc, d, "RENDER_MODE")
        BY <4>1 DEF Told, From, Owner
      <4>3. /\ \A y : Told(ipc', d, y) <=> Told(ipc, d, y) \/ y = "RENDER_FRAME"
            /\ From(ipc', d, d)
        BY <1>1, <3>3 DEF Exchange, Moved
      <4> QED
        BY <4>2, <4>3 DEF At
    <3>5. Left(d) = 3 /\ Left(d)' = 3
      BY <1>3, <3>3, <3>4 DEF LeftAt
    <3>6. \A c \in Children \ {d} : Served(c)' <=> Served(c)
      BY <3>1, <3>2 DEF Served
    <3>7. Left(d)' <= Left(d) /\ 0 \in Int /\ 0 <= 0
      BY <3>5
    <3> QED
      BY <1>1, <1>5, <2>1, <3>3, <3>6, <3>7
  <2> QED
    BY <2>2, <2>3, <2>4
<1>17. CASE PutBack
  <2>1. UNCHANGED <<cpc, vpc>> /\ ppc \in Serving /\ cur.child \in Children /\ ppc' \notin Serving
    BY <1>17 DEF PutBack, Serving, TypeInv, WorkTypes
  <2>2. PICK d \in Children : d = cur.child
    BY <2>1
  <2>3. At(d, "served") /\ Exchange(d, {}, {d}, "EXIT", LogLines["marker"])
    BY <1>17, <2>2, ServiceExchanges
  <2>4. At(d, "told")' /\ ~Told(ipc', d, "RENDER_FRAME") /\ ~Told(ipc', d, "RENDER_MODE")
    <3>1. ~From(ipc, d, d)
      BY <2>3 DEF TurnInv, OneTurn, At, Places
    <3>2. \A y : ~Told(ipc, d, y)
      BY <3>1 DEF Told, From, Owner
    <3>3. (\A y : Told(ipc', d, y) <=> Told(ipc, d, y) \/ y = "EXIT") /\ From(ipc', d, d)
      BY <1>1, <2>3 DEF Exchange, Moved
    <3> QED
      BY <3>2, <3>3 DEF At
  <2>5. Left(d) = 3 /\ Left(d)' = 1
    BY <1>3, <2>3, <2>4 DEF LeftAt
  <2>6. \A c \in Children \ {d} : Served(c)' <=> Served(c)
    BY <2>1, <2>2 DEF Served
  <2>7. /\ Left(d)' <= Left(d) /\ LogLines["marker"] \in Int
        /\ LogLines["marker"] <= Weight(Left(d)) - Weight(Left(d)')
    BY <1>w, <2>5
  <2> QED
    BY <1>1, <1>5, <2>1, <2>3, <2>6, <2>7
<1>18. CASE VideoIn
  <2>1. UNCHANGED <<ipc, cpc, vpc>> /\ ppc \notin Serving /\ ppc' \notin Serving
    BY <1>18 DEF VideoIn, Serving
  <2> QED
    BY <1>6, <2>1 DEF Served
<1>19. CASE ParentExit
  <2>1. UNCHANGED <<ipc, cpc, vpc>> /\ ppc' \notin Serving /\ \A c \in Children : cpc[c] = "exited"
    BY <1>19 DEF ParentExit, Serving
  <2> QED
    BY <1>2, <1>6, <2>1 DEF Served
<1> QED
  BY <1>7, <1>8, <1>9, <1>10, <1>11, <1>12, <1>13, <1>14, <1>15, <1>16, <1>17, <1>18, <1>19
     DEF VideoInThread, Main

LEMMA LogInit == Init => LogInv
<1> SUFFICES ASSUME Init PROVE LogInv
  OBVIOUS
<1>1. ipc["LOG"] = <<>> /\ Len(ipc["LOG"]) = 0
  BY ServerNames DEF Init
<1>2. Budget <= MostLines /\ Budget \in Nat /\ MostLines \in Nat
  BY BudgetFits, MostIs
<1> QED
  BY <1>1, <1>2 DEF LogInv

LEMMA LogStep ==
  TypeInv /\ TurnInv /\ LogInv /\ Room /\ TypeInv' /\ TurnInv' /\ [Next]_vars
    => LogInv' /\ LeftLater
<1> SUFFICES ASSUME TypeInv, TurnInv, LogInv, Room, TypeInv', TurnInv', [Next]_vars
             PROVE  LogInv' /\ LeftLater
  OBVIOUS
<1>1. CASE Ended \/ UNCHANGED vars
  <2>1. UNCHANGED vars
    BY <1>1 DEF Ended
  <2>2. LogInv' /\ \A c \in Children : Left(c)' = Left(c)
    BY <2>1 DEF vars, ringVars, videoVars, mainVars, childVars, fileVars,
       LogInv, Budget, MostLines, numChildren, PerChild, Weight, LinesLeft, Left, Served
  <2>3. \A c \in Children : Left(c) \in 0 .. 7
    BY LeftIs DEF LeftAt
  <2> QED
    BY <2>2, <2>3 DEF LeftLater
<1> QED
  BY <1>1, ServerKeepsLog, ChildKeepsLog DEF Next
-----------------------------------------------------------------------------
(***************************************************************************)
(* With a turn each, the System V queue holds few messages: no more than   *)
(* one per child and one of the video thread, and the log lines.           *)
(***************************************************************************)
Needed == MostLines + numChildren + 2

LEMMA OwnersDiffer ==
  ASSUME TypeInv, TurnInv, NEW t \in Channels \ {"LOG"}, NEW u \in Channels \ {"LOG"},
         NEW h \in 1 .. Len(ipc[t]), NEW k \in 1 .. Len(ipc[u]),
         Owner(t, ipc[t][h]) = Owner(u, ipc[u][k])
  PROVE  t = u /\ h = k /\ Owner(t, ipc[t][h]) \in Children \cup {Nobody}
<1> DEFINE c == Owner(t, ipc[t][h])
<1>1. /\ Server = {"READY", "VIDEO_READY", "RENDER_READY", "DYING_GASP", "LOG", "FRAME_DONE"}
      /\ Channels = Server \cup Children /\ \A d \in Children : d \notin Server
      /\ Nobody \notin Children
  BY ServerNames, PipelineAssumption DEF Channels
<1>2. ASSUME NEW v \in Channels \ {"LOG"}, NEW l \in 1 .. Len(ipc[v])
      PROVE  IF v = "VIDEO_READY" THEN Owner(v, ipc[v][l]) = Nobody
             ELSE /\ Owner(v, ipc[v][l]) \in Children
                  /\ v \in {"READY", "RENDER_READY", "FRAME_DONE", "DYING_GASP",
                            Owner(v, ipc[v][l])}
  <2>1. ipc[v] \in Seq(Content(v))
    BY DEF TypeInv, IpcTypes
  <2>2. ipc[v][l] \in Content(v)
    BY <2>1
  <2> QED
    BY <1>1, <2>2 DEF Content, Owner, FrameJobs
<1>3. From(ipc, t, c) /\ From(ipc, u, c)
  BY DEF From
<1>4. t = u
  <2>1. CASE c = Nobody
    BY <1>1, <1>2, <2>1
  <2>2. CASE c # Nobody
    <3>1. /\ c \in Children
          /\ t \in {"READY", "RENDER_READY", "FRAME_DONE", "DYING_GASP", c}
          /\ u \in {"READY", "RENDER_READY", "FRAME_DONE", "DYING_GASP", c}
      BY <1>2, <2>2
    <3> HIDE DEF c
    <3>2. PICK p \in Places : \A other \in Places : At(c, other) <=> other = p
      BY <3>1 DEF TurnInv, OneTurn
    <3>3. /\ (cpc[c] # "wait") <=> p = "works"
          /\ From(ipc, c, c) <=> p = "told"
          /\ From(ipc, "READY", c) <=> p = "READY"
          /\ From(ipc, "RENDER_READY", c) <=> p = "RENDER_READY"
          /\ From(ipc, "FRAME_DONE", c) <=> p = "FRAME_DONE"
      BY <3>2 DEF At, Places
    <3>4. From(ipc, "DYING_GASP", c) => p = "works"
      BY <3>1, <3>3 DEF TurnInv
    <3> QED
      BY <1>1, <1>3, <3>1, <3>3, <3>4
  <2> QED
    BY <2>1, <2>2
<1>5. h = k
  BY <1>4 DEF TurnInv, NoTwoFrom, NoTwo
<1>6. c \in Children \cup {Nobody}
  BY <1>2
<1> QED
  BY <1>4, <1>5, <1>6

\* The queue never fills up.
LEMMA RoomHolds ==
  ASSUME IpcCap >= Needed, TypeInv, TurnInv, LogInv
  PROVE  Room
<1> DEFINE lines == {"LOG"} \X (1 .. Len(ipc["LOG"]))
           rest == Messages(ipc) \ lines
           who == Children \cup {Nobody}
           f == [x \in rest |-> Owner(x[1], ipc[x[1]][x[2]])]
           len == Len(ipc["LOG"])
<1>1. /\ numChildren \in Nat /\ IpcCap \in Nat
      /\ IsFiniteSet(Children) /\ Nobody \notin Children
  BY RingSize, PipelineAssumption
<1>2. len \in Nat /\ "LOG" \in Channels
  BY ServerNames DEF TypeInv, IpcTypes, Channels
<1>3. ASSUME NEW x \in rest
      PROVE  /\ x = <<x[1], x[2]>> /\ x[1] \in Channels \ {"LOG"}
             /\ x[2] \in 1 .. Len(ipc[x[1]])
  <2>1. PICK t \in Channels : x \in {t} \X DOMAIN ipc[t]
    BY DEF Messages, TypeInv, IpcTypes
  <2>2. DOMAIN ipc[t] = 1 .. Len(ipc[t])
    BY DEF TypeInv, IpcTypes
  <2> QED
    BY <2>1, <2>2
<1>4. f \in Injection(rest, who)
  <2>1. ASSUME NEW x \in rest, NEW y \in rest, f[x] = f[y]
        PROVE  x = y /\ f[x] \in who
    <3>1. Owner(x[1], ipc[x[1]][x[2]]) = Owner(y[1], ipc[y[1]][y[2]])
      BY <2>1
    <3>2. /\ x[1] = y[1] /\ x[2] = y[2]
          /\ Owner(x[1], ipc[x[1]][x[2]]) \in Children \cup {Nobody}
      BY <1>3, <3>1, OwnersDiffer
    <3> QED
      BY <1>3, <3>2
  <2>2. f \in [rest -> who]
    BY <2>1
  <2> HIDE DEF f, rest, who
  <2> QED
    BY <2>1, <2>2 DEF Injection, IsInjective
<1>5. IsFiniteSet(who) /\ Cardinality(who) = numChildren + 1
  BY <1>1, FS_AddElement DEF numChildren
<1>6. IsFiniteSet(rest) /\ Cardinality(rest) <= numChildren + 1
  <2> HIDE DEF f, rest, who
  <2> QED
    BY <1>4, <1>5, FS_Injection
<1>7. IsFiniteSet(lines) /\ Cardinality(lines) = len
  <2>1. IsFiniteSet(1 .. len) /\ Cardinality(1 .. len) = len
    <3> HIDE DEF len
    <3>1. 1 \in Int /\ len \in Int
      BY <1>2
    <3>2. IsFiniteSet(1 .. len) /\ Cardinality(1 .. len) = IF 1 > len THEN 0 ELSE len - 1 + 1
      BY <3>1, FS_Interval
    <3> QED
      BY <1>2, <3>2
  <2>2. IsFiniteSet({"LOG"}) /\ Cardinality({"LOG"}) = 1
    BY FS_Singleton
  <2>3. IsFiniteSet(lines) /\ Cardinality(lines) = 1 * Cardinality(1 .. len)
    BY <2>1, <2>2, FS_Product
  <2> HIDE DEF lines, len
  <2> QED
    BY <1>2, <2>1, <2>3
<1>8. Pending(ipc) <= len + numChildren + 1 /\ Pending(ipc) \in Nat
  <2>1. Messages(ipc) \subseteq lines \cup rest
    OBVIOUS
  <2> HIDE DEF lines, rest, len
  <2>2. IsFiniteSet(lines \cup rest)
        /\ Cardinality(lines \cup rest)
             = Cardinality(lines) + Cardinality(rest) - Cardinality(lines \cap rest)
    BY <1>6, <1>7, FS_Union
  <2>3. IsFiniteSet(lines \cap rest)
    BY <1>6, FS_Intersection
  <2>4. /\ Cardinality(lines \cap rest) \in Nat /\ Cardinality(rest) \in Nat
        /\ Cardinality(lines \cup rest) \in Nat
    BY <1>6, <2>2, <2>3, FS_CardinalityType
  <2>5. Cardinality(Messages(ipc)) <= Cardinality(lines \cup rest)
        /\ IsFiniteSet(Messages(ipc))
    BY <2>1, <2>2, FS_Subset
  <2>6. Pending(ipc) = Cardinality(Messages(ipc)) /\ Pending(ipc) \in Nat
    BY <2>5, FS_CardinalityType DEF Pending
  <2> QED
    BY <1>1, <1>2, <1>6, <1>7, <2>2, <2>4, <2>5, <2>6
<1> HIDE DEF len
<1>9. len + Budget <= MostLines
  BY DEF LogInv, len
<1>10. Budget \in Nat /\ MostLines \in Nat
  BY BudgetFits, MostIs
<1>11. MostLines + numChildren + 2 <= IpcCap
  BY <1>1, <1>10 DEF Needed
<1>12. Pending(ipc) + 1 + Budget <= IpcCap
  BY <1>1, <1>2, <1>8, <1>9, <1>10, <1>11
<1> QED
  BY <1>12 DEF Room

LEMMA TurnsHold == ASSUME IpcCap >= Needed PROVE Spec => [](TypeInv /\ TurnInv /\ LogInv /\ Room)
<1> DEFINE inv == TypeInv /\ TurnInv /\ LogInv
<1>1. Init => inv
  BY TypeInit, TurnInit, LogInit
<1>2. inv => Room
  BY RoomHolds
<1>3. inv /\ [Next]_vars => inv'
  BY <1>2, TypeStep, TurnStep, LogStep
<1> QED
  BY <1>1, <1>2, <1>3, PTL DEF Spec

\* Every child has one turn: it owes main a message or main owes it one, never
\* both and never neither, for any number of children.  msgsnd is called with
\* IPC_NOWAIT and a message that finds the queue full is lost: the protocol relies
\* on room for Needed messages, which are all lines that the handlers of a child
\* can have sent before main reads one, the seven lists of PerChild, those of the
\* start, and one message per child and two more.
THEOREM OneTurnForEach == ASSUME IpcCap >= Needed PROVE Spec => []OneTurnEach
<1>1. TypeInv /\ TurnInv => OneTurnEach
  <2> SUFFICES ASSUME TypeInv, TurnInv, NEW c \in Children PROVE Cardinality(Turns(c)) = 1
    BY DEF OneTurnEach
  <2>1. PICK p \in Places : \A other \in Places : At(c, other) <=> other = p
    BY DEF TurnInv, OneTurn
  <2>2. /\ (cpc[c] # "wait") <=> p = "works"
        /\ Served(c) <=> p = "served"
        /\ From(ipc, c, c) <=> p = "told"
        /\ From(ipc, "READY", c) <=> p = "READY"
        /\ From(ipc, "RENDER_READY", c) <=> p = "RENDER_READY"
        /\ From(ipc, "FRAME_DONE", c) <=> p = "FRAME_DONE"
    BY <2>1 DEF At, Places
  <2>3. /\ c \in Channels \ {"LOG"} /\ "READY" \in Channels /\ "RENDER_READY" \in Channels
        /\ "FRAME_DONE" \in Channels /\ c \notin Server
        /\ "READY" \notin Children /\ "RENDER_READY" \notin Children /\ "FRAME_DONE" \notin Children
    BY ServerNames DEF Channels
  <2>4. \A t \in Channels : DOMAIN ipc[t] = 1 .. Len(ipc[t])
    BY DEF TypeInv, IpcTypes
  <2>5. /\ \A m : Owner(c, m) = c /\ Owner("READY", m) = m /\ Owner("RENDER_READY", m) = m
        /\ \A m : Owner("FRAME_DONE", m) = m.child
    BY <2>3 DEF Owner
  <2> DEFINE place(s, t) == {<<s, k>> : k \in {k \in 1 .. Len(ipc[t]) : Owner(t, ipc[t][k]) = c}}
             works == IF p = "works" THEN {<<"works">>} ELSE {}
             served == IF p = "served" THEN {<<"served">>} ELSE {}
  <2>6. Turns(c) = works \cup place("told", c) \cup place("ready", "READY")
                   \cup place("renderReady", "RENDER_READY") \cup place("done", "FRAME_DONE")
                   \cup served
    <3>1. {<<"works">> : x \in {x \in {c} : cpc[c] \in {"unborn", "init", "loaded", "exited"}}} = works
      <4>1. cpc[c] \in {"unborn", "init", "loaded", "exited"} <=> p = "works"
        BY <2>2 DEF TypeInv, TypeOK
      <4> QED
        BY <4>1
    <3>2. {<<"served">> : x \in {x \in {c} : cur.child = c
             /\ ppc \in {"finish", "scan", "wrap", "next", "putBack"}}} = served
      BY <2>2 DEF Served, Serving
    <3>3. {<<"told", k>> : k \in DOMAIN ipc[c]} = place("told", c)
      BY <2>3, <2>4, <2>5
    <3>4. {<<"ready", k>> : k \in {k \in DOMAIN ipc["READY"] : ipc["READY"][k] = c}}
            = place("ready", "READY")
      BY <2>3, <2>4, <2>5
    <3>5. {<<"renderReady", k>> : k \in {k \in DOMAIN ipc["RENDER_READY"] : ipc["RENDER_READY"][k] = c}}
            = place("renderReady", "RENDER_READY")
      BY <2>3, <2>4, <2>5
    <3>6. {<<"done", k>> : k \in {k \in DOMAIN ipc["FRAME_DONE"] : ipc["FRAME_DONE"][k].child = c}}
            = place("done", "FRAME_DONE")
      BY <2>3, <2>4, <2>5
    <3> HIDE DEF works, served, place
    <3> QED
      BY <3>1, <3>2, <3>3, <3>4, <3>5, <3>6, Zenon DEF Turns
  <2>7. ASSUME NEW t \in {"READY", "RENDER_READY", "FRAME_DONE", c}, NEW s
        PROVE  /\ From(ipc, t, c) => \E x : place(s, t) = {x}
               /\ ~From(ipc, t, c) => place(s, t) = {}
    <3>1. NoTwo(ipc, t)
      BY <2>3 DEF TurnInv, NoTwoFrom
    <3>2. ASSUME From(ipc, t, c) PROVE \E x : place(s, t) = {x}
      <4>1. PICK k \in 1 .. Len(ipc[t]) : Owner(t, ipc[t][k]) = c
        BY <3>2 DEF From
      <4>2. \A h \in 1 .. Len(ipc[t]) : Owner(t, ipc[t][h]) = c => h = k
        BY <3>1, <4>1 DEF NoTwo
      <4>3. place(s, t) = {<<s, k>>}
        BY <4>1, <4>2
      <4> QED
        BY <4>3
    <3>3. ASSUME ~From(ipc, t, c) PROVE place(s, t) = {}
      BY <3>3 DEF From
    <3> QED
      BY <3>2, <3>3
  <2>8. \E x : Turns(c) = {x}
    <3>1. /\ p = "works" => works = {<<"works">>} /\ served = {}
          /\ p = "served" => works = {} /\ served = {<<"served">>}
          /\ p \notin {"works", "served"} => works = {} /\ served = {}
      OBVIOUS
    <3> HIDE DEF works, served, place
    <3>2. /\ p = "told" => \E x : place("told", c) = {x}
          /\ p # "told" => place("told", c) = {}
      BY <2>2, <2>7
    <3>3. /\ p = "READY" => \E x : place("ready", "READY") = {x}
          /\ p # "READY" => place("ready", "READY") = {}
      BY <2>2, <2>7
    <3>4. /\ p = "RENDER_READY" => \E x : place("renderReady", "RENDER_READY") = {x}
          /\ p # "RENDER_READY" => place("renderReady", "RENDER_READY") = {}
      BY <2>2, <2>7
    <3>5. /\ p = "FRAME_DONE" => \E x : place("done", "FRAME_DONE") = {x}
          /\ p # "FRAME_DONE" => place("done", "FRAME_DONE") = {}
      BY <2>2, <2>7
    <3>6. p \in {"works", "served", "told", "READY", "RENDER_READY", "FRAME_DONE"}
      BY <2>1 DEF Places
    <3> QED
      BY <2>6, <3>1, <3>2, <3>3, <3>4, <3>5, <3>6
  <2> QED
    BY <2>8, FS_Singleton
<1> QED
  BY <1>1, TurnsHold, PTL
-----------------------------------------------------------------------------
(***************************************************************************)
(* The frames that travel through the System V queue.                      *)
(***************************************************************************)
SameFrames(q, p) == /\ \A c \in Children : FramesTo(p, c) = FramesTo(q, c)
                    /\ In(p, "FRAME_DONE") = In(q, "FRAME_DONE")

LEMMA PostIn ==
  ASSUME NEW q, IpcTypes(q), NEW t \in Channels, NEW m \in Content(t), NEW p, p = Post(q, t, m)
  PROVE  /\ \A u \in Channels \ {t} : In(p, u) = In(q, u)
         /\ In(q, t) \subseteq In(p, t) /\ In(p, t) \subseteq In(q, t) \cup {m}
         /\ Pending(q) < IpcCap => m \in In(p, t)
         /\ IpcTypes(p)
<1>0. IpcTypes(p)
  BY PostTypes
<1>1. CASE p = q /\ ~(Pending(q) < IpcCap)
  BY <1>0, <1>1
<1>2. CASE Pending(q) < IpcCap
  <2> DEFINE n == Len(q[t])
  <2>1. /\ \A u \in Channels \ {t} : p[u] = q[u]
        /\ n \in Nat /\ Len(p[t]) = n + 1
        /\ \A k \in 1 .. n : p[t][k] = q[t][k]
        /\ p[t][n + 1] = m
    BY <1>2, PostFacts
  <2>2. n = Len(q[t])
    OBVIOUS
  <2> HIDE DEF n
  <2>3. 1 .. n + 1 = (1 .. n) \cup {n + 1}
    BY <2>1
  <2>4. In(p, t) = In(q, t) \cup {m}
    <3>1. In(p, t) = {p[t][k] : k \in (1 .. n) \cup {n + 1}}
      BY <2>1, <2>3 DEF In
    <3>2. In(q, t) = {q[t][k] : k \in 1 .. n}
      BY <2>2 DEF In
    <3>3. In(q, t) = {p[t][k] : k \in 1 .. n}
      BY <2>1, <3>2
    <3> QED
      BY <2>1, <3>1, <3>3
  <2>5. \A u \in Channels \ {t} : In(p, u) = In(q, u)
    BY <2>1 DEF In
  <2> QED
    BY <1>0, <2>4, <2>5
<1> QED
  BY <1>1, <1>2 DEF Post

LEMMA RestIn ==
  ASSUME NEW q, IpcTypes(q), NEW t \in Channels, q[t] # <<>>, NEW p, p = Rest(q, t)
  PROVE  /\ \A u \in Channels \ {t} : In(p, u) = In(q, u)
         /\ In(p, t) \subseteq In(q, t) /\ In(q, t) \subseteq In(p, t) \cup {Head(q[t])}
         /\ Head(q[t]) \in In(q, t) /\ IpcTypes(p)
<1> DEFINE n == Len(p[t])
<1>1. /\ \A u \in Channels \ {t} : p[u] = q[u]
      /\ n \in Nat /\ Len(q[t]) = n + 1
      /\ \A k \in 1 .. n : p[t][k] = q[t][k + 1]
      /\ q[t][1] = Head(q[t])
  BY RestFacts
<1>2. n = Len(p[t])
  OBVIOUS
<1> HIDE DEF n
<1>3. 1 \in 1 .. n + 1 /\ \A k \in 1 .. n : k + 1 \in 1 .. n + 1
  BY <1>1
<1>4. \A k \in 1 .. n + 1 : k = 1 \/ (k - 1 \in 1 .. n /\ (k - 1) + 1 = k)
  BY <1>1
<1>5. \A u \in Channels \ {t} : In(p, u) = In(q, u)
  BY <1>1 DEF In
<1>6. In(p, t) \subseteq In(q, t)
  BY <1>1, <1>2, <1>3 DEF In
<1>7. In(q, t) \subseteq In(p, t) \cup {Head(q[t])}
  <2> SUFFICES ASSUME NEW k \in 1 .. n + 1 PROVE q[t][k] \in In(p, t) \cup {Head(q[t])}
    BY <1>1 DEF In
  <2>1. CASE k = 1
    BY <1>1, <2>1
  <2>2. CASE k # 1
    <3>1. k - 1 \in 1 .. n /\ p[t][k - 1] = q[t][k]
      BY <1>1, <1>4, <2>2
    <3> QED
      BY <1>2, <3>1 DEF In
  <2> QED
    BY <2>1, <2>2
<1>8. Head(q[t]) \in In(q, t)
  BY <1>1, <1>3 DEF In
<1> QED
  BY <1>5, <1>6, <1>7, <1>8, RestTypes

LEMMA LoggedIn ==
  ASSUME NEW q, IpcTypes(q), NEW n \in Nat
  PROVE  IpcTypes(Logged(q, n)) /\ \A u \in Channels \ {"LOG"} : In(Logged(q, n), u) = In(q, u)
<1>1. DOMAIN q = Channels
  BY DEF IpcTypes
<1>2. \A u \in Channels \ {"LOG"} : Logged(q, n)[u] = q[u]
  BY <1>1, LoggedIs
<1>3. \A u \in Channels \ {"LOG"} : In(Logged(q, n), u) = In(q, u)
  BY <1>2 DEF In
<1> QED
  BY <1>3, LoggedTypes

\* A message that carries no frame, sent after any number of log lines.
LEMMA PostSame ==
  ASSUME NEW q, IpcTypes(q), NEW n \in Nat, NEW t \in Channels \ {"FRAME_DONE"},
         NEW m \in Content(t), t \in Children => m.type # "RENDER_FRAME"
  PROVE  SameFrames(q, Post(Logged(q, n), t, m)) /\ SameFrames(q, Logged(q, n))
<1>0. /\ "FRAME_DONE" \in Channels \ {"LOG"} /\ \A c \in Children : c \in Channels \ {"LOG"}
      /\ "FRAME_DONE" \notin Children
  BY ServerNames DEF Channels
<1> DEFINE r == Logged(q, n)
           p == Post(r, t, m)
<1>1. IpcTypes(r) /\ \A u \in Channels \ {"LOG"} : In(r, u) = In(q, u)
  BY LoggedIn
<1>2. SameFrames(q, r)
  BY <1>0, <1>1 DEF SameFrames, FramesTo
<1> HIDE DEF r
<1>3. /\ \A u \in Channels \ {t} : In(p, u) = In(r, u)
      /\ In(r, t) \subseteq In(p, t) /\ In(p, t) \subseteq In(r, t) \cup {m}
  BY <1>1, PostIn
<1> HIDE DEF p
<1>4. SameFrames(r, p)
  <2>1. ASSUME NEW c \in Children PROVE FramesTo(p, c) = FramesTo(r, c)
    <3>1. CASE c = t
      BY <1>3, <3>1 DEF FramesTo
    <3>2. CASE c # t
      BY <1>0, <1>3, <3>2 DEF FramesTo
    <3> QED
      BY <3>1, <3>2
  <2> QED
    BY <1>0, <1>3, <2>1 DEF SameFrames
<1>5. SameFrames(q, p)
  BY <1>2, <1>4 DEF SameFrames
<1> QED
  BY <1>2, <1>5 DEF p, r

LEMMA SaysSame ==
  ASSUME NEW q, IpcTypes(q), NEW most, NEW t \in Channels \ {"FRAME_DONE"},
         NEW m \in Content(t), t \in Children => m.type # "RENDER_FRAME", Says(q, most, t, m)
  PROVE  SameFrames(q, ipc')
<1>1. PICK n \in Nat : ipc' = Post(Logged(q, n), t, m)
  BY DEF Says
<1> QED
  BY <1>1, PostSame

\* A message that carries no frame, received.
LEMMA RestSame ==
  ASSUME NEW q, IpcTypes(q), NEW t \in Channels \ {"FRAME_DONE"}, q[t] # <<>>,
         t \in Children => Head(q[t]).type # "RENDER_FRAME"
  PROVE  SameFrames(q, Rest(q, t)) /\ IpcTypes(Rest(q, t))
<1>0. /\ "FRAME_DONE" \in Channels /\ \A c \in Children : c \in Channels
  BY ServerNames DEF Channels
<1> DEFINE p == Rest(q, t)
<1>1. /\ \A u \in Channels \ {t} : In(p, u) = In(q, u) /\ IpcTypes(p)
      /\ In(p, t) \subseteq In(q, t) /\ In(q, t) \subseteq In(p, t) \cup {Head(q[t])}
  BY RestIn
<1>2. IpcTypes(p)
  BY RestTypes
<1> HIDE DEF p
<1>3. ASSUME NEW c \in Children PROVE FramesTo(p, c) = FramesTo(q, c)
  <2>1. CASE c = t
    BY <1>1, <2>1 DEF FramesTo
  <2>2. CASE c # t
    BY <1>0, <1>1, <2>2 DEF FramesTo
  <2> QED
    BY <2>1, <2>2
<1>4. SameFrames(q, p)
  BY <1>0, <1>1, <1>3 DEF SameFrames
<1> QED
  BY <1>2, <1>4 DEF p

\* A step that passes no frame on.
Quiet ==
  /\ SameFrames(ipc, ipc') /\ UNCHANGED <<job, picture, frameOut, outFile>>
  /\ Sent' \subseteq Sent
  /\ \A c \in Children :
       /\ cpc'[c] = "loaded" => cpc[c] = "loaded"
       /\ cpc[c] \in {"loaded", "exited"} => cpc'[c] \in {"loaded", "exited"}

LEMMA FramesPassed ==
  ASSUME TypeInv, [Next]_vars
  PROVE  \/ Quiet \/ (NextFrame /\ ppc' = "videoIn") \/ OnFrameDone
         \/ \E c \in Children : ChildLoad(c) \/ ChildRender(c)
<1> USE DEF ringVars, videoVars, mainVars, childVars, fileVars
<1>1. /\ IpcTypes(ipc) /\ cpc \in [Children -> {"unborn", "init", "wait", "loaded", "exited"}]
      /\ inFile \in [Frames -> Frames \cup {0}]
  BY DEF TypeInv, TypeOK
<1>2. /\ Server = {"READY", "VIDEO_READY", "RENDER_READY", "DYING_GASP", "LOG", "FRAME_DONE"}
      /\ Channels = Server \cup Children /\ \A c \in Children : c \notin Server
  BY ServerNames DEF Channels
<1>3. /\ \A t \in {"READY", "RENDER_READY", "DYING_GASP"} : Content(t) = Children
      /\ "ready" \in Content("VIDEO_READY") /\ "line" \in Content("LOG")
      /\ \A c \in Children : Content(c) = ToChild
  BY <1>2 DEF Content
<1>4. SameFrames(ipc, ipc)
  BY DEF SameFrames
<1>5. \A t \in Server \ {"FRAME_DONE"} : ipc[t] # <<>> =>
        SameFrames(ipc, Rest(ipc, t)) /\ IpcTypes(Rest(ipc, t))
  BY <1>1, <1>2, RestSame
<1>6. \A q : IpcTypes(q) => \A n \in Nat : SameFrames(q, Logged(q, n))
  BY <1>2, <1>3, PostSame
<1>7. \A q, r, p : SameFrames(q, r) /\ SameFrames(r, p) => SameFrames(q, p)
  BY DEF SameFrames
<1>8. ASSUME UNCHANGED <<job, picture, frameOut, outFile, cpc, inFile>>, SameFrames(ipc, ipc'),
             ppc' # "videoIn" \/ UNCHANGED <<ppc, cur>>
      PROVE  Quiet
  <2>1. Sent' \subseteq Sent
    BY <1>8 DEF Sent, Given
  <2> QED
    BY <1>8, <2>1 DEF Quiet
<1>9. CASE VideoInThread
  <2>1. CASE VideoStart
    <3>1. SameFrames(ipc, ipc')
      <4>1. /\ "VIDEO_READY" \in Channels \ {"FRAME_DONE"} /\ "VIDEO_READY" \notin Children
            /\ Says(ipc, LogLines["video"], "VIDEO_READY", "ready")
        BY <1>2, <2>1, ServerSays
      <4> QED
        BY <1>1, <1>3, <4>1, SaysSame
    <3> QED
      BY <1>8, <2>1, <3>1 DEF VideoStart
  <2>2. CASE ~VideoStart
    <3>1. UNCHANGED <<job, picture, frameOut, outFile, cpc, inFile, ipc, ppc, cur>>
      BY <1>9, <2>2 DEF VideoInThread, VideoCheck, VideoDecode, VideoMark, VideoEnqueue,
         VideoAdvance, VideoEnd
    <3> QED
      BY <1>4, <1>8, <3>1
  <2> QED
    BY <2>1, <2>2
<1>10. ASSUME AwaitVideo \/ \E type \in Server : OnOther(type) PROVE Quiet
  <2>1. PICK t \in Server \ {"FRAME_DONE"} : ipc[t] # <<>> /\ ipc' = Rest(ipc, t)
    BY <1>2, <1>10 DEF AwaitVideo, OnOther, Chosen
  <2>2. UNCHANGED <<job, picture, frameOut, outFile, cpc, inFile, cur>>
        /\ (ppc' # "videoIn" \/ UNCHANGED ppc)
    BY <1>10 DEF AwaitVideo, OnOther
  <2> QED
    BY <1>5, <1>8, <2>1, <2>2
<1>11. ASSUME NEW c \in Children, Fork(c) PROVE Quiet
  <2>1. UNCHANGED <<job, picture, frameOut, outFile, inFile, cur, ipc>> /\ ppc' # "videoIn"
    BY <1>11 DEF Fork
  <2>2. cpc[c] = "unborn" /\ cpc' = [cpc EXCEPT ![c] = "init"]
    BY <1>11 DEF Fork
  <2>3. Sent' \subseteq Sent
    BY <2>1 DEF Sent, Given
  <2> QED
    BY <1>1, <1>4, <2>1, <2>2, <2>3 DEF Quiet
<1>12. ASSUME OnReady PROVE Quiet
  <2>1. PICK d, m :
          /\ d = Head(ipc["READY"]) /\ ipc["READY"] # <<>>
          /\ m = [type |-> IF capable[d] THEN "RENDER_MODE" ELSE "EXIT"]
          /\ Says(Rest(ipc, "READY"), LogLines["ready"], d, m)
    BY <1>12, ServerSays DEF OnReady, Chosen
  <2>2. SameFrames(ipc, Rest(ipc, "READY")) /\ IpcTypes(Rest(ipc, "READY"))
    BY <1>2, <1>5, <2>1
  <2>3. d \in Children
    BY <1>1, <1>2, <1>3, <2>1, RestTypes
  <2>4. m \in Content(d) /\ m.type # "RENDER_FRAME" /\ d \in Channels \ {"FRAME_DONE"}
    BY <1>2, <1>3, <2>1, <2>3 DEF ToChild
  <2>5. SameFrames(Rest(ipc, "READY"), ipc')
    BY <2>1, <2>2, <2>4, SaysSame
  <2>6. UNCHANGED <<job, picture, frameOut, outFile, cpc, inFile, cur, ppc>>
    BY <1>12 DEF OnReady
  <2> QED
    BY <1>7, <1>8, <2>2, <2>5, <2>6
<1>13. ASSUME OnRenderReady PROVE Quiet
  <2>1. ipc["RENDER_READY"] # <<>> /\ (\E n \in Nat : ipc' = Logged(Rest(ipc, "RENDER_READY"), n))
        /\ UNCHANGED <<job, picture, frameOut, outFile, cpc, inFile>> /\ ppc' # "videoIn"
    BY <1>13, ServerSays DEF OnRenderReady, Chosen
  <2>2. SameFrames(ipc, Rest(ipc, "RENDER_READY")) /\ IpcTypes(Rest(ipc, "RENDER_READY"))
    BY <1>2, <1>5, <2>1
  <2>3. SameFrames(ipc, ipc')
    BY <1>6, <1>7, <2>1, <2>2
  <2> QED
    BY <1>8, <2>1, <2>3
<1>14. ASSUME VideoFinished \/ VideoFinishedScan \/ VideoFinishedWrap \/ ParentExit PROVE Quiet
  <2>1. UNCHANGED <<job, picture, frameOut, outFile, cpc, inFile, ipc>> /\ ppc' # "videoIn"
    BY <1>14 DEF VideoFinished, VideoFinishedScan, VideoFinishedWrap, ParentExit
  <2> QED
    BY <1>4, <1>8, <2>1
<1>15. ASSUME NextFrame, ppc' # "videoIn" PROVE Quiet
  <2>1. UNCHANGED <<job, picture, frameOut, outFile, cpc, inFile, ipc>>
    BY <1>15 DEF NextFrame
  <2> QED
    BY <1>4, <1>8, <1>15, <2>1
<1>16. ASSUME PutBack PROVE Quiet
  <2>1. PICK d, m : /\ d = cur.child /\ m = [type |-> "EXIT"]
                    /\ Says(ipc, LogLines["marker"], d, m)
    BY <1>16, ServerSays
  <2>2. d \in Children
    BY <1>16, <2>1 DEF PutBack, TypeInv, WorkTypes, Serving
  <2>3. m \in Content(d) /\ m.type # "RENDER_FRAME" /\ d \in Channels \ {"FRAME_DONE"}
    BY <1>2, <1>3, <2>1, <2>2 DEF ToChild
  <2>4. SameFrames(ipc, ipc')
    BY <1>1, <2>1, <2>3, SaysSame
  <2>5. UNCHANGED <<job, picture, frameOut, outFile, cpc, inFile>> /\ ppc' # "videoIn"
    BY <1>16 DEF PutBack
  <2> QED
    BY <1>8, <2>4, <2>5
<1>17. ASSUME VideoIn PROVE Quiet
  <2>1. UNCHANGED <<job, picture, frameOut, outFile, cpc, ipc>> /\ ppc' = "recv" /\ ppc = "videoIn"
        /\ inFile' = [inFile EXCEPT ![cur.frameNum] = frameIn[cur.indexIn]]
    BY <1>17 DEF VideoIn
  <2>2. Sent' \subseteq Sent
    BY <1>1, <2>1 DEF Sent, Given
  <2> QED
    BY <1>4, <2>1, <2>2 DEF Quiet
<1>18. ASSUME NEW c \in Children, ChildInit(c) \/ ChildRenderMode(c) \/ ChildExit(c) \/ ChildDie(c)
       PROVE  Quiet
  <2>0. c \in Channels \ {"FRAME_DONE"} /\ "READY" \in Channels \ {"FRAME_DONE"}
        /\ "RENDER_READY" \in Channels \ {"FRAME_DONE"} /\ "DYING_GASP" \in Channels \ {"FRAME_DONE"}
    BY <1>2
  <2>1. ASSUME NEW q, IpcTypes(q), NEW t \in {"READY", "RENDER_READY", "DYING_GASP"},
               NEW most, Says(q, most, t, c)
        PROVE  SameFrames(q, ipc')
    <3>1. t \in Channels \ {"FRAME_DONE"} /\ t \notin Children /\ c \in Content(t)
      BY <1>2, <1>3
    <3> QED
      BY <2>1, <3>1, SaysSame
  <2>2. ASSUME NEW y, Gets(c, y), y # "RENDER_FRAME"
        PROVE  SameFrames(ipc, Rest(ipc, c)) /\ IpcTypes(Rest(ipc, c))
    BY <1>1, <2>0, <2>2, RestSame DEF Gets
  <2>3. SameFrames(ipc, ipc')
    <3>1. CASE \E t \in {"READY", "RENDER_READY", "DYING_GASP"} : \E most : Says(ipc, most, t, c)
      BY <1>1, <2>1, <3>1
    <3>2. CASE \E t \in {"READY", "RENDER_READY", "DYING_GASP"} :
                 /\ Gets(c, "RENDER_MODE") \/ Gets(c, "EXIT")
                 /\ \E most : Says(Rest(ipc, c), most, t, c)
      <4>1. SameFrames(ipc, Rest(ipc, c)) /\ IpcTypes(Rest(ipc, c))
        BY <2>2, <3>2
      <4>2. SameFrames(Rest(ipc, c), ipc')
        BY <2>1, <3>2, <4>1
      <4> QED
        BY <1>7, <4>1, <4>2
    <3> QED
      BY <1>18, <3>1, <3>2, ChildSays DEF ChildRenderMode, ChildExit
  <2>4. UNCHANGED <<job, picture, frameOut, outFile, inFile, ppc, cur>>
    BY <1>18 DEF ChildInit, ChildRenderMode, ChildExit, ChildDie
  <2>5. \/ cpc[c] = "init" /\ cpc' = [cpc EXCEPT ![c] = "wait"]
        \/ cpc' = cpc
        \/ cpc' = [cpc EXCEPT ![c] = "exited"]
    BY <1>18 DEF ChildInit, ChildRenderMode, ChildExit, ChildDie
  <2>6. Sent' \subseteq Sent
    BY <2>4 DEF Sent, Given
  <2>7. \A d \in Children :
          /\ cpc'[d] = "loaded" => cpc[d] = "loaded"
          /\ cpc[d] \in {"loaded", "exited"} => cpc'[d] \in {"loaded", "exited"}
    BY <1>1, <2>5
  <2> QED
    BY <2>3, <2>4, <2>6, <2>7 DEF Quiet
<1>19. CASE Ended \/ UNCHANGED vars
  <2>1. UNCHANGED <<job, picture, frameOut, outFile, cpc, inFile, ipc, ppc, cur>>
    BY <1>19 DEF Ended, vars
  <2> QED
    BY <1>4, <1>8, <2>1
<1> QED
  BY <1>9, <1>10, <1>11, <1>12, <1>13, <1>14, <1>15, <1>16, <1>17, <1>18, <1>19
     DEF Next, Main, Child

\* A slot that has been filled stays so, and one is filled before it is passed on.
LEMMA SlotsStayFilled ==
  ASSUME TypeInv, [Next]_vars
  PROVE  /\ \A s \in Slots : frameIn[s] # 0 => frameIn'[s] # 0
         /\ vpc' = "mark" /\ vpc # "mark" => frameIn'[tailIn] # 0 /\ tailIn' = tailIn
<1> USE DEF ringVars, videoVars, mainVars, childVars, fileVars
<1>1. TypeOK
  BY DEF TypeInv
<1>2. CASE VideoDecode
  <2>1. frameNum + 1 # 0
    BY <1>1 DEF TypeOK
  <2> QED
    BY <1>1, <1>2, <2>1 DEF VideoDecode, TypeOK
<1>3. CASE frameIn' = frameIn /\ (vpc' = vpc \/ vpc' # "mark")
  BY <1>3
<1> QED
  BY <1>2, <1>3 DEF Next, VideoInThread, VideoStart, VideoCheck, VideoMark, VideoEnqueue,
     VideoAdvance, VideoEnd, Main, AwaitVideo, Fork, OnOther, OnReady, OnRenderReady, OnFrameDone,
     VideoFinished, VideoFinishedScan, VideoFinishedWrap, NextFrame, PutBack, VideoIn, ParentExit,
     Child, ChildInit, ChildRenderMode, ChildLoad, ChildRender, ChildExit, ChildDie, Ended, vars

FrameMsgs == [frameNum : Frames, indexIn : Slots]

LEMMA QueueTypes ==
  ASSUME TypeInv
  PROVE  /\ ChildMsgQ \in Seq(FrameMsgs \cup {EndMsg}) /\ Len(ChildMsgQ) \in Nat
         /\ \A k \in 1 .. Len(ChildMsgQ) :
              ChildMsgQ[k] # EndMsg => /\ ChildMsgQ[k].frameNum \in Frames
                                       /\ ChildMsgQ[k].indexIn \in Slots
         /\ \A k \in 1 .. Len(ChildMsgQ) :
              ChildMsgQ[k] = EndMsg <=> ChildMsgQ[k].frameNum = EndOfInput
<1>1. ChildMsgQ \in Seq(FrameMsgs \cup {EndMsg}) /\ Len(ChildMsgQ) \in Nat
  BY DEF TypeInv, TypeOK, FrameMsgs
<1>2. ASSUME NEW k \in 1 .. Len(ChildMsgQ)
      PROVE  /\ ChildMsgQ[k] # EndMsg => /\ ChildMsgQ[k].frameNum \in Frames
                                         /\ ChildMsgQ[k].indexIn \in Slots
             /\ ChildMsgQ[k] = EndMsg <=> ChildMsgQ[k].frameNum = EndOfInput
  <2>1. ChildMsgQ[k] \in FrameMsgs \cup {EndMsg}
    BY <1>1
  <2>2. EndMsg.frameNum = EndOfInput /\ EndOfInput \notin Frames
    BY DEF EndMsg, EndOfInput, Frames
  <2>3. CASE ChildMsgQ[k] \in FrameMsgs
    <3>1. ChildMsgQ[k].frameNum \in Frames /\ ChildMsgQ[k].indexIn \in Slots
      BY <2>3 DEF FrameMsgs
    <3> QED
      BY <2>2, <3>1
  <2>4. CASE ChildMsgQ[k] = EndMsg
    BY <2>2, <2>4
  <2> QED
    BY <2>1, <2>3, <2>4
<1> QED
  BY <1>1, <1>2

\* The steps of ChildMsgQ.
LEMMA QueueSteps ==
  ASSUME TypeInv, [Next]_vars
  PROVE  \/ ChildMsgQ' = ChildMsgQ
         \/ VideoEnqueue /\ ChildMsgQ' = Append(ChildMsgQ, [frameNum |-> frameNum, indexIn |-> tailIn])
         \/ VideoEnd /\ ChildMsgQ' = Append(ChildMsgQ, EndMsg)
         \/ PutBack /\ ChildMsgQ' = Append(ChildMsgQ, EndMsg)
         \/ NextFrame /\ ChildMsgQ # <<>> /\ ChildMsgQ' = Tail(ChildMsgQ)
<1>1. CASE VideoEnqueue
  BY <1>1 DEF VideoEnqueue
<1>2. CASE VideoEnd
  BY <1>2 DEF VideoEnd
<1>3. CASE PutBack
  BY <1>3 DEF PutBack
<1>4. CASE NextFrame
  BY <1>4 DEF NextFrame
<1>5. CASE VideoStart \/ VideoCheck \/ VideoDecode \/ VideoMark \/ VideoAdvance
  BY <1>5 DEF VideoStart, VideoCheck, VideoDecode, VideoMark, VideoAdvance
<1>6. CASE \/ AwaitVideo \/ (\E c \in Children : Fork(c)) \/ (\E type \in Server : OnOther(type))
           \/ OnReady \/ OnRenderReady \/ OnFrameDone
  BY <1>6 DEF AwaitVideo, Fork, OnOther, OnReady, OnRenderReady, OnFrameDone
<1>7. CASE VideoFinished \/ VideoFinishedScan \/ VideoFinishedWrap \/ VideoIn \/ ParentExit
  BY <1>7 DEF VideoFinished, VideoFinishedScan, VideoFinishedWrap, VideoIn, ParentExit
<1>8. CASE \E c \in Children : Child(c)
  BY <1>8 DEF Child, ChildInit, ChildRenderMode, ChildLoad, ChildRender, ChildExit, ChildDie
<1>9. CASE Ended \/ UNCHANGED vars
  BY <1>9 DEF Ended, vars
<1> QED
  BY <1>1, <1>2, <1>3, <1>4, <1>5, <1>6, <1>7, <1>8, <1>9 DEF Next, VideoInThread, Main

LEMMA TailElements ==
  ASSUME NEW S, NEW s \in Seq(S), s # <<>>, NEW t, t = Tail(s)
  PROVE  /\ Len(t) \in Nat /\ Len(s) = Len(t) + 1 /\ s[1] = Head(s)
         /\ \A k \in 1 .. Len(t) : t[k] = s[k + 1] /\ k + 1 \in 1 .. Len(s)
         /\ 1 \in 1 .. Len(s)
<1>1. Len(t) \in Nat /\ Len(s) = Len(t) + 1 /\ s[1] = Head(s)
  OBVIOUS
<1>2. \A k \in 1 .. Len(t) : t[k] = s[k + 1]
  OBVIOUS
<1> QED
  BY <1>1, <1>2

LEMMA AppendElements ==
  ASSUME NEW S, NEW s \in Seq(S), NEW x \in S, NEW t, t = Append(s, x)
  PROVE  /\ Len(s) \in Nat /\ Len(t) = Len(s) + 1 /\ t[Len(s) + 1] = x
         /\ \A k \in 1 .. Len(s) : t[k] = s[k]
         /\ 1 .. Len(t) = (1 .. Len(s)) \cup {Len(s) + 1}
<1>1. Len(s) \in Nat /\ Len(t) = Len(s) + 1 /\ t[Len(s) + 1] = x
      /\ \A k \in 1 .. Len(s) : t[k] = s[k]
  BY AppendProperties
<1>2. \A n \in Nat : 1 .. n + 1 = (1 .. n) \cup {n + 1}
  OBVIOUS
<1> QED
  BY <1>1, <1>2

LEMMA InputStep == TypeInv /\ InputFilled /\ [Next]_vars => InputFilled'
<1> SUFFICES ASSUME TypeInv, InputFilled, [Next]_vars PROVE InputFilled'
  OBVIOUS
<1> USE DEF ringVars, videoVars, mainVars, childVars, fileVars
<1>1. /\ \A s \in Slots : frameIn[s] # 0 => frameIn'[s] # 0
      /\ vpc' = "mark" /\ vpc # "mark" => frameIn'[tailIn] # 0 /\ tailIn' = tailIn
      /\ tailIn \in Slots /\ cur.indexIn \in Slots
  <2>1. tailIn \in Slots /\ cur.indexIn \in Slots
    BY DEF TypeInv, TypeOK, Jobs
  <2> QED
    BY <2>1, SlotsStayFilled
<1>2. /\ Len(ChildMsgQ) \in Nat /\ ChildMsgQ \in Seq(FrameMsgs \cup {EndMsg})
      /\ \A k \in 1 .. Len(ChildMsgQ) : ChildMsgQ[k] # EndMsg => ChildMsgQ[k].indexIn \in Slots
      /\ \A k \in 1 .. Len(ChildMsgQ) :
           ChildMsgQ[k] = EndMsg <=> ChildMsgQ[k].frameNum = EndOfInput
  BY QueueTypes
<1>3. vpc' \in {"mark", "enqueue"} => frameIn'[tailIn'] # 0
  <2>1. CASE vpc' = vpc /\ tailIn' = tailIn
    BY <1>1, <2>1 DEF InputFilled
  <2>2. CASE VideoInThread
    BY <1>1, <2>2 DEF InputFilled, VideoInThread, VideoStart, VideoCheck, VideoDecode, VideoMark,
       VideoEnqueue, VideoAdvance, VideoEnd
  <2> QED
    BY <2>1, <2>2 DEF Next, Main, AwaitVideo, Fork, OnOther, OnReady, OnRenderReady, OnFrameDone,
       VideoFinished, VideoFinishedScan, VideoFinishedWrap, NextFrame, PutBack, VideoIn, ParentExit,
       Child, ChildInit, ChildRenderMode, ChildLoad, ChildRender, ChildExit, ChildDie, Ended, vars
<1>4. \A k \in 1 .. Len(ChildMsgQ') :
        ChildMsgQ'[k] # EndMsg => frameIn'[ChildMsgQ'[k].indexIn] # 0
  <2>1. CASE ChildMsgQ' = ChildMsgQ
    BY <1>1, <1>2, <2>1 DEF InputFilled
  <2>2. ASSUME NEW m \in FrameMsgs \cup {EndMsg}, ChildMsgQ' = Append(ChildMsgQ, m),
               m = EndMsg \/ frameIn'[m.indexIn] # 0
        PROVE  \A k \in 1 .. Len(ChildMsgQ') :
                 ChildMsgQ'[k] # EndMsg => frameIn'[ChildMsgQ'[k].indexIn] # 0
    <3>1. /\ ChildMsgQ'[Len(ChildMsgQ) + 1] = m
          /\ \A k \in 1 .. Len(ChildMsgQ) : ChildMsgQ'[k] = ChildMsgQ[k]
          /\ 1 .. Len(ChildMsgQ') = (1 .. Len(ChildMsgQ)) \cup {Len(ChildMsgQ) + 1}
      BY <1>2, <2>2, AppendElements
    <3> QED
      BY <1>1, <1>2, <2>2, <3>1 DEF InputFilled
  <2>3. CASE VideoEnqueue
    <3>1. PICK m : m = [frameNum |-> frameNum, indexIn |-> tailIn]
      OBVIOUS
    <3>2. ChildMsgQ' = Append(ChildMsgQ, m) /\ frameIn' = frameIn /\ vpc = "enqueue"
      BY <2>3, <3>1 DEF VideoEnqueue
    <3>3. frameNum \in Frames
      BY <3>2, PipelineAssumption DEF TypeInv, TypeOK, WorkTypes, Frames
    <3>4. m \in FrameMsgs /\ m.indexIn = tailIn
      BY <1>1, <3>1, <3>3 DEF FrameMsgs
    <3> QED
      BY <2>2, <3>2, <3>4 DEF InputFilled
  <2>4. CASE ChildMsgQ' = Append(ChildMsgQ, EndMsg)
    BY <2>2, <2>4
  <2>5. CASE ChildMsgQ # <<>> /\ ChildMsgQ' = Tail(ChildMsgQ)
    <3>1. \A k \in 1 .. Len(ChildMsgQ') :
            ChildMsgQ'[k] = ChildMsgQ[k + 1] /\ k + 1 \in 1 .. Len(ChildMsgQ)
      BY <1>2, <2>5, TailElements
    <3> QED
      BY <1>1, <1>2, <3>1 DEF InputFilled
  <2> QED
    BY <2>1, <2>3, <2>4, <2>5, QueueSteps
<1>5. ppc' = "videoIn" => frameIn'[cur'.indexIn] # 0
  <2>1. CASE NextFrame
    <3> SUFFICES ASSUME ppc' = "videoIn" PROVE frameIn'[cur'.indexIn] # 0
      OBVIOUS
    <3>1. /\ ChildMsgQ # <<>> /\ frameIn' = frameIn /\ Head(ChildMsgQ).frameNum # EndOfInput
          /\ cur'.indexIn = Head(ChildMsgQ).indexIn
      BY <2>1 DEF NextFrame
    <3>2. ChildMsgQ[1] = Head(ChildMsgQ) /\ 1 \in 1 .. Len(ChildMsgQ)
      BY <1>2, <3>1, TailElements
    <3> QED
      BY <1>2, <3>1, <3>2 DEF InputFilled
  <2>2. CASE UNCHANGED <<ppc, cur>> \/ ppc' # "videoIn"
    BY <1>1, <2>2 DEF InputFilled
  <2> QED
    BY <2>1, <2>2 DEF Next, VideoInThread, VideoStart, VideoCheck, VideoDecode, VideoMark, VideoEnqueue,
       VideoAdvance, VideoEnd, Main, AwaitVideo, Fork, OnOther, OnReady, OnRenderReady, OnFrameDone,
       VideoFinished, VideoFinishedScan, VideoFinishedWrap, PutBack, VideoIn, ParentExit,
       Child, ChildInit, ChildRenderMode, ChildLoad, ChildRender, ChildExit, ChildDie, Ended, vars
<1> QED
  BY <1>3, <1>4, <1>5 DEF InputFilled
-----------------------------------------------------------------------------
\* The four steps that pass a frame on: main gives it out, the child takes it,
\* the child returns it, main takes it back.
LEMMA RoomNow == ASSUME TypeInv, Room PROVE Pending(ipc) \in Nat /\ Pending(ipc) < IpcCap
<1>1. Pending(ipc) \in Nat /\ IpcCap \in Nat /\ Budget \in Nat
  BY MessagesFinite, PipelineAssumption, BudgetFits DEF TypeInv
<1> QED
  BY <1>1 DEF Room

LEMMA FrameGiven ==
  ASSUME TypeInv, NextFrame, ppc' = "videoIn"
  PROVE  \E d \in Children, m \in ToChild :
           /\ d = cur.child /\ m.type = "RENDER_FRAME"
           /\ m.frameNum = cur'.frameNum /\ m.indexIn = cur'.indexIn
           /\ m.frameNum \in Frames /\ m.indexIn \in Slots
           /\ 1 \in 1 .. Len(ChildMsgQ) /\ ChildMsgQ[1] # EndMsg
           /\ ChildMsgQ[1].frameNum = m.frameNum /\ ChildMsgQ[1].indexIn = m.indexIn
           /\ \A u \in Channels \ {d} : In(ipc', u) = In(ipc, u)
           /\ In(ipc, d) \subseteq In(ipc', d) /\ In(ipc', d) \subseteq In(ipc, d) \cup {m}
           /\ Pending(ipc) < IpcCap => m \in In(ipc', d)
           /\ UNCHANGED <<frameIn, frameOut, cpc, picture, job, inFile, outFile>>
<1> USE DEF ringVars, videoVars, mainVars, childVars, fileVars
<1>1. PICK d, h, m :
        /\ d = cur.child /\ h = Head(ChildMsgQ) /\ ChildMsgQ # <<>> /\ h.frameNum # EndOfInput
        /\ m = [type |-> "RENDER_FRAME", frameNum |-> h.frameNum, indexIn |-> h.indexIn]
        /\ cur' = [child |-> cur.child, frameNum |-> h.frameNum, indexIn |-> h.indexIn]
        /\ ipc' = Post(ipc, d, m)
  BY DEF NextFrame
<1>2. d \in Children /\ d \in Channels /\ UNCHANGED <<frameIn, frameOut, cpc, picture, job, inFile, outFile>>
  BY <1>1 DEF NextFrame, TypeInv, WorkTypes, Serving, Channels
<1>3. ChildMsgQ \in Seq(FrameMsgs \cup {EndMsg})
  BY QueueTypes
<1>4. 1 \in 1 .. Len(ChildMsgQ) /\ ChildMsgQ[1] = h
  BY <1>1, <1>3, TailElements
<1>5. ChildMsgQ[1] # EndMsg /\ h.frameNum \in Frames /\ h.indexIn \in Slots
  BY <1>1, <1>4, QueueTypes
<1>6. /\ m.type = "RENDER_FRAME" /\ m.frameNum = h.frameNum /\ m.indexIn = h.indexIn
      /\ cur'.frameNum = h.frameNum /\ cur'.indexIn = h.indexIn
  BY <1>1
<1>7. m \in ToChild
  BY <1>1, <1>5 DEF ToChild
<1>8. IpcTypes(ipc) /\ m \in Content(d)
  BY <1>2, <1>7 DEF TypeInv, Content
<1>9. /\ \A u \in Channels \ {d} : In(ipc', u) = In(ipc, u)
      /\ In(ipc, d) \subseteq In(ipc', d) /\ In(ipc', d) \subseteq In(ipc, d) \cup {m}
      /\ Pending(ipc) < IpcCap => m \in In(ipc', d)
  BY <1>1, <1>2, <1>8, PostIn
<1> QED
  BY <1>1, <1>2, <1>4, <1>5, <1>6, <1>7, <1>9

LEMMA FrameTaken ==
  ASSUME TypeInv, NEW c \in Children, ChildLoad(c)
  PROVE  \E m \in In(ipc, c) :
           /\ m.type = "RENDER_FRAME" /\ m.frameNum \in Frames /\ m.indexIn \in Slots
           /\ \A u \in Channels \ {c} : In(ipc', u) = In(ipc, u)
           /\ In(ipc', c) \subseteq In(ipc, c) /\ In(ipc, c) \subseteq In(ipc', c) \cup {m}
           /\ job' = [job EXCEPT ![c] = [child |-> c, frameNum |-> m.frameNum, indexIn |-> m.indexIn]]
           /\ picture' = [picture EXCEPT ![c] = frameIn[m.indexIn]]
           /\ cpc[c] = "wait" /\ cpc' = [cpc EXCEPT ![c] = "loaded"]
           /\ UNCHANGED <<frameIn, frameOut, inFile, outFile, ppc, cur>>
<1> USE DEF ringVars, videoVars, mainVars, childVars, fileVars
<1>1. PICK m :
        /\ m = Head(ipc[c]) /\ ipc[c] # <<>> /\ m.type = "RENDER_FRAME"
        /\ job' = [job EXCEPT ![c] = [child |-> c, frameNum |-> m.frameNum, indexIn |-> m.indexIn]]
        /\ picture' = [picture EXCEPT ![c] = frameIn[m.indexIn]]
        /\ ipc' = Rest(ipc, c)
        /\ cpc[c] = "wait" /\ cpc' = [cpc EXCEPT ![c] = "loaded"]
        /\ UNCHANGED <<frameIn, frameOut, inFile, outFile, ppc, cur>>
  BY DEF ChildLoad, Gets
<1>2. c \in Channels /\ IpcTypes(ipc)
  BY DEF Channels, TypeInv
<1>3. /\ \A u \in Channels \ {c} : In(ipc', u) = In(ipc, u)
      /\ In(ipc', c) \subseteq In(ipc, c) /\ In(ipc, c) \subseteq In(ipc', c) \cup {m}
      /\ m \in In(ipc, c)
  BY <1>1, <1>2, RestIn
<1>4. m \in ToChild
  BY <1>1, <1>2, RestTypes DEF Content
<1>5. m.frameNum \in Frames /\ m.indexIn \in Slots
  BY <1>1, <1>4 DEF ToChild
<1> QED
  BY <1>1, <1>3, <1>5

LEMMA FrameReturned ==
  ASSUME TypeInv, NEW c \in Children, ChildRender(c)
  PROVE  \E m \in FrameJobs :
           /\ m = job[c] /\ m.child = c /\ m.frameNum \in Frames /\ m.indexIn \in Slots
           /\ \A u \in Channels \ {"LOG", "FRAME_DONE"} : In(ipc', u) = In(ipc, u)
           /\ In(ipc, "FRAME_DONE") \subseteq In(ipc', "FRAME_DONE")
           /\ In(ipc', "FRAME_DONE") \subseteq In(ipc, "FRAME_DONE") \cup {m}
           /\ TurnInv /\ Room => m \in In(ipc', "FRAME_DONE")
           /\ frameOut' = [frameOut EXCEPT ![m.indexIn] = picture[c]]
           /\ job' = [job EXCEPT ![c] = NoJob] /\ picture' = [picture EXCEPT ![c] = 0]
           /\ cpc[c] = "loaded" /\ cpc' = [cpc EXCEPT ![c] = "wait"]
           /\ UNCHANGED <<frameIn, inFile, outFile, ppc, cur>>
<1> USE DEF ringVars, videoVars, mainVars, childVars, fileVars
<1>0. PICK n \in Nat : n <= LogLines["frame"] /\ ipc' = Post(Logged(ipc, n), "FRAME_DONE", job[c])
  BY ChildSays DEF Says
<1>1. PICK m, r :
        /\ m = job[c] /\ r = Logged(ipc, n) /\ ipc' = Post(r, "FRAME_DONE", m)
        /\ frameOut' = [frameOut EXCEPT ![m.indexIn] = picture[c]]
        /\ job' = [job EXCEPT ![c] = NoJob] /\ picture' = [picture EXCEPT ![c] = 0]
        /\ cpc[c] = "loaded" /\ cpc' = [cpc EXCEPT ![c] = "wait"]
        /\ UNCHANGED <<frameIn, inFile, outFile, ppc, cur>>
  BY <1>0 DEF ChildRender
<1>2. IpcTypes(ipc) /\ m \in FrameJobs /\ m.child = c
  BY <1>1 DEF TypeInv, WorkTypes
<1>3. m.frameNum \in Frames /\ m.indexIn \in Slots
  BY <1>2 DEF FrameJobs
<1>4. "FRAME_DONE" \in Channels \ {"LOG"} /\ Content("FRAME_DONE") = FrameJobs
  BY ServerNames DEF Channels, Content
<1>5. IpcTypes(r) /\ \A u \in Channels \ {"LOG"} : In(r, u) = In(ipc, u)
  BY <1>1, <1>2, LoggedIn
<1>6. TurnInv /\ Room => Pending(r) < IpcCap
  <2> SUFFICES ASSUME TurnInv, Room PROVE Pending(r) < IpcCap
    OBVIOUS
  <2>1. Left(c) = 3
    BY <1>1, LeftWhen
  <2>2. n <= Weight(3)
    BY <1>0, WeightIs
  <2>3. Pending(ipc) + 1 + n <= IpcCap
    BY <1>0, <2>1, <2>2, RoomFor
  <2> QED
    BY <1>1, <1>2, <2>3, LoggedFacts
<1>7. /\ \A u \in Channels \ {"FRAME_DONE"} : In(ipc', u) = In(r, u)
      /\ In(r, "FRAME_DONE") \subseteq In(ipc', "FRAME_DONE")
      /\ In(ipc', "FRAME_DONE") \subseteq In(r, "FRAME_DONE") \cup {m}
      /\ Pending(r) < IpcCap => m \in In(ipc', "FRAME_DONE")
  BY <1>1, <1>2, <1>4, <1>5, PostIn
<1>8. In(r, "FRAME_DONE") = In(ipc, "FRAME_DONE")
  BY <1>4, <1>5
<1>9. \A u \in Channels \ {"LOG", "FRAME_DONE"} : In(ipc', u) = In(ipc, u)
  BY <1>5, <1>7
<1> QED
  BY <1>1, <1>2, <1>3, <1>6, <1>7, <1>8, <1>9

LEMMA FrameTakenBack ==
  ASSUME TypeInv, OnFrameDone
  PROVE  \E m \in FrameJobs :
           /\ m \in In(ipc, "FRAME_DONE") /\ m.frameNum \in Frames /\ m.indexIn \in Slots
           /\ \A u \in Channels \ {"FRAME_DONE"} : In(ipc', u) = In(ipc, u)
           /\ In(ipc', "FRAME_DONE") \subseteq In(ipc, "FRAME_DONE")
           /\ In(ipc, "FRAME_DONE") \subseteq In(ipc', "FRAME_DONE") \cup {m}
           /\ outFile' = [outFile EXCEPT ![m.frameNum] = frameOut[m.indexIn]]
           /\ ppc' = "finish" /\ cur' = m
           /\ UNCHANGED <<frameIn, frameOut, inFile, cpc, job, picture>>
<1> USE DEF ringVars, videoVars, mainVars, childVars, fileVars
<1>1. PICK m : /\ m = Head(ipc["FRAME_DONE"]) /\ ipc["FRAME_DONE"] # <<>>
               /\ ipc' = Rest(ipc, "FRAME_DONE") /\ ppc' = "finish" /\ cur' = m
               /\ outFile' = [outFile EXCEPT ![m.frameNum] = frameOut[m.indexIn]]
               /\ UNCHANGED <<frameIn, frameOut, inFile, cpc, job, picture>>
  BY DEF OnFrameDone, Chosen
<1>2. "FRAME_DONE" \in Channels /\ Content("FRAME_DONE") = FrameJobs /\ IpcTypes(ipc)
  BY ServerNames DEF Channels, Content, TypeInv
<1>3. /\ \A u \in Channels \ {"FRAME_DONE"} : In(ipc', u) = In(ipc, u)
      /\ In(ipc', "FRAME_DONE") \subseteq In(ipc, "FRAME_DONE")
      /\ In(ipc, "FRAME_DONE") \subseteq In(ipc', "FRAME_DONE") \cup {m}
      /\ m \in In(ipc, "FRAME_DONE")
  BY <1>1, <1>2, RestIn
<1>4. m \in FrameJobs
  BY <1>1, <1>2, RestTypes
<1>5. m.frameNum \in Frames /\ m.indexIn \in Slots
  BY <1>4 DEF FrameJobs
<1> QED
  BY <1>1, <1>3, <1>4, <1>5

LEMMA OutputStep == TypeInv /\ InputFilled /\ OutputFilled /\ [Next]_vars => OutputFilled'
<1> SUFFICES ASSUME TypeInv, InputFilled, OutputFilled, [Next]_vars PROVE OutputFilled'
  OBVIOUS
<1>1. \A s \in Slots : frameIn[s] # 0 => frameIn'[s] # 0
  BY SlotsStayFilled
<1>2. /\ "FRAME_DONE" \in Channels \ {"LOG"} /\ "FRAME_DONE" \notin Children
      /\ \A c \in Children : c \in Channels \ {"LOG", "FRAME_DONE"}
  BY ServerNames DEF Channels
<1>3. \A c \in Children : \A m \in In(ipc, c) : m.type = "RENDER_FRAME" => m.indexIn \in Slots
  <2> SUFFICES ASSUME NEW c \in Children, NEW k \in 1 .. Len(ipc[c]), ipc[c][k].type = "RENDER_FRAME"
               PROVE  ipc[c][k].indexIn \in Slots
    BY DEF In
  <2>1. ipc[c] \in Seq(ToChild)
    BY <1>2 DEF TypeInv, IpcTypes, Content
  <2>2. ipc[c][k] \in ToChild
    BY <2>1
  <2> QED
    BY <2>2 DEF ToChild
<1>4. \A m \in In(ipc, "FRAME_DONE") : m.indexIn \in Slots
  <2> SUFFICES ASSUME NEW k \in 1 .. Len(ipc["FRAME_DONE"])
               PROVE  ipc["FRAME_DONE"][k].indexIn \in Slots
    BY DEF In
  <2>1. ipc["FRAME_DONE"] \in Seq(FrameJobs)
    BY <1>2 DEF TypeInv, IpcTypes, Content
  <2>2. ipc["FRAME_DONE"][k] \in FrameJobs
    BY <2>1
  <2> QED
    BY <2>2 DEF FrameJobs
<1>5. /\ cpc \in [Children -> {"unborn", "init", "wait", "loaded", "exited"}]
      /\ picture \in [Children -> Frames \cup {0}] /\ frameOut \in [Slots -> Frames \cup {0}]
  BY DEF TypeInv, TypeOK
<1>6. CASE Quiet
  <2>1. ASSUME NEW c \in Children, NEW m \in In(ipc', c), m.type = "RENDER_FRAME"
        PROVE  frameIn'[m.indexIn] # 0
    <3>1. m \in In(ipc, c)
      BY <1>6, <2>1 DEF Quiet, SameFrames, FramesTo
    <3> QED
      BY <1>1, <1>3, <2>1, <3>1 DEF OutputFilled
  <2>2. \A c \in Children : cpc'[c] = "loaded" => picture'[c] # 0
    BY <1>6 DEF Quiet, OutputFilled
  <2>3. \A m \in In(ipc', "FRAME_DONE") : frameOut'[m.indexIn] # 0
    BY <1>6 DEF Quiet, SameFrames, OutputFilled
  <2> QED
    BY <2>1, <2>2, <2>3 DEF OutputFilled
<1>7. CASE NextFrame /\ ppc' = "videoIn"
  <2>1. PICK d \in Children, m \in ToChild :
          /\ m.indexIn \in Slots
          /\ 1 \in 1 .. Len(ChildMsgQ) /\ ChildMsgQ[1] # EndMsg
          /\ ChildMsgQ[1].indexIn = m.indexIn
          /\ \A u \in Channels \ {d} : In(ipc', u) = In(ipc, u)
          /\ In(ipc', d) \subseteq In(ipc, d) \cup {m}
          /\ UNCHANGED <<frameIn, frameOut, cpc, picture>>
    BY <1>7, FrameGiven
  <2>2. frameIn[m.indexIn] # 0
    BY <2>1 DEF InputFilled
  <2>3. ASSUME NEW c \in Children, NEW n \in In(ipc', c), n.type = "RENDER_FRAME"
        PROVE  frameIn'[n.indexIn] # 0
    <3>1. n \in In(ipc, c) \/ n = m
      BY <1>2, <2>1, <2>3
    <3> QED
      BY <2>1, <2>2, <2>3, <3>1 DEF OutputFilled
  <2>4. In(ipc', "FRAME_DONE") = In(ipc, "FRAME_DONE")
    BY <1>2, <2>1
  <2> QED
    BY <2>1, <2>3, <2>4 DEF OutputFilled
<1>8. CASE OnFrameDone
  <2>1. /\ \A u \in Channels \ {"FRAME_DONE"} : In(ipc', u) = In(ipc, u)
        /\ In(ipc', "FRAME_DONE") \subseteq In(ipc, "FRAME_DONE")
        /\ UNCHANGED <<frameIn, frameOut, cpc, picture>>
    BY <1>8, FrameTakenBack
  <2>2. \A c \in Children : In(ipc', c) = In(ipc, c)
    BY <1>2, <2>1
  <2> QED
    BY <2>1, <2>2 DEF OutputFilled
<1>9. ASSUME NEW c \in Children, ChildLoad(c) PROVE OutputFilled'
  <2>1. PICK m \in In(ipc, c) :
          /\ m.type = "RENDER_FRAME"
          /\ \A u \in Channels \ {c} : In(ipc', u) = In(ipc, u)
          /\ In(ipc', c) \subseteq In(ipc, c)
          /\ picture' = [picture EXCEPT ![c] = frameIn[m.indexIn]]
          /\ cpc' = [cpc EXCEPT ![c] = "loaded"]
          /\ UNCHANGED <<frameIn, frameOut>>
    BY <1>9, FrameTaken
  <2>2. \A d \in Children : In(ipc', d) \subseteq In(ipc, d)
    BY <1>2, <2>1
  <2>3. In(ipc', "FRAME_DONE") = In(ipc, "FRAME_DONE")
    BY <1>2, <2>1
  <2>4. frameIn[m.indexIn] # 0
    BY <2>1 DEF OutputFilled
  <2>5. \A d \in Children : cpc'[d] = "loaded" => picture'[d] # 0
    BY <1>5, <2>1, <2>4 DEF OutputFilled
  <2> QED
    BY <2>1, <2>2, <2>3, <2>5 DEF OutputFilled
<1>10. ASSUME NEW c \in Children, ChildRender(c) PROVE OutputFilled'
  <2>1. PICK m \in FrameJobs :
          /\ m.indexIn \in Slots
          /\ \A u \in Channels \ {"LOG", "FRAME_DONE"} : In(ipc', u) = In(ipc, u)
          /\ In(ipc', "FRAME_DONE") \subseteq In(ipc, "FRAME_DONE") \cup {m}
          /\ frameOut' = [frameOut EXCEPT ![m.indexIn] = picture[c]]
          /\ picture' = [picture EXCEPT ![c] = 0]
          /\ cpc[c] = "loaded" /\ cpc' = [cpc EXCEPT ![c] = "wait"]
          /\ frameIn' = frameIn
    BY <1>10, FrameReturned
  <2>2. \A d \in Children : In(ipc', d) = In(ipc, d)
    BY <1>2, <2>1
  <2>3. picture[c] # 0
    BY <2>1 DEF OutputFilled
  <2>4. \A n \in In(ipc', "FRAME_DONE") : frameOut'[n.indexIn] # 0
    BY <1>4, <1>5, <2>1, <2>3 DEF OutputFilled
  <2>5. \A d \in Children : cpc'[d] = "loaded" => picture'[d] # 0
    BY <1>5, <2>1 DEF OutputFilled
  <2> QED
    BY <2>1, <2>2, <2>4, <2>5 DEF OutputFilled
<1> QED
  BY <1>6, <1>7, <1>8, <1>9, <1>10, FramesPassed

LEMMA HeldStep == TypeInv /\ TurnInv /\ Room /\ OutputFilled /\ HeldInv /\ [Next]_vars => HeldInv'
<1> SUFFICES ASSUME TypeInv, TurnInv, Room, OutputFilled, HeldInv, [Next]_vars PROVE HeldInv'
  OBVIOUS
<1>1. /\ "FRAME_DONE" \in Channels \ {"LOG"} /\ "FRAME_DONE" \notin Children
      /\ \A c \in Children : c \in Channels \ {"LOG", "FRAME_DONE"}
  BY ServerNames DEF Channels
<1>2. /\ cpc \in [Children -> {"unborn", "init", "wait", "loaded", "exited"}]
      /\ job \in [Children -> Jobs] /\ outFile \in [Frames -> Frames \cup {0}]
      /\ Given \subseteq Frames /\ Sent \subseteq Frames
  BY DEF TypeInv, TypeOK, WorkTypes, Given, Sent
<1>3. /\ \A c \in Children : cpc[c] \notin {"loaded", "exited"} => job[c] = NoJob
      /\ \A f \in Sent : outFile[f] = 0 => \E c \in Children : Holds(c, f)
  BY DEF HeldInv
<1>4. \A c \in Children : job[c] = NoJob => job[c].child # c
  BY PipelineAssumption DEF NoJob
<1>5. CASE Quiet
  <2>1. \A c \in Children : cpc'[c] \notin {"loaded", "exited"} => job'[c] = NoJob
    BY <1>3, <1>5 DEF Quiet
  <2>2. ASSUME NEW f \in Sent', outFile'[f] = 0 PROVE \E c \in Children : Holds(c, f)'
    <3>1. PICK c \in Children : Holds(c, f)
      BY <1>3, <1>5, <2>2 DEF Quiet
    <3>2. FramesTo(ipc', c) = FramesTo(ipc, c) /\ In(ipc', "FRAME_DONE") = In(ipc, "FRAME_DONE")
          /\ job' = job
      BY <1>5 DEF Quiet, SameFrames
    <3>3. Holds(c, f)'
      BY <3>1, <3>2 DEF Holds, FramesTo
    <3> QED
      BY <3>3
  <2> QED
    BY <2>1, <2>2 DEF HeldInv
<1>6. CASE NextFrame /\ ppc' = "videoIn"
  <2>1. PICK d \in Children, m \in ToChild :
          /\ m.type = "RENDER_FRAME" /\ m.frameNum = cur'.frameNum
          /\ \A u \in Channels \ {d} : In(ipc', u) = In(ipc, u)
          /\ In(ipc, d) \subseteq In(ipc', d)
          /\ Pending(ipc) < IpcCap => m \in In(ipc', d)
          /\ UNCHANGED <<cpc, job, inFile, outFile>>
    BY <1>6, FrameGiven
  <2>2. m \in In(ipc', d)
    BY <2>1, RoomNow
  <2>3. Sent' \subseteq Sent \cup {m.frameNum}
    BY <1>6, <2>1 DEF Sent, Given
  <2>4. \A c \in Children : In(ipc, c) \subseteq In(ipc', c)
    BY <1>1, <2>1
  <2>5. In(ipc', "FRAME_DONE") = In(ipc, "FRAME_DONE")
    BY <1>1, <2>1
  <2>6. ASSUME NEW f \in Sent', outFile'[f] = 0 PROVE \E c \in Children : Holds(c, f)'
    <3>1. CASE f = m.frameNum
      <4>1. Holds(d, f)'
        BY <2>1, <2>2, <3>1 DEF Holds
      <4> QED
        BY <4>1
    <3>2. CASE f \in Sent
      <4>1. PICK c \in Children : Holds(c, f)
        BY <1>3, <2>1, <2>6, <3>2
      <4>2. Holds(c, f)'
        BY <2>1, <2>4, <2>5, <4>1 DEF Holds
      <4> QED
        BY <4>2
    <3> QED
      BY <2>3, <3>1, <3>2
  <2> QED
    BY <1>3, <2>1, <2>6 DEF HeldInv
<1>7. CASE OnFrameDone
  <2>1. PICK m \in FrameJobs :
          /\ m \in In(ipc, "FRAME_DONE") /\ m.frameNum \in Frames
          /\ \A u \in Channels \ {"FRAME_DONE"} : In(ipc', u) = In(ipc, u)
          /\ In(ipc, "FRAME_DONE") \subseteq In(ipc', "FRAME_DONE") \cup {m}
          /\ outFile' = [outFile EXCEPT ![m.frameNum] = frameOut[m.indexIn]]
          /\ ppc' = "finish"
          /\ UNCHANGED <<inFile, cpc, job>>
    BY <1>7, FrameTakenBack
  <2>2. frameOut[m.indexIn] # 0
    BY <2>1 DEF OutputFilled
  <2>3. Sent' \subseteq Given /\ Given \subseteq Sent
    BY <2>1 DEF Sent, Given
  <2>4. \A c \in Children : In(ipc', c) = In(ipc, c)
    BY <1>1, <2>1
  <2>5. ASSUME NEW f \in Sent', outFile'[f] = 0 PROVE \E c \in Children : Holds(c, f)'
    <3>1. f \in Frames /\ f \in Sent
      BY <1>2, <2>3
    <3>2. f # m.frameNum /\ outFile[f] = 0
      BY <1>2, <2>1, <2>2, <2>5, <3>1
    <3>3. PICK c \in Children : Holds(c, f)
      BY <1>3, <3>1, <3>2
    <3>4. \A n \in In(ipc, "FRAME_DONE") : n.frameNum = f => n \in In(ipc', "FRAME_DONE")
      BY <2>1, <3>2
    <3>5. Holds(c, f)'
      BY <2>1, <2>4, <3>3, <3>4 DEF Holds
    <3> QED
      BY <3>5
  <2> QED
    BY <1>3, <2>1, <2>5 DEF HeldInv
<1>8. ASSUME NEW d \in Children, ChildLoad(d) PROVE HeldInv'
  <2>1. PICK m \in In(ipc, d) :
          /\ \A u \in Channels \ {d} : In(ipc', u) = In(ipc, u)
          /\ In(ipc, d) \subseteq In(ipc', d) \cup {m}
          /\ job' = [job EXCEPT ![d] = [child |-> d, frameNum |-> m.frameNum, indexIn |-> m.indexIn]]
          /\ cpc[d] = "wait" /\ cpc' = [cpc EXCEPT ![d] = "loaded"]
          /\ UNCHANGED <<inFile, outFile, ppc, cur>>
    BY <1>8, FrameTaken
  <2>2. job'[d].child = d /\ job'[d].frameNum = m.frameNum
    BY <1>2, <2>1
  <2>3. \A c \in Children : c # d => job'[c] = job[c] /\ cpc'[c] = cpc[c] /\ In(ipc', c) = In(ipc, c)
    BY <1>1, <1>2, <2>1
  <2>4. In(ipc', "FRAME_DONE") = In(ipc, "FRAME_DONE") /\ Sent' = Sent
    BY <1>1, <2>1 DEF Sent, Given
  <2>5. cpc'[d] = "loaded" /\ job[d].child # d
    BY <1>2, <1>3, <1>4, <2>1
  <2>6. ASSUME NEW f \in Sent', outFile'[f] = 0 PROVE \E c \in Children : Holds(c, f)'
    <3>1. PICK c \in Children : Holds(c, f)
      BY <1>3, <2>1, <2>4, <2>6
    <3>2. CASE c # d
      <4>1. Holds(c, f)'
        BY <2>3, <2>4, <3>1, <3>2 DEF Holds
      <4> QED
        BY <4>1
    <3>3. CASE c = d
      <4>1. Holds(d, f)'
        BY <2>1, <2>2, <2>4, <2>5, <3>1, <3>3 DEF Holds
      <4> QED
        BY <4>1
    <3> QED
      BY <3>2, <3>3
  <2> QED
    BY <1>3, <2>3, <2>5, <2>6 DEF HeldInv
<1>9. ASSUME NEW d \in Children, ChildRender(d) PROVE HeldInv'
  <2>1. PICK m \in FrameJobs :
          /\ m = job[d] /\ m.child = d
          /\ \A u \in Channels \ {"LOG", "FRAME_DONE"} : In(ipc', u) = In(ipc, u)
          /\ In(ipc, "FRAME_DONE") \subseteq In(ipc', "FRAME_DONE")
          /\ m \in In(ipc', "FRAME_DONE")
          /\ job' = [job EXCEPT ![d] = NoJob]
          /\ cpc[d] = "loaded" /\ cpc' = [cpc EXCEPT ![d] = "wait"]
          /\ UNCHANGED <<inFile, outFile, ppc, cur>>
    BY <1>9, FrameReturned
  <2>2. Sent' = Sent /\ job'[d] = NoJob
    BY <1>2, <2>1 DEF Sent, Given
  <2>3. \A c \in Children : c # d => job'[c] = job[c] /\ cpc'[c] = cpc[c]
    BY <1>2, <2>1
  <2>4. \A c \in Children : In(ipc', c) = In(ipc, c)
    BY <1>1, <2>1
  <2>5. ASSUME NEW f \in Sent', outFile'[f] = 0 PROVE \E c \in Children : Holds(c, f)'
    <3>1. PICK c \in Children : Holds(c, f)
      BY <1>3, <2>1, <2>2, <2>5
    <3>2. Holds(c, f)'
      BY <2>1, <2>3, <2>4, <3>1 DEF Holds
    <3> QED
      BY <3>2
  <2> QED
    BY <1>3, <2>2, <2>3, <2>5 DEF HeldInv
<1> QED
  BY <1>5, <1>6, <1>7, <1>8, <1>9, FramesPassed

LEMMA OrderStep == TypeInv /\ InputFilled /\ OrderInv /\ [Next]_vars => OrderInv'
<1> SUFFICES ASSUME TypeInv, InputFilled, OrderInv, [Next]_vars PROVE OrderInv'
  OBVIOUS
<1> USE DEF ringVars, videoVars, mainVars, childVars, fileVars
<1>1. PICK g \in 0 .. NumFrames :
        /\ Given = 1 .. g
        /\ ppc # "exited" => Follows(g + (IF ppc = "videoIn" THEN 1 ELSE 0))
  BY DEF OrderInv
<1>2. /\ NumFrames \in Nat /\ frameNum \in 0 .. NumFrames /\ g \in Nat
      /\ ppc \in {"start", "fork", "recv", "finish", "scan", "wrap",
                 "next", "putBack", "videoIn", "exited"}
      /\ ChildMsgQ \in Seq(FrameMsgs \cup {EndMsg}) /\ Len(ChildMsgQ) \in Nat
      /\ inFile \in [Frames -> Frames \cup {0}]
  BY QueueTypes, PipelineAssumption DEF TypeInv, TypeOK
<1>3. CASE ppc' = "exited" /\ inFile' = inFile
  <2>1. Given' = 1 .. g
    BY <1>1, <1>3 DEF Given
  <2> QED
    BY <1>3, <2>1 DEF OrderInv
<1>4. CASE /\ UNCHANGED <<ChildMsgQ, inFile, Queued>> /\ (vpc = "done" => vpc' = "done")
           /\ ppc # "exited"
           /\ \/ UNCHANGED <<ppc, cur>>
              \/ ppc # "videoIn" /\ ppc' \notin {"videoIn", "putBack"}
  <2>1. Given' = 1 .. g
    BY <1>1, <1>4 DEF Given
  <2>2. PICK a : a = g + (IF ppc = "videoIn" THEN 1 ELSE 0)
    OBVIOUS
  <2>3. a = g + (IF ppc' = "videoIn" THEN 1 ELSE 0)
    BY <1>4, <2>2
  <2>4. Follows(a)
    BY <1>1, <1>4, <2>2
  <2>5. Marked' = Marked
    BY <1>4 DEF Marked
  <2>6. Follows(a)'
    BY <1>4, <2>4, <2>5 DEF Follows
  <2> QED
    BY <2>1, <2>3, <2>6 DEF OrderInv
<1>5. ASSUME NEW m \in FrameMsgs \cup {EndMsg}, ChildMsgQ' = Append(ChildMsgQ, m),
             NEW a \in Nat, Follows(a), ~Marked,
             ppc' = "recv" \/ (ppc' = ppc /\ cur' = cur /\ ppc # "putBack"),
             m = EndMsg => vpc' = "done" /\ Queued' = Queued,
             m # EndMsg => m.frameNum = Queued + 1 /\ Queued' = Queued + 1
      PROVE  Follows(a)'
  <2> DEFINE n == Len(ChildMsgQ)
  <2>1. /\ n \in Nat /\ Len(ChildMsgQ') = n + 1 /\ ChildMsgQ'[n + 1] = m
        /\ \A k \in 1 .. n : ChildMsgQ'[k] = ChildMsgQ[k]
        /\ 1 .. n + 1 = (1 .. n) \cup {n + 1}
    BY <1>2, <1>5, AppendElements
  <2>2. \A k \in 1 .. n : ChildMsgQ[k] # EndMsg /\ ChildMsgQ[k].frameNum = a + k
    BY <1>5 DEF Follows, Marked
  <2>3. Queued = a + n
    BY <1>2, <1>5, <2>1 DEF Follows
  <2>4. Marked' <=> m = EndMsg
    <3>1. ASSUME m = EndMsg PROVE Marked'
      <4>1. n + 1 \in 1 .. n + 1
        BY <2>1
      <4> QED
        BY <2>1, <3>1, <4>1 DEF Marked
    <3>2. ASSUME m # EndMsg PROVE ~Marked'
      BY <2>1, <2>2, <3>2 DEF Marked
    <3> QED
      BY <3>1, <3>2
  <2>5. n = Len(ChildMsgQ)
    OBVIOUS
  <2> HIDE DEF n
  <2>6. Queued' = a + (n + 1) - (IF Marked' THEN 1 ELSE 0)
    BY <1>5, <2>1, <2>3, <2>4
  <2>7. ASSUME NEW k \in 1 .. n + 1
        PROVE  IF ChildMsgQ'[k] = EndMsg THEN k = n + 1 /\ vpc' = "done"
               ELSE ChildMsgQ'[k].frameNum = a + k
    <3>1. CASE k \in 1 .. n
      BY <2>1, <2>2, <3>1
    <3>2. CASE k = n + 1
      <4>1. m # EndMsg => m.frameNum = a + (n + 1)
        BY <1>5, <2>1, <2>3
      <4> QED
        BY <1>5, <2>1, <3>2, <4>1
    <3> QED
      BY <2>1, <3>1, <3>2
  <2>8. ppc' = "videoIn" => cur'.frameNum = a
    BY <1>5 DEF Follows
  <2>9. ppc' # "putBack"
    BY <1>5
  <2> QED
    BY <2>1, <2>6, <2>7, <2>8, <2>9 DEF Follows
<1>6. CASE (VideoEnqueue \/ VideoEnd) /\ ppc # "exited"
  <2>1. PICK a : a = g + (IF ppc = "videoIn" THEN 1 ELSE 0)
    OBVIOUS
  <2>2. Follows(a) /\ a \in Nat
    BY <1>1, <1>2, <1>6, <2>1
  <2>3. vpc # "done" /\ UNCHANGED <<ppc, cur, inFile, frameNum>>
    BY <1>6 DEF VideoEnqueue, VideoEnd
  <2>4. ~Marked /\ ppc # "putBack"
    BY <2>2, <2>3 DEF Marked, Follows
  <2>5. ASSUME VideoEnqueue PROVE Follows(a)'
    <3>1. PICK m : m = [frameNum |-> frameNum, indexIn |-> tailIn]
      OBVIOUS
    <3>2. /\ ChildMsgQ' = Append(ChildMsgQ, m) /\ m.frameNum = frameNum
          /\ vpc = "enqueue" /\ vpc' = "advance"
      BY <2>5, <3>1 DEF VideoEnqueue
    <3>3. frameNum \in Frames /\ tailIn \in Slots
      BY <3>2, <1>2 DEF TypeInv, TypeOK, WorkTypes, Frames
    <3>4. m \in FrameMsgs
      BY <3>1, <3>3 DEF FrameMsgs
    <3>5. Queued = frameNum - 1 /\ Queued' = frameNum
      BY <2>3, <3>2 DEF Queued
    <3>6. m # EndMsg
      <4>1. EndMsg.frameNum \notin Frames
        BY DEF EndMsg, EndOfInput, Frames
      <4> QED
        BY <3>2, <3>3, <4>1
    <3>7. frameNum = Queued + 1
      BY <1>2, <3>5
    <3>8. Follows(a)'
      BY <1>5, <2>2, <2>3, <2>4, <3>2, <3>4, <3>5, <3>6, <3>7
    <3> QED
      BY <3>8
  <2>6. ASSUME VideoEnd PROVE Follows(a)'
    <3>1. ChildMsgQ' = Append(ChildMsgQ, EndMsg) /\ vpc = "eof" /\ vpc' = "done"
      BY <2>6 DEF VideoEnd
    <3>2. Queued' = Queued
      BY <2>3, <3>1 DEF Queued
    <3>3. Follows(a)'
      BY <1>5, <2>2, <2>3, <2>4, <3>1, <3>2
    <3> QED
      BY <3>3
  <2>7. Follows(a)' /\ Given' = 1 .. g /\ a = g + (IF ppc' = "videoIn" THEN 1 ELSE 0)
    BY <1>1, <1>6, <2>1, <2>3, <2>5, <2>6 DEF Given
  <2> QED
    BY <2>7 DEF OrderInv
<1>7. CASE PutBack
  <2>1. /\ ppc = "putBack" /\ ppc' = "recv" /\ UNCHANGED <<vpc, frameNum, inFile>>
        /\ ChildMsgQ' = Append(ChildMsgQ, EndMsg)
    BY <1>7 DEF PutBack
  <2>2. Follows(g)
    BY <1>1, <1>2, <2>1
  <2>3. ~Marked /\ vpc' = "done" /\ Queued' = Queued
    BY <2>1, <2>2 DEF Follows, Marked, Queued
  <2>4. Follows(g)'
    BY <1>2, <1>5, <2>1, <2>2, <2>3
  <2>5. Given' = 1 .. g /\ g = g + (IF ppc' = "videoIn" THEN 1 ELSE 0)
    BY <1>1, <1>2, <2>1 DEF Given
  <2> QED
    BY <2>4, <2>5 DEF OrderInv
<1>8. CASE NextFrame
  <2> DEFINE n == Len(ChildMsgQ')
  <2>1. /\ ppc = "next" /\ ChildMsgQ # <<>> /\ ChildMsgQ' = Tail(ChildMsgQ)
        /\ UNCHANGED <<vpc, frameNum, inFile>>
    BY <1>8 DEF NextFrame
  <2>2. /\ n \in Nat /\ Len(ChildMsgQ) = n + 1 /\ ChildMsgQ[1] = Head(ChildMsgQ)
        /\ \A k \in 1 .. n : ChildMsgQ'[k] = ChildMsgQ[k + 1] /\ k + 1 \in 1 .. n + 1
        /\ 1 \in 1 .. n + 1
    <3>1. /\ Len(ChildMsgQ') \in Nat /\ Len(ChildMsgQ) = Len(ChildMsgQ') + 1
          /\ ChildMsgQ[1] = Head(ChildMsgQ)
          /\ \A k \in 1 .. Len(ChildMsgQ') :
               ChildMsgQ'[k] = ChildMsgQ[k + 1] /\ k + 1 \in 1 .. Len(ChildMsgQ)
          /\ 1 \in 1 .. Len(ChildMsgQ)
      BY <1>2, <2>1, TailElements
    <3> QED
      BY <3>1
  <2>3. n = Len(ChildMsgQ')
    OBVIOUS
  <2>4. Follows(g) /\ Queued' = Queued /\ Given' = 1 .. g
    BY <1>1, <1>2, <2>1 DEF Queued, Given
  <2>5. ChildMsgQ[1] = EndMsg <=> ChildMsgQ[1].frameNum = EndOfInput
    BY <2>2, QueueTypes
  <2> HIDE DEF n
  <2>6. /\ \A k \in 1 .. n + 1 :
             IF ChildMsgQ[k] = EndMsg THEN k = n + 1 /\ vpc = "done"
             ELSE ChildMsgQ[k].frameNum = g + k
        /\ Queued = g + (n + 1) - (IF Marked THEN 1 ELSE 0)
    BY <2>2, <2>4 DEF Follows
  <2>7. CASE ChildMsgQ[1] = EndMsg
    <3>1. ppc' = "putBack"
      BY <1>8, <2>2, <2>5, <2>7 DEF NextFrame
    <3>2. n = 0 /\ vpc = "done" /\ Marked
      BY <2>2, <2>6, <2>7 DEF Marked
    <3>3. ChildMsgQ' = <<>> /\ 1 .. Len(ChildMsgQ') = {} /\ ~Marked'
      <4>1. ChildMsgQ' \in Seq(FrameMsgs \cup {EndMsg})
        BY <1>2, <2>1, HeadTailProperties
      <4>2. Len(ChildMsgQ') = 0
        BY <2>3, <3>2
      <4>3. ChildMsgQ' = <<>>
        BY <4>1, <4>2, EmptySeq
      <4>4. 1 .. Len(ChildMsgQ') = {}
        BY <4>2
      <4> QED
        BY <4>3, <4>4 DEF Marked
    <3>4. Queued' = g + n - 0
      BY <1>2, <2>4, <2>6, <3>2
    <3>5. Follows(g)'
      BY <2>1, <2>3, <3>1, <3>2, <3>3, <3>4 DEF Follows
    <3>6. g = g + (IF ppc' = "videoIn" THEN 1 ELSE 0)
      BY <1>2, <3>1
    <3> QED
      BY <2>4, <3>5, <3>6 DEF OrderInv
  <2>8. CASE ChildMsgQ[1] # EndMsg
    <3>1. ppc' = "videoIn" /\ cur'.frameNum = ChildMsgQ[1].frameNum
      BY <1>8, <2>2, <2>5, <2>8 DEF NextFrame
    <3>2. cur'.frameNum = g + 1
      BY <2>2, <2>6, <2>8, <3>1
    <3>3. Marked' <=> Marked
      <4>1. Marked' => Marked
        BY <2>2, <2>3 DEF Marked
      <4>2. ASSUME Marked PROVE Marked'
        <5>1. PICK k \in 1 .. n + 1 : ChildMsgQ[k] = EndMsg
          BY <2>2, <4>2 DEF Marked
        <5>2. k # 1
          BY <2>8, <5>1
        <5>3. k - 1 \in 1 .. n /\ (k - 1) + 1 = k
          BY <2>2, <5>1, <5>2
        <5>4. ChildMsgQ'[k - 1] = EndMsg
          BY <2>2, <5>1, <5>3
        <5> QED
          BY <2>3, <5>3, <5>4 DEF Marked
      <4> QED
        BY <4>1, <4>2
    <3>4. ASSUME NEW k \in 1 .. n
          PROVE  IF ChildMsgQ'[k] = EndMsg THEN k = n /\ vpc' = "done"
                 ELSE ChildMsgQ'[k].frameNum = (g + 1) + k
      <4>1. ChildMsgQ'[k] = ChildMsgQ[k + 1] /\ k + 1 \in 1 .. n + 1
        BY <2>2
      <4>2. n \in Int /\ g \in Int /\ k \in Int
        BY <1>2, <2>2
      <4>3. (k + 1 = n + 1 => k = n) /\ g + (k + 1) = (g + 1) + k
        BY <4>2
      <4> QED
        BY <2>1, <2>6, <4>1, <4>3
    <3>5. Queued' = (g + 1) + n - (IF Marked' THEN 1 ELSE 0)
      BY <1>2, <2>2, <2>4, <2>6, <3>3
    <3>6. Follows(g + 1)'
      BY <2>3, <3>1, <3>2, <3>4, <3>5 DEF Follows
    <3> QED
      BY <2>4, <3>1, <3>6 DEF OrderInv
  <2> QED
    BY <2>7, <2>8
<1>9. CASE VideoIn
  <2>1. /\ ppc = "videoIn" /\ ppc' = "recv" /\ UNCHANGED <<vpc, frameNum, ChildMsgQ>>
        /\ inFile' = [inFile EXCEPT ![cur.frameNum] = frameIn[cur.indexIn]]
    BY <1>9 DEF VideoIn
  <2>2. Follows(g + 1) /\ cur.frameNum = g + 1 /\ frameIn[cur.indexIn] # 0
    BY <1>1, <2>1 DEF Follows, InputFilled
  <2>3. g + 1 \in Frames
    BY <2>1, <2>2 DEF TypeInv, WorkTypes
  <2>4. Given' = 1 .. g + 1
    <3>1. \A f \in Frames : inFile'[f] # 0 <=> inFile[f] # 0 \/ f = g + 1
      BY <1>2, <2>1, <2>2, <2>3
    <3>2. \A f \in Frames : inFile[f] # 0 <=> f \in 1 .. g
      BY <1>1 DEF Given
    <3>3. \A f : f \in 1 .. g + 1 <=> f \in Frames /\ (f \in 1 .. g \/ f = g + 1)
      BY <1>2, <2>3 DEF Frames
    <3> QED
      BY <3>1, <3>2, <3>3 DEF Given
  <2>5. Queued' = Queued /\ Marked' = Marked
    BY <2>1 DEF Queued, Marked
  <2>6. Follows(g + 1)'
    BY <2>1, <2>2, <2>5 DEF Follows
  <2>7. g + 1 \in 0 .. NumFrames /\ g + 1 = (g + 1) + (IF ppc' = "videoIn" THEN 1 ELSE 0)
    BY <1>2, <2>1, <2>3 DEF Frames
  <2> QED
    BY <2>4, <2>6, <2>7 DEF OrderInv
<1>10. CASE VideoInThread
  <2>1. CASE VideoEnqueue \/ VideoEnd
    BY <1>6, <1>10, <2>1 DEF VideoInThread
  <2>2. CASE VideoDecode
    <3>1. UNCHANGED <<ChildMsgQ, inFile, ppc, cur>> /\ vpc = "decode"
          /\ \/ vpc' = "mark" /\ frameNum' = frameNum + 1
             \/ vpc' = "eof" /\ frameNum' = frameNum
      BY <2>2 DEF VideoDecode
    <3>2. Queued' = Queued
      BY <1>2, <3>1 DEF Queued
    <3> QED
      BY <1>4, <1>10, <3>1, <3>2 DEF VideoInThread
  <2>3. CASE VideoStart \/ VideoCheck \/ VideoMark \/ VideoAdvance
    <3>1. /\ UNCHANGED <<ChildMsgQ, inFile, ppc, cur, frameNum>> /\ vpc # "done"
          /\ (vpc' \in {"mark", "enqueue"} <=> vpc \in {"mark", "enqueue"})
      BY <2>3 DEF VideoStart, VideoCheck, VideoMark, VideoAdvance
    <3>2. Queued' = Queued
      BY <3>1 DEF Queued
    <3> QED
      BY <1>4, <1>10, <3>1, <3>2 DEF VideoInThread
  <2> QED
    BY <1>10, <2>1, <2>2, <2>3 DEF VideoInThread
<1>11. CASE AwaitVideo \/ (\E c \in Children : Fork(c)) \/ (\E type \in Server : OnOther(type))
            \/ OnReady \/ OnRenderReady \/ OnFrameDone
            \/ VideoFinished \/ VideoFinishedScan \/ VideoFinishedWrap
  <2>1. /\ UNCHANGED <<ChildMsgQ, inFile, vpc, frameNum>> /\ ppc \notin {"exited", "videoIn"}
        /\ ppc' \notin {"videoIn", "putBack"}
    BY <1>11 DEF AwaitVideo, Fork, OnOther, OnReady, OnRenderReady, OnFrameDone, VideoFinished,
       VideoFinishedScan, VideoFinishedWrap
  <2>2. Queued' = Queued
    BY <2>1 DEF Queued
  <2> QED
    BY <1>4, <2>1, <2>2
<1>12. CASE (\E c \in Children : Child(c)) \/ Ended \/ UNCHANGED vars
  <2>1. UNCHANGED <<ChildMsgQ, inFile, vpc, frameNum, ppc, cur>>
    BY <1>12 DEF Child, ChildInit, ChildRenderMode, ChildLoad, ChildRender, ChildExit, ChildDie,
       Ended, vars
  <2>2. Queued' = Queued
    BY <2>1 DEF Queued
  <2> QED
    BY <1>3, <1>4, <2>1, <2>2
<1>13. CASE ParentExit
  BY <1>3, <1>13 DEF ParentExit
<1> QED
  BY <1>7, <1>8, <1>9, <1>10, <1>11, <1>12, <1>13 DEF Next, Main

LEMMA FrameInit == Init => InputFilled /\ OutputFilled /\ OrderInv /\ HeldInv
<1> SUFFICES ASSUME Init PROVE InputFilled /\ OutputFilled /\ OrderInv /\ HeldInv
  OBVIOUS
<1>1. /\ vpc = "init" /\ frameNum = 0 /\ ppc = "start" /\ ChildMsgQ = <<>> /\ Len(ChildMsgQ) = 0
      /\ \A t \in Channels : ipc[t] = <<>>
      /\ \A c \in Children : cpc[c] = "unborn" /\ job[c] = NoJob
      /\ Given = {}
  BY DEF Init, Channels, Given
<1>2. /\ "FRAME_DONE" \in Channels /\ Children \subseteq Channels
      /\ NumFrames \in Nat
  BY ServerNames, PipelineAssumption DEF Channels
<1>3. \A t \in Channels : In(ipc, t) = {}
  BY <1>1 DEF In
<1>4. 1 .. Len(ChildMsgQ) = {} /\ 1 .. 0 = {}
  BY <1>1
<1>5. InputFilled
  BY <1>1, <1>4 DEF InputFilled
<1>6. OutputFilled
  BY <1>1, <1>2, <1>3 DEF OutputFilled
<1>7. OrderInv
  <2>1. ~Marked /\ Queued = 0
    BY <1>1, <1>4 DEF Marked, Queued
  <2>2. Follows(0)
    BY <1>1, <1>4, <2>1 DEF Follows
  <2>3. 0 \in 0 .. NumFrames /\ Given = 1 .. 0 /\ 0 = 0 + (IF ppc = "videoIn" THEN 1 ELSE 0)
    BY <1>1, <1>2, <1>4
  <2> QED
    BY <2>2, <2>3 DEF OrderInv
<1>8. HeldInv
  BY <1>1 DEF HeldInv, Sent
<1> QED
  BY <1>5, <1>6, <1>7, <1>8

\* A child that has its turn once has one frame at most.
LEMMA OneFrameEach ==
  ASSUME TypeInv, TurnInv, HeldInv, NEW c \in Children, NEW f, NEW g, Holds(c, f), Holds(c, g)
  PROVE  f = g
<1>1. PICK p \in Places : \A other \in Places : At(c, other) <=> other = p
  BY DEF TurnInv, OneTurn
<1>2. /\ (cpc[c] # "wait") <=> p = "works"
      /\ From(ipc, c, c) <=> p = "told"
      /\ From(ipc, "FRAME_DONE", c) <=> p = "FRAME_DONE"
  BY <1>1 DEF At, Places
<1>3. /\ c \in Channels \ {"LOG"} /\ "FRAME_DONE" \in Channels \ {"LOG"}
      /\ c \notin Server /\ "FRAME_DONE" \notin Children
  BY ServerNames DEF Channels
<1>4. \A m : Owner(c, m) = c /\ Owner("FRAME_DONE", m) = m.child
  BY <1>3 DEF Owner
<1>5. NoTwo(ipc, c) /\ NoTwo(ipc, "FRAME_DONE")
  BY <1>3 DEF TurnInv, NoTwoFrom
<1>6. job[c].child = c => p = "works"
  BY <1>2, PipelineAssumption DEF HeldInv, NoJob
<1>7. /\ \A m \in In(ipc, c) : p = "told"
      /\ \A m, n \in In(ipc, c) : m = n
  BY <1>2, <1>4, <1>5 DEF In, From, NoTwo
<1>8. /\ \A m \in In(ipc, "FRAME_DONE") : m.child = c => p = "FRAME_DONE"
      /\ \A m, n \in In(ipc, "FRAME_DONE") : m.child = c /\ n.child = c => m = n
  BY <1>2, <1>4, <1>5 DEF In, From, NoTwo
<1> QED
  BY <1>6, <1>7, <1>8 DEF Holds

LEMMA FramesHold ==
  ASSUME IpcCap >= Needed
  PROVE  Spec => [](TypeInv /\ TurnInv /\ OrderInv /\ HeldInv)
<1> DEFINE all == TypeInv /\ TurnInv /\ LogInv /\ Room
           inv == InputFilled /\ OutputFilled /\ OrderInv /\ HeldInv
<1>1. Spec => []all
  BY TurnsHold
<1>2. Init => inv
  BY FrameInit
<1>3. all /\ inv /\ [Next]_vars => inv'
  BY InputStep, OutputStep, OrderStep, HeldStep
<1> QED
  BY <1>1, <1>2, <1>3, PTL DEF Spec

\* Frames are handed out in the order of the input, whatever the interleaving of
\* the video thread, main and any number of children: the frames saved as
\* in/N.ppm are 1 to some g, and at most one per child of them is not saved as
\* out/N.ppm, under way or lost with a card that failed.  The System V queue has
\* to have the room that OneTurnForEach needs.
THEOREM FramesGoOutInOrder == ASSUME IpcCap >= Needed PROVE Spec => []DispatchedInOrder
<1>1. TypeInv /\ TurnInv /\ OrderInv /\ HeldInv => DispatchedInOrder
  <2> SUFFICES ASSUME TypeInv, TurnInv, OrderInv, HeldInv PROVE DispatchedInOrder
    OBVIOUS
  <2> DEFINE unsaved == {f \in Given : outFile[f] = 0}
             holder == [f \in unsaved |-> CHOOSE c \in Children : Holds(c, f)]
  <2>1. \A f \in Given : 1 .. f \subseteq Given
    <3>1. PICK g \in 0 .. NumFrames : Given = 1 .. g
      BY DEF OrderInv
    <3>2. NumFrames \in Nat
      BY PipelineAssumption
    <3> QED
      BY <3>1, <3>2
  <2>2. ASSUME NEW f \in unsaved PROVE holder[f] \in Children /\ Holds(holder[f], f)
    <3>1. \E c \in Children : Holds(c, f)
      BY DEF HeldInv, Sent
    <3>2. holder[f] = CHOOSE c \in Children : Holds(c, f)
      OBVIOUS
    <3> HIDE DEF holder, unsaved
    <3> QED
      BY <3>1, <3>2
  <2>3. holder \in Injection(unsaved, Children)
    <3>1. ASSUME NEW f \in unsaved, NEW g \in unsaved, holder[f] = holder[g] PROVE f = g
      <4> HIDE DEF holder, unsaved
      <4>1. PICK c \in Children : c = holder[f] /\ Holds(c, f) /\ Holds(c, g)
        BY <2>2, <3>1
      <4> QED
        BY <4>1, OneFrameEach
    <3>2. holder \in [unsaved -> Children]
      BY <2>2
    <3> HIDE DEF holder, unsaved
    <3> QED
      BY <3>1, <3>2 DEF Injection, IsInjective
  <2>4. Cardinality(unsaved) <= numChildren
    <3>1. IsFiniteSet(Children)
      BY PipelineAssumption
    <3> HIDE DEF holder, unsaved
    <3> QED
      BY <2>3, <3>1, FS_Injection DEF numChildren
  <2> QED
    BY <2>1, <2>4 DEF DispatchedInOrder, Given
<1> QED
  BY <1>1, FramesHold, PTL

-----------------------------------------------------------------------------
(***************************************************************************)
(* One card.                                                               *)
(***************************************************************************)
LEMMA SlotFacts ==
  ASSUME NEW f \in Nat, f >= 1
  PROVE  /\ SlotOf(f) \in Slots /\ SlotOf(f + 1) = (SlotOf(f) + 1) % frameCountIn
         /\ SlotOf(f) # SlotOf(f + 1) /\ SlotOf(f) # SlotOf(f + 2)
<1> DEFINE n == frameCountIn
<1>1. n \in Nat /\ n >= 5
  BY RingSize
<1> HIDE DEF n
<1>2. \A x \in Nat : /\ x % n \in 0 .. n - 1 /\ x \div n \in Int
                     /\ x = n * (x \div n) + (x % n)
  BY <1>1
<1>3. ASSUME NEW x \in Nat
      PROVE  (x + 1) % n = IF x % n = n - 1 THEN 0 ELSE (x % n) + 1
  <2>1. PICK p, q, r, t :
          /\ p = x \div n /\ q = (x + 1) \div n /\ r = x % n /\ t = (x + 1) % n
          /\ p \in Int /\ q \in Int /\ r \in 0 .. n - 1 /\ t \in 0 .. n - 1
          /\ x = n * p + r /\ x + 1 = n * q + t
    BY <1>2
  <2>2. n * (q - p) = r + 1 - t
    BY <1>1, <2>1
  <2>3. q - p <= 1
    BY <1>1, <2>1, <2>2
  <2>4. q - p >= 0
    BY <1>1, <2>1, <2>2
  <2>5. q - p = 0 \/ q - p = 1
    BY <2>1, <2>3, <2>4
  <2> QED
    BY <1>1, <2>1, <2>2, <2>5
<1>4. \A r \in 0 .. n - 1 : (r + 1) % n = IF r = n - 1 THEN 0 ELSE r + 1
  BY <1>1
<1>5. PICK r : r = SlotOf(f) /\ r \in 0 .. n - 1
  BY <1>2 DEF SlotOf, n
<1>6. SlotOf(f + 1) = IF r = n - 1 THEN 0 ELSE r + 1
  <2>1. f - 1 \in Nat /\ (f - 1) + 1 = (f + 1) - 1
    OBVIOUS
  <2> QED
    BY <1>3, <1>5, <2>1 DEF SlotOf, n
<1>7. SlotOf(f + 2) = IF SlotOf(f + 1) = n - 1 THEN 0 ELSE SlotOf(f + 1) + 1
  <2>1. (f + 1) - 1 \in Nat /\ ((f + 1) - 1) + 1 = (f + 2) - 1
    OBVIOUS
  <2> QED
    BY <1>3, <2>1 DEF SlotOf, n
<1>8. SlotOf(f + 1) = (r + 1) % n
  BY <1>4, <1>5, <1>6
<1>9. SlotOf(f) \in Slots
  BY <1>5 DEF Slots, n
<1>10. SlotOf(f) # SlotOf(f + 1) /\ SlotOf(f) # SlotOf(f + 2)
  BY <1>1, <1>5, <1>6, <1>7
<1> QED
  BY <1>5, <1>8, <1>9, <1>10 DEF n

LEMMA QueueCapOfOne == numChildren = 1 => QueueCap = 1
<1>1. Rounded(2) = 2
  <2> DEFINE powers == {2^k : k \in 0 .. 30}
             Fits(p) == p >= 2 /\ \A q \in powers : q >= 2 => p <= q
  <2>1. 2^1 = 2 /\ 1 \in 0 .. 30
    OBVIOUS
  <2>2. 2 \in powers
    BY <2>1
  <2>3. \A q \in powers : q \in Int
    OBVIOUS
  <2>4. Fits(2)
    BY <2>3
  <2>5. Rounded(2) = CHOOSE p \in powers : Fits(p)
    BY DEF Rounded
  <2> HIDE DEF powers
  <2>6. Rounded(2) \in powers /\ Fits(Rounded(2))
    BY <2>2, <2>4, <2>5
  <2> QED
    BY <2>2, <2>3, <2>6
<1> QED
  BY <1>1 DEF QueueCap

LEMMA RingInit == Init => RingInv
<1> SUFFICES ASSUME Init PROVE RingInv
  OBVIOUS
<1>1. /\ vpc = "init" /\ frameNum = 0 /\ ppc = "start" /\ ChildMsgQ = <<>> /\ tailIn = 0
      /\ \A t \in Channels : ipc[t] = <<>>
      /\ \A c \in Children : cpc[c] = "unborn" /\ job[c] = NoJob
      /\ \A s \in Slots : used[s] = 0
  BY DEF Init, Channels
<1>2. "FRAME_DONE" \in Channels /\ Children \subseteq Channels /\ NumFrames \in Nat
  BY ServerNames, PipelineAssumption DEF Channels
<1>3. \A t \in Channels : In(ipc, t) = {}
  BY <1>1 DEF In
<1>4. \A c \in Children : FramesTo(ipc, c) = {} /\ job[c].child # c
  BY <1>1, <1>2, <1>3, PipelineAssumption DEF FramesTo, NoJob
<1>5. ~Out
  BY <1>1, <1>2, <1>3, <1>4 DEF Out
<1>6. TailInv
  <2>1. Advanced = 0
    BY <1>1 DEF Advanced
  <2>2. SlotOf(0 + 1) = 0
    BY RingSize DEF SlotOf
  <2> QED
    BY <1>1, <2>1, <2>2 DEF TailInv
<1>7. Line(0)
  BY <1>1 DEF Line, Queued
<1>8. OutInv(0)
  <2>1. ~(0 >= 1)
    OBVIOUS
  <2> QED
    BY <1>1, <1>2, <1>3, <1>4, <1>5, <2>1 DEF OutInv
<1>9. UsedInv(0)
  BY <1>1, <1>5 DEF UsedInv, InUse
<1>10. 0 \in 0 .. NumFrames
  BY <1>2
<1> QED
  BY <1>6, <1>7, <1>8, <1>9, <1>10 DEF RingInv

\* While main handles a message of the only child, no frame is under way.
LEMMA ServedAlone ==
  ASSUME TypeInv, TurnInv, HeldInv, NEW c, Children = {c}, ppc \in Serving
  PROVE  /\ cur.child = c /\ cpc[c] = "wait"
         /\ FramesTo(ipc, c) = {} /\ In(ipc, "FRAME_DONE") = {} /\ job[c].child # c
<1>1. cur.child = c /\ Served(c) /\ c \in Children
  BY DEF TypeInv, WorkTypes, Served
<1>2. PICK p \in Places : \A other \in Places : At(c, other) <=> other = p
  BY <1>1 DEF TurnInv, OneTurn
<1>3. cpc[c] = "wait" /\ ~From(ipc, c, c) /\ ~From(ipc, "FRAME_DONE", c)
  BY <1>1, <1>2 DEF At, Places
<1>4. c \in Channels /\ "FRAME_DONE" \in Channels /\ c \notin Server /\ "FRAME_DONE" \notin Children
  BY <1>1, ServerNames DEF Channels
<1>5. FramesTo(ipc, c) = {}
  BY <1>1, <1>3 DEF From, FramesTo, In, Owner
<1>6. In(ipc, "FRAME_DONE") = {}
  <2> SUFFICES ASSUME NEW k \in 1 .. Len(ipc["FRAME_DONE"]) PROVE FALSE
    BY DEF In
  <2>1. ipc["FRAME_DONE"] \in Seq(FrameJobs)
    BY <1>4 DEF TypeInv, IpcTypes, Content
  <2>2. ipc["FRAME_DONE"][k] \in FrameJobs
    BY <2>1
  <2>3. ipc["FRAME_DONE"][k].child = c
    BY <2>2 DEF FrameJobs
  <2> QED
    BY <1>3, <1>4, <2>3 DEF From, Owner
<1>7. job[c].child # c
  BY <1>1, <1>3, PipelineAssumption DEF HeldInv, NoJob
<1> QED
  BY <1>1, <1>3, <1>5, <1>6, <1>7

\* A step that passes no frame on leaves frame a where it is.
LEMMA OutSame ==
  ASSUME Quiet, NEW a, OutInv(a), frameIn'[SlotOf(a)] = frameIn[SlotOf(a)] \/ ~(a >= 1),
         \/ UNCHANGED <<ppc, cur>>
         \/ ppc # "finish" /\ ppc' \notin {"finish", "videoIn"}
  PROVE  OutInv(a)' /\ (Out' <=> Out)
<1>1. /\ \A c \in Children : FramesTo(ipc', c) = FramesTo(ipc, c)
      /\ In(ipc', "FRAME_DONE") = In(ipc, "FRAME_DONE")
      /\ UNCHANGED <<job, picture, frameOut>>
      /\ \A c \in Children : cpc'[c] = "loaded" => cpc[c] = "loaded"
  BY DEF Quiet, SameFrames
<1>2. Out' <=> Out
  BY <1>1 DEF Out
<1>3. ppc' \in {"finish", "videoIn"} => About(cur', a)
  BY DEF OutInv
<1>4. Out' \/ ppc' = "videoIn" => a >= 1
  BY <1>2 DEF OutInv
<1>5. a >= 1 => frameIn'[SlotOf(a)] = a
  BY DEF OutInv
<1>6. /\ \A c \in Children :
           /\ \A m \in FramesTo(ipc', c) : About(m, a)
           /\ job'[c].child = c => About(job'[c], a)
           /\ cpc'[c] = "loaded" => picture'[c] = a
      /\ \A m \in In(ipc', "FRAME_DONE") : About(m, a) /\ frameOut'[SlotOf(a)] = a
  BY <1>1 DEF OutInv
<1>7. OutInv(a)'
  BY <1>3, <1>4, <1>5, <1>6 DEF OutInv, About
<1> QED
  BY <1>2, <1>7

\* The steps of the video thread.
LEMMA VideoKeepsRing ==
  ASSUME TypeInv, RingInv, QueueCap = 1, Quiet, UNCHANGED <<ppc, cur>>,
         VideoDecode \/ VideoMark \/ VideoEnqueue \/ VideoAdvance \/ VideoEnd
  PROVE  RingInv'
<1> USE DEF ringVars, videoVars, mainVars, childVars, fileVars
<1>1. PICK a \in 0 .. NumFrames : Line(a) /\ OutInv(a) /\ UsedInv(a)
  BY DEF RingInv
<1>2. /\ TailInv /\ NumFrames \in Nat /\ a \in Nat /\ frameNum \in Nat
      /\ frameIn \in [Slots -> Frames \cup {0}] /\ used \in [Slots -> Int] /\ tailIn \in Slots
  BY PipelineAssumption DEF RingInv, TypeInv, TypeOK
<1>3. /\ SlotOf(a + 1) \in Slots /\ SlotOf(a + 2) \in Slots /\ SlotOf(a + 1) # SlotOf(a + 2)
      /\ a >= 1 => /\ SlotOf(a) \in Slots
                   /\ SlotOf(a) # SlotOf(a + 1) /\ SlotOf(a) # SlotOf(a + 2)
  <2>1. a + 1 \in Nat /\ a + 1 >= 1 /\ a + 2 \in Nat /\ a + 2 >= 1 /\ (a + 1) + 1 = a + 2
    BY <1>2
  <2>2. SlotOf(a + 1) \in Slots /\ SlotOf(a + 1) # SlotOf((a + 1) + 1)
    BY <2>1, SlotFacts
  <2>3. SlotOf(a + 2) \in Slots
    BY <2>1, SlotFacts
  <2> QED
    BY <1>2, <2>1, <2>2, <2>3, SlotFacts
<1>4. EndMsg # FrameMsg(a + 1)
  <2>1. EndMsg.frameNum = -1 /\ FrameMsg(a + 1).frameNum = a + 1
    BY DEF EndMsg, EndOfInput, FrameMsg
  <2> QED
    BY <1>2, <2>1
<1>5. (frameIn'[SlotOf(a)] = frameIn[SlotOf(a)] \/ ~(a >= 1)) => OutInv(a)' /\ (Out' <=> Out)
  BY <1>1, OutSame
<1>6. CASE VideoDecode
  <2>1. vpc = "decode" /\ UNCHANGED <<used, tailIn, ChildMsgQ>>
    BY <1>6 DEF VideoDecode
  <2>2. Queued = frameNum /\ Advanced = frameNum /\ tailIn = SlotOf(frameNum + 1)
    BY <1>2, <2>1 DEF Queued, Advanced, TailInv
  <2>3. \/ ChildMsgQ = <<>> /\ frameNum = a /\ tailIn = SlotOf(a + 1)
        \/ /\ ChildMsgQ = <<FrameMsg(a + 1)>> /\ frameNum = a + 1 /\ frameIn[SlotOf(a + 1)] = a + 1
           /\ tailIn = SlotOf(a + 2)
    <3>1. a + 2 = (a + 1) + 1
      BY <1>2
    <3> QED
      BY <1>1, <2>1, <2>2, <3>1 DEF Line
  <2>4. CASE frameNum' = frameNum + 1 /\ frameIn' = [frameIn EXCEPT ![tailIn] = frameNum + 1]
             /\ vpc' = "mark"
    <3>1. /\ \A s \in Slots : s # tailIn => frameIn'[s] = frameIn[s]
          /\ frameIn'[tailIn] = frameNum + 1
      BY <1>2, <2>4
    <3>2. Queued' = frameNum /\ Advanced' = frameNum
      BY <1>2, <2>4 DEF Queued, Advanced
    <3>3. OutInv(a)' /\ (Out' <=> Out)
      BY <1>3, <1>5, <2>3, <3>1
    <3>4. Line(a)'
      <4>1. CASE ChildMsgQ = <<>> /\ frameNum = a
        BY <2>1, <3>2, <4>1 DEF Line
      <4>2. CASE /\ ChildMsgQ = <<FrameMsg(a + 1)>> /\ frameNum = a + 1
                 /\ frameIn[SlotOf(a + 1)] = a + 1 /\ tailIn = SlotOf(a + 2)
        <5>1. frameIn'[SlotOf(a + 1)] = a + 1
          BY <1>3, <3>1, <4>2
        <5> QED
          BY <2>1, <3>2, <4>2, <5>1 DEF Line
      <4> QED
        BY <2>3, <4>1, <4>2
    <3>5. UsedInv(a)'
      BY <1>1, <2>1, <2>4, <3>3 DEF UsedInv, InUse
    <3>6. ppc' # "putBack"
      BY <1>2, <2>1 DEF TailInv
    <3>7. TailInv'
      BY <2>1, <2>2, <2>4, <3>1, <3>2, <3>6 DEF TailInv
    <3> QED
      BY <3>3, <3>4, <3>5, <3>7 DEF RingInv
  <2>5. CASE UNCHANGED <<frameNum, frameIn>> /\ vpc' = "eof"
    <3>1. OutInv(a)' /\ (Out' <=> Out)
      BY <1>5, <2>5
    <3>2. Queued' = Queued /\ Advanced' = Advanced
      BY <2>1, <2>5 DEF Queued, Advanced
    <3>3. Line(a)'
      BY <1>1, <2>1, <2>5, <3>2 DEF Line
    <3>4. UsedInv(a)'
      BY <1>1, <2>1, <2>5, <3>1 DEF UsedInv, InUse
    <3>5. TailInv'
      BY <1>2, <2>1, <2>5, <3>2 DEF TailInv
    <3> QED
      BY <3>1, <3>3, <3>4, <3>5 DEF RingInv
  <2> QED
    BY <1>6, <2>4, <2>5 DEF VideoDecode
<1>7. CASE VideoMark
  <2>1. /\ vpc = "mark" /\ vpc' = "enqueue" /\ UNCHANGED <<tailIn, frameIn, frameNum, ChildMsgQ>>
        /\ used' = [used EXCEPT ![tailIn] = 1]
    BY <1>7 DEF VideoMark
  <2>2. OutInv(a)' /\ (Out' <=> Out) /\ Queued' = Queued /\ Advanced' = Advanced
    BY <1>5, <2>1 DEF Queued, Advanced
  <2>3. Line(a)' /\ TailInv'
    BY <1>1, <1>2, <2>1, <2>2 DEF Line, TailInv
  <2>4. UsedInv(a)'
    BY <1>1, <1>2, <2>1, <2>2 DEF UsedInv, InUse
  <2> QED
    BY <2>2, <2>3, <2>4 DEF RingInv
<1>8. CASE VideoEnqueue
  <2>1. /\ vpc = "enqueue" /\ vpc' = "advance" /\ UNCHANGED <<tailIn, frameIn, frameNum, used>>
        /\ Len(ChildMsgQ) < 1
        /\ ChildMsgQ' = Append(ChildMsgQ, [frameNum |-> frameNum, indexIn |-> tailIn])
    BY <1>8 DEF VideoEnqueue
  <2>2. Queued = frameNum - 1 /\ Queued' = frameNum /\ Advanced = frameNum - 1 /\ Advanced' = frameNum - 1
    BY <2>1 DEF Queued, Advanced
  <2>3. ChildMsgQ = <<>> /\ frameNum = a + 1
    <3>1. ChildMsgQ = <<>> /\ Queued = a
      BY <1>1, <2>1 DEF Line
    <3> QED
      BY <1>2, <2>2, <3>1
  <2>4. tailIn = SlotOf(a + 1) /\ frameIn[SlotOf(a + 1)] = a + 1
    <3>1. (frameNum - 1) + 1 = a + 1
      BY <1>2, <2>3
    <3> QED
      BY <1>2, <2>1, <2>2, <2>3, <3>1 DEF TailInv
  <2>5. ChildMsgQ' = <<FrameMsg(a + 1)>>
    BY <2>1, <2>3, <2>4 DEF FrameMsg
  <2>6. OutInv(a)' /\ (Out' <=> Out)
    BY <1>5, <2>1
  <2>7. Line(a)'
    BY <2>1, <2>2, <2>3, <2>4, <2>5 DEF Line
  <2>8. TailInv'
    <3>1. ppc # "putBack" /\ frameNum >= 1
      BY <1>2, <2>1, <2>3 DEF TailInv
    <3> QED
      BY <1>2, <2>1, <2>2, <3>1 DEF TailInv
  <2>9. UsedInv(a)'
    <3>1. ChildMsgQ # <<FrameMsg(a + 1)>>
      BY <2>3
    <3> QED
      BY <1>1, <2>1, <2>4, <2>5, <2>6, <3>1 DEF UsedInv, InUse
  <2> QED
    BY <2>6, <2>7, <2>8, <2>9 DEF RingInv
<1>9. CASE VideoAdvance
  <2>1. /\ vpc = "advance" /\ vpc' = "check" /\ UNCHANGED <<frameIn, frameNum, used, ChildMsgQ>>
        /\ tailIn' = (tailIn + 1) % frameCountIn
    BY <1>9 DEF VideoAdvance
  <2>2. Queued' = Queued /\ Advanced = frameNum - 1 /\ Advanced' = frameNum
    BY <2>1 DEF Queued, Advanced
  <2>3. tailIn' = SlotOf(frameNum + 1)
    <3>1. frameNum >= 1 /\ tailIn = SlotOf((frameNum - 1) + 1) /\ (frameNum - 1) + 1 = frameNum
      BY <1>2, <2>1, <2>2 DEF TailInv
    <3> QED
      BY <1>2, <2>1, <3>1, SlotFacts
  <2>4. OutInv(a)' /\ (Out' <=> Out)
    BY <1>5, <2>1
  <2>5. Line(a)'
    BY <1>1, <2>1, <2>2 DEF Line
  <2>6. TailInv'
    BY <1>2, <2>1, <2>2, <2>3 DEF TailInv
  <2>7. UsedInv(a)'
    BY <1>1, <2>1, <2>4 DEF UsedInv, InUse
  <2> QED
    BY <2>4, <2>5, <2>6, <2>7 DEF RingInv
<1>10. CASE VideoEnd
  <2>1. /\ vpc = "eof" /\ vpc' = "done" /\ UNCHANGED <<tailIn, frameIn, frameNum, used>>
        /\ Len(ChildMsgQ) < 1 /\ ChildMsgQ' = Append(ChildMsgQ, EndMsg)
    BY <1>10 DEF VideoEnd
  <2>2. Queued' = Queued /\ Advanced' = Advanced
    BY <2>1 DEF Queued, Advanced
  <2>3. ChildMsgQ = <<>> /\ Queued = a
    BY <1>1, <2>1 DEF Line
  <2>4. ChildMsgQ' = <<EndMsg>>
    BY <2>1, <2>3
  <2>5. OutInv(a)' /\ (Out' <=> Out)
    BY <1>5, <2>1
  <2>6. Line(a)'
    BY <2>1, <2>2, <2>3, <2>4 DEF Line
  <2>7. TailInv'
    BY <1>2, <2>1, <2>2 DEF TailInv
  <2>8. UsedInv(a)'
    <3>1. ChildMsgQ # <<FrameMsg(a + 1)>> /\ ChildMsgQ' # <<FrameMsg(a + 1)>>
      BY <1>4, <2>3, <2>4
    <3> QED
      BY <1>1, <2>1, <2>5, <3>1 DEF UsedInv, InUse
  <2> QED
    BY <2>5, <2>6, <2>7, <2>8 DEF RingInv
<1> QED
  BY <1>6, <1>7, <1>8, <1>9, <1>10

\* The steps of main that move frames or give a slot back.
LEMMA MainKeepsRing ==
  ASSUME TypeInv, TurnInv, Room, HeldInv, RingInv, QueueCap = 1, NEW c, Children = {c},
         \/ NextFrame /\ ppc' = "videoIn"
         \/ OnFrameDone
         \/ Quiet /\ (VideoFinished \/ PutBack \/ (NextFrame /\ ppc' # "videoIn"))
  PROVE  RingInv'
<1> USE DEF ringVars, videoVars, mainVars, childVars, fileVars
<1>1. PICK a \in 0 .. NumFrames : Line(a) /\ OutInv(a) /\ UsedInv(a)
  BY DEF RingInv
<1>2. /\ TailInv /\ NumFrames \in Nat /\ a \in Nat /\ frameNum \in Nat
      /\ used \in [Slots -> Int] /\ tailIn \in Slots
  BY PipelineAssumption DEF RingInv, TypeInv, TypeOK
<1>3. SlotOf(a + 1) \in Slots /\ (a >= 1 => /\ SlotOf(a) \in Slots
                                            /\ SlotOf(a) # SlotOf(a + 1) /\ SlotOf(a) # SlotOf(a + 2))
  <2>1. a + 1 \in Nat /\ a + 1 >= 1
    BY <1>2
  <2>2. SlotOf(a + 1) \in Slots
    BY <2>1, SlotFacts
  <2> QED
    BY <1>2, <2>2, SlotFacts
<1>4. /\ EndMsg.frameNum = EndOfInput /\ FrameMsg(a + 1).frameNum = a + 1
      /\ FrameMsg(a + 1).indexIn = SlotOf(a + 1) /\ a + 1 # EndOfInput /\ EndMsg # FrameMsg(a + 1)
  <2>1. EndMsg.frameNum = EndOfInput /\ EndOfInput = -1 /\ FrameMsg(a + 1).frameNum = a + 1
        /\ FrameMsg(a + 1).indexIn = SlotOf(a + 1)
    BY DEF EndMsg, EndOfInput, FrameMsg
  <2> QED
    BY <1>2, <2>1
<1>5. c \in Children /\ c \in Channels /\ "FRAME_DONE" \in Channels /\ c # "FRAME_DONE"
  BY ServerNames DEF Channels
<1>6. CASE NextFrame /\ ppc' = "videoIn"
  <2>1. /\ ppc = "next" /\ ChildMsgQ # <<>> /\ ChildMsgQ' = Tail(ChildMsgQ)
        /\ Head(ChildMsgQ).frameNum # EndOfInput /\ UNCHANGED <<used, tailIn, frameIn, vpc, frameNum>>
    BY <1>6 DEF NextFrame
  <2>2. /\ cur.child = c /\ cpc[c] = "wait"
        /\ FramesTo(ipc, c) = {} /\ In(ipc, "FRAME_DONE") = {} /\ job[c].child # c
    BY <2>1, ServedAlone DEF Serving
  <2>3. ~Out
    BY <2>1, <2>2 DEF Out
  <2>4. ChildMsgQ = <<FrameMsg(a + 1)>> /\ Queued = a + 1 /\ frameIn[SlotOf(a + 1)] = a + 1
    <3>1. ChildMsgQ # <<EndMsg>>
      BY <1>4, <2>1
    <3> QED
      BY <1>1, <2>1, <3>1 DEF Line
  <2>5. PICK m \in ToChild :
          /\ m.type = "RENDER_FRAME" /\ m.frameNum \in Frames
          /\ m.frameNum = cur'.frameNum /\ m.indexIn = cur'.indexIn
          /\ ChildMsgQ[1].frameNum = m.frameNum /\ ChildMsgQ[1].indexIn = m.indexIn
          /\ In(ipc', "FRAME_DONE") = In(ipc, "FRAME_DONE")
          /\ In(ipc', c) \subseteq In(ipc, c) \cup {m}
          /\ Pending(ipc) < IpcCap => m \in In(ipc', c)
          /\ UNCHANGED <<frameOut, cpc, picture, job>>
    <3>1. PICK d \in Children, m \in ToChild :
            /\ d = cur.child /\ m.type = "RENDER_FRAME"
            /\ m.frameNum = cur'.frameNum /\ m.indexIn = cur'.indexIn
            /\ m.frameNum \in Frames
            /\ ChildMsgQ[1].frameNum = m.frameNum /\ ChildMsgQ[1].indexIn = m.indexIn
            /\ \A u \in Channels \ {d} : In(ipc', u) = In(ipc, u)
            /\ In(ipc', d) \subseteq In(ipc, d) \cup {m}
            /\ Pending(ipc) < IpcCap => m \in In(ipc', d)
            /\ UNCHANGED <<frameOut, cpc, picture, job>>
      BY <1>6, FrameGiven
    <3> QED
      BY <1>5, <3>1
  <2>6. m \in In(ipc', c)
    BY <2>5, RoomNow
  <2>7. m.frameNum = a + 1 /\ m.indexIn = SlotOf(a + 1) /\ a + 1 \in 0 .. NumFrames
    <3>1. ChildMsgQ[1] = FrameMsg(a + 1)
      BY <2>4
    <3> QED
      BY <1>2, <1>4, <2>5, <3>1 DEF Frames
  <2>8. FramesTo(ipc', c) = {m}
    BY <2>2, <2>5, <2>6 DEF FramesTo
  <2>9. Out'
    BY <1>5, <2>8 DEF Out
  <2>10. OutInv(a + 1)'
    <3>1. /\ \A m2 \in FramesTo(ipc', c) : About(m2, a + 1)
          /\ job'[c].child # c /\ cpc'[c] # "loaded"
      BY <2>2, <2>5, <2>7, <2>8 DEF About
    <3>2. About(cur', a + 1) /\ a + 1 >= 1 /\ frameIn'[SlotOf(a + 1)] = a + 1
      BY <1>2, <2>1, <2>4, <2>5, <2>7 DEF About
    <3>3. In(ipc', "FRAME_DONE") = {}
      BY <2>2, <2>5
    <3> QED
      BY <3>1, <3>2, <3>3 DEF OutInv, About
  <2>11. ChildMsgQ' = <<>> /\ Queued' = a + 1 /\ Advanced' = Advanced
    BY <2>1, <2>4 DEF Queued, Advanced
  <2>12. Line(a + 1)'
    BY <2>11 DEF Line
  <2>13. TailInv'
    BY <1>2, <1>6, <2>1, <2>11 DEF TailInv
  <2>14. UsedInv(a + 1)'
    <3>1. ChildMsgQ' # <<FrameMsg((a + 1) + 1)>>
      BY <2>11
    <3>2. \A s \in Slots : InUse(a, s) <=> InUse(a + 1, s)'
      BY <2>1, <2>3, <2>4, <2>9, <3>1 DEF InUse
    <3> QED
      BY <1>1, <2>1, <3>2 DEF UsedInv
  <2> QED
    BY <2>7, <2>10, <2>12, <2>13, <2>14 DEF RingInv
<1>7. CASE OnFrameDone
  <2>1. PICK m \in FrameJobs :
          /\ m \in In(ipc, "FRAME_DONE")
          /\ \A u \in Channels \ {"FRAME_DONE"} : In(ipc', u) = In(ipc, u)
          /\ In(ipc', "FRAME_DONE") \subseteq In(ipc, "FRAME_DONE")
          /\ ppc' = "finish" /\ cur' = m
          /\ UNCHANGED <<frameIn, frameOut, cpc, job, picture>>
    BY <1>7, FrameTakenBack
  <2>2. UNCHANGED <<used, tailIn, vpc, frameNum, ChildMsgQ>>
    BY <1>7 DEF OnFrameDone
  <2>3. FramesTo(ipc', c) = FramesTo(ipc, c)
    BY <1>5, <2>1 DEF FramesTo
  <2>4. Out /\ Out'
    BY <2>1 DEF Out
  <2>5. OutInv(a)'
    <3>1. About(m, a) /\ a >= 1
      BY <1>1, <2>1, <2>4 DEF OutInv
    <3> QED
      BY <1>1, <2>1, <2>3, <3>1 DEF OutInv, About
  <2>6. Queued' = Queued /\ Advanced' = Advanced
    BY <2>2 DEF Queued, Advanced
  <2>7. Line(a)' /\ TailInv'
    BY <1>1, <1>2, <2>1, <2>2, <2>6 DEF Line, TailInv
  <2>8. UsedInv(a)'
    BY <1>1, <2>2, <2>4 DEF UsedInv, InUse
  <2> QED
    BY <2>5, <2>7, <2>8 DEF RingInv
<1>8. CASE Quiet /\ VideoFinished
  <2>1. /\ ppc = "finish" /\ ppc' \in {"next", "scan"}
        /\ used' = [used EXCEPT ![cur.indexIn] = @ - 1]
        /\ UNCHANGED <<tailIn, frameIn, vpc, frameNum, ChildMsgQ>>
    BY <1>8 DEF VideoFinished
  <2>2. /\ FramesTo(ipc, c) = {} /\ In(ipc, "FRAME_DONE") = {} /\ job[c].child # c
        /\ cpc[c] = "wait"
    BY <2>1, ServedAlone DEF Serving
  <2>3. /\ FramesTo(ipc', c) = {} /\ In(ipc', "FRAME_DONE") = {} /\ job'[c].child # c
        /\ cpc'[c] # "loaded"
    BY <1>5, <1>8, <2>2 DEF Quiet, SameFrames
  <2>4. Out /\ ~Out'
    BY <2>1, <2>3 DEF Out
  <2>5. cur.indexIn = SlotOf(a) /\ a >= 1
    BY <1>1, <2>1, <2>4 DEF OutInv, About
  <2>6. OutInv(a)'
    BY <1>1, <2>1, <2>3, <2>4 DEF OutInv
  <2>7. Queued' = Queued /\ Advanced' = Advanced
    BY <2>1 DEF Queued, Advanced
  <2>8. Line(a)' /\ TailInv'
    BY <1>1, <1>2, <2>1, <2>7 DEF Line, TailInv
  <2>9. vpc = "enqueue" => tailIn # SlotOf(a)
    <3> SUFFICES ASSUME vpc = "enqueue" PROVE tailIn # SlotOf(a)
      OBVIOUS
    <3>1. Queued = frameNum - 1 /\ tailIn = SlotOf((frameNum - 1) + 1)
      BY <1>2 DEF Queued, Advanced, TailInv
    <3>2. Queued = a \/ Queued = a + 1
      BY <1>1 DEF Line
    <3>3. (frameNum - 1) + 1 = a + 1 \/ (frameNum - 1) + 1 = a + 2
      BY <1>2, <3>1, <3>2
    <3> QED
      BY <1>3, <2>5, <3>1, <3>3
  <2>10. UsedInv(a)'
    <3> SUFFICES ASSUME NEW s \in Slots PROVE used'[s] = IF InUse(a, s)' THEN 1 ELSE 0
      BY DEF UsedInv
    <3>1. CASE s = SlotOf(a)
      <4>1. used[s] = 1
        BY <1>1, <2>4, <3>1 DEF UsedInv, InUse
      <4>2. used'[s] = 0
        BY <1>2, <2>1, <2>5, <3>1, <4>1
      <4>3. ~InUse(a, s)'
        BY <1>3, <2>1, <2>4, <2>5, <2>9, <3>1 DEF InUse
      <4> QED
        BY <4>2, <4>3
    <3>2. CASE s # SlotOf(a)
      <4>1. used'[s] = used[s]
        BY <1>2, <2>1, <2>5, <3>2
      <4>2. InUse(a, s)' <=> InUse(a, s)
        BY <2>1, <3>2 DEF InUse
      <4> QED
        BY <1>1, <4>1, <4>2 DEF UsedInv
    <3> QED
      BY <3>1, <3>2
  <2> QED
    BY <2>6, <2>8, <2>10 DEF RingInv
<1>9. CASE Quiet /\ NextFrame /\ ppc' # "videoIn"
  <2>1. /\ ppc = "next" /\ ppc' = "putBack" /\ ChildMsgQ # <<>> /\ ChildMsgQ' = Tail(ChildMsgQ)
        /\ Head(ChildMsgQ).frameNum = EndOfInput
        /\ UNCHANGED <<used, tailIn, frameIn, vpc, frameNum>>
    BY <1>9 DEF NextFrame
  <2>2. ChildMsgQ = <<EndMsg>> /\ Queued = a /\ vpc = "done"
    <3>1. ChildMsgQ # <<FrameMsg(a + 1)>>
      BY <1>4, <2>1
    <3> QED
      BY <1>1, <2>1, <3>1 DEF Line
  <2>3. ChildMsgQ' = <<>> /\ Queued' = a /\ Advanced' = Advanced
    BY <2>1, <2>2 DEF Queued, Advanced
  <2>4. OutInv(a)' /\ (Out' <=> Out)
    BY <1>1, <1>9, <2>1, OutSame
  <2>5. Line(a)' /\ TailInv'
    BY <1>2, <2>1, <2>2, <2>3 DEF Line, TailInv
  <2>6. UsedInv(a)'
    <3>1. ChildMsgQ # <<FrameMsg(a + 1)>> /\ ChildMsgQ' # <<FrameMsg(a + 1)>>
      BY <1>4, <2>2, <2>3
    <3> QED
      BY <1>1, <2>1, <2>4, <3>1 DEF UsedInv, InUse
  <2> QED
    BY <2>4, <2>5, <2>6 DEF RingInv
<1>10. CASE Quiet /\ PutBack
  <2>1. /\ ppc = "putBack" /\ ppc' = "recv" /\ Len(ChildMsgQ) < 1
        /\ ChildMsgQ' = Append(ChildMsgQ, EndMsg)
        /\ UNCHANGED <<used, tailIn, frameIn, vpc, frameNum>>
    BY <1>10 DEF PutBack
  <2>2. ChildMsgQ = <<>> /\ Queued = a /\ vpc = "done"
    BY <1>1, <1>2, <2>1 DEF Line, TailInv
  <2>3. ChildMsgQ' = <<EndMsg>> /\ Queued' = a /\ Advanced' = Advanced
    BY <2>1, <2>2 DEF Queued, Advanced
  <2>4. OutInv(a)' /\ (Out' <=> Out)
    BY <1>1, <1>10, <2>1, OutSame
  <2>5. Line(a)' /\ TailInv'
    BY <1>2, <2>1, <2>2, <2>3 DEF Line, TailInv
  <2>6. UsedInv(a)'
    <3>1. ChildMsgQ # <<FrameMsg(a + 1)>> /\ ChildMsgQ' # <<FrameMsg(a + 1)>>
      BY <1>4, <2>2, <2>3
    <3> QED
      BY <1>1, <2>1, <2>4, <3>1 DEF UsedInv, InUse
  <2> QED
    BY <2>4, <2>5, <2>6 DEF RingInv
<1> QED
  BY <1>6, <1>7, <1>8, <1>9, <1>10

\* The steps of the child that move a frame.
LEMMA ChildKeepsRing ==
  ASSUME TypeInv, TurnInv, Room, RingInv, NEW c, Children = {c}, ChildLoad(c) \/ ChildRender(c)
  PROVE  RingInv'
<1> USE DEF ringVars, videoVars, mainVars, childVars, fileVars
<1>1. PICK a \in 0 .. NumFrames : Line(a) /\ OutInv(a) /\ UsedInv(a)
  BY DEF RingInv
<1>2. /\ TailInv /\ job \in [Children -> Jobs] /\ picture \in [Children -> Frames \cup {0}]
      /\ cpc \in [Children -> {"unborn", "init", "wait", "loaded", "exited"}]
      /\ frameOut \in [Slots -> Frames \cup {0}]
  BY DEF RingInv, TypeInv, TypeOK
<1>3. /\ c \in Children /\ c \in Channels \ {"LOG", "FRAME_DONE"} /\ "FRAME_DONE" \in Channels \ {c}
  BY ServerNames DEF Channels
<1>4. UNCHANGED <<used, tailIn, frameIn, vpc, frameNum, ChildMsgQ, ppc, cur>>
  BY DEF ChildLoad, ChildRender
<1>5. Queued' = Queued /\ Advanced' = Advanced
  BY <1>4 DEF Queued, Advanced
<1>6. Line(a)' /\ TailInv'
  BY <1>1, <1>2, <1>4, <1>5 DEF Line, TailInv
<1>7. ASSUME Out, Out' PROVE UsedInv(a)'
  BY <1>1, <1>4, <1>7 DEF UsedInv, InUse
<1>8. CASE ChildLoad(c)
  <2>1. PICK m \in In(ipc, c) :
          /\ m.type = "RENDER_FRAME"
          /\ \A u \in Channels \ {c} : In(ipc', u) = In(ipc, u)
          /\ In(ipc', c) \subseteq In(ipc, c)
          /\ job' = [job EXCEPT ![c] = [child |-> c, frameNum |-> m.frameNum, indexIn |-> m.indexIn]]
          /\ picture' = [picture EXCEPT ![c] = frameIn[m.indexIn]]
          /\ frameOut' = frameOut
    BY <1>3, <1>8, FrameTaken
  <2>2. m \in FramesTo(ipc, c) /\ FramesTo(ipc', c) \subseteq FramesTo(ipc, c)
    BY <2>1 DEF FramesTo
  <2>3. /\ job'[c].child = c /\ job'[c].frameNum = m.frameNum /\ job'[c].indexIn = m.indexIn
        /\ picture'[c] = frameIn[m.indexIn]
    BY <1>2, <1>3, <2>1
  <2>4. Out /\ Out'
    BY <1>3, <2>2, <2>3 DEF Out
  <2>5. About(m, a) /\ a >= 1
    BY <1>1, <1>3, <2>2, <2>4 DEF OutInv
  <2>6. About(job'[c], a) /\ picture'[c] = a
    BY <1>1, <2>3, <2>5 DEF OutInv, About
  <2>7. In(ipc', "FRAME_DONE") = In(ipc, "FRAME_DONE")
    BY <1>3, <2>1
  <2>8. OutInv(a)'
    BY <1>1, <1>3, <1>4, <2>1, <2>2, <2>5, <2>6, <2>7 DEF OutInv, About
  <2> QED
    BY <1>6, <1>7, <2>4, <2>8 DEF RingInv
<1>9. CASE ChildRender(c)
  <2>1. PICK m \in FrameJobs :
          /\ m = job[c] /\ m.child = c /\ m.indexIn \in Slots
          /\ \A u \in Channels \ {"LOG", "FRAME_DONE"} : In(ipc', u) = In(ipc, u)
          /\ In(ipc', "FRAME_DONE") \subseteq In(ipc, "FRAME_DONE") \cup {m}
          /\ m \in In(ipc', "FRAME_DONE")
          /\ frameOut' = [frameOut EXCEPT ![m.indexIn] = picture[c]]
          /\ job' = [job EXCEPT ![c] = NoJob]
          /\ cpc[c] = "loaded" /\ cpc' = [cpc EXCEPT ![c] = "wait"]
    BY <1>3, <1>9, FrameReturned
  <2>2. Out /\ Out'
    BY <1>3, <2>1 DEF Out
  <2>3. About(m, a) /\ picture[c] = a /\ a >= 1
    BY <1>1, <1>3, <2>1, <2>2 DEF OutInv
  <2>4. frameOut'[SlotOf(a)] = a
    BY <1>2, <2>1, <2>3 DEF About
  <2>5. FramesTo(ipc', c) = FramesTo(ipc, c)
    BY <1>3, <2>1 DEF FramesTo
  <2>6. job'[c].child # c /\ cpc'[c] # "loaded"
    BY <1>2, <1>3, <2>1, PipelineAssumption DEF NoJob
  <2>7. OutInv(a)'
    BY <1>1, <1>3, <1>4, <2>1, <2>3, <2>4, <2>5, <2>6 DEF OutInv, About
  <2> QED
    BY <1>6, <1>7, <2>2, <2>7 DEF RingInv
<1> QED
  BY <1>8, <1>9

LEMMA RingStep ==
  ASSUME NEW c, Children = {c}, QueueCap = 1, TypeInv, TurnInv, Room, HeldInv, RingInv, [Next]_vars
  PROVE  RingInv'
<1> USE DEF ringVars, videoVars, mainVars, childVars, fileVars
<1>1. CASE Quiet /\ UNCHANGED <<used, tailIn, frameIn, frameNum, ChildMsgQ>>
           /\ (vpc' = vpc \/ {vpc, vpc'} \cap {"mark", "enqueue", "advance", "done"} = {})
           /\ (UNCHANGED <<ppc, cur>> \/ (ppc # "finish" /\ ppc' \notin {"finish", "videoIn", "putBack"}))
  <2>1. PICK a \in 0 .. NumFrames : Line(a) /\ OutInv(a) /\ UsedInv(a)
    BY DEF RingInv
  <2>2. OutInv(a)' /\ (Out' <=> Out)
    BY <1>1, <2>1, OutSame
  <2>3. Queued' = Queued /\ Advanced' = Advanced /\ (vpc = "done" <=> vpc' = "done")
        /\ (vpc = "enqueue" <=> vpc' = "enqueue")
    BY <1>1 DEF Queued, Advanced
  <2>4. Line(a)'
    BY <1>1, <2>1, <2>3 DEF Line
  <2>5. TailInv'
    BY <1>1, <2>3 DEF RingInv, TailInv
  <2>6. UsedInv(a)'
    BY <1>1, <2>1, <2>2, <2>3 DEF UsedInv, InUse
  <2> QED
    BY <2>2, <2>4, <2>5, <2>6 DEF RingInv
<1>2. CASE (NextFrame /\ ppc' = "videoIn") \/ OnFrameDone
  BY <1>2, MainKeepsRing
<1>3. CASE \E d \in Children : ChildLoad(d) \/ ChildRender(d)
  BY <1>3, ChildKeepsRing
<1>4. CASE Quiet /\ (VideoFinished \/ PutBack \/ (NextFrame /\ ppc' # "videoIn"))
  BY <1>4, MainKeepsRing
<1>5. CASE Quiet /\ VideoInThread
  <2>1. UNCHANGED <<ppc, cur>>
    BY <1>5 DEF VideoInThread, VideoStart, VideoCheck, VideoDecode, VideoMark, VideoEnqueue,
       VideoAdvance, VideoEnd
  <2>2. CASE VideoDecode \/ VideoMark \/ VideoEnqueue \/ VideoAdvance \/ VideoEnd
    BY <1>5, <2>1, <2>2, VideoKeepsRing
  <2>3. CASE VideoStart \/ VideoCheck
    BY <1>1, <1>5, <2>1, <2>3 DEF VideoStart, VideoCheck
  <2> QED
    BY <1>5, <2>2, <2>3 DEF VideoInThread
<1>6. CASE Quiet /\ ParentExit
  <2>1. /\ UNCHANGED <<used, tailIn, frameIn, frameNum, vpc, ChildMsgQ>> /\ ppc' = "exited"
        /\ cpc[c] = "exited"
    BY <1>6 DEF ParentExit
  <2>2. ppc # "finish"
    BY <2>1, ServedAlone DEF Serving
  <2> QED
    BY <1>1, <1>6, <2>1, <2>2
<1>7. CASE Quiet /\ (AwaitVideo \/ (\E d \in Children : Fork(d)) \/ (\E type \in Server : OnOther(type))
                     \/ OnReady \/ OnRenderReady \/ VideoFinishedScan \/ VideoFinishedWrap \/ VideoIn)
  <2>1. /\ UNCHANGED <<used, tailIn, frameIn, frameNum, vpc, ChildMsgQ>> /\ ppc # "finish"
        /\ ppc' \notin {"finish", "videoIn", "putBack"}
    BY <1>7 DEF AwaitVideo, Fork, OnOther, OnReady, OnRenderReady, VideoFinishedScan,
       VideoFinishedWrap, VideoIn
  <2> QED
    BY <1>1, <1>7, <2>1
<1>8. CASE Quiet /\ ((\E d \in Children : ChildInit(d) \/ ChildRenderMode(d) \/ ChildExit(d)
                                         \/ ChildDie(d)) \/ Ended \/ UNCHANGED vars)
  <2>1. UNCHANGED <<used, tailIn, frameIn, frameNum, vpc, ChildMsgQ, ppc, cur>>
    BY <1>8 DEF ChildInit, ChildRenderMode, ChildExit, ChildDie, Ended, vars
  <2> QED
    BY <1>1, <1>8, <2>1
<1> QED
  BY <1>2, <1>3, <1>4, <1>5, <1>6, <1>7, <1>8, FramesPassed DEF Next, Main, Child

\* What is written to the files is right as long as the ring is.
LEMMA FilesStep ==
  TypeInv /\ RingInv /\ FilesShowTheirFrame /\ [Next]_vars => FilesShowTheirFrame'
<1> SUFFICES ASSUME TypeInv, RingInv, FilesShowTheirFrame, [Next]_vars PROVE FilesShowTheirFrame'
  OBVIOUS
<1> USE DEF ringVars, videoVars, mainVars, childVars, fileVars
<1>1. PICK a \in 0 .. NumFrames : OutInv(a)
  BY DEF RingInv
<1>2. inFile \in [Frames -> Frames \cup {0}] /\ outFile \in [Frames -> Frames \cup {0}]
  BY DEF TypeInv, TypeOK
<1>3. CASE VideoIn
  <2>1. /\ inFile' = [inFile EXCEPT ![cur.frameNum] = frameIn[cur.indexIn]] /\ outFile' = outFile
        /\ ppc = "videoIn"
    BY <1>3 DEF VideoIn
  <2>2. cur.frameNum = a /\ frameIn[cur.indexIn] = a
    BY <1>1, <2>1 DEF OutInv, About
  <2> QED
    BY <1>2, <2>1, <2>2 DEF FilesShowTheirFrame
<1>4. CASE OnFrameDone
  <2>1. PICK m \in FrameJobs :
          /\ m \in In(ipc, "FRAME_DONE") /\ inFile' = inFile
          /\ outFile' = [outFile EXCEPT ![m.frameNum] = frameOut[m.indexIn]]
    BY <1>4, FrameTakenBack
  <2>2. m.frameNum = a /\ frameOut[m.indexIn] = a
    BY <1>1, <2>1 DEF OutInv, About
  <2> QED
    BY <1>2, <2>1, <2>2 DEF FilesShowTheirFrame
<1>5. CASE UNCHANGED <<inFile, outFile>>
  BY <1>5 DEF FilesShowTheirFrame
<1> QED
  BY <1>3, <1>4, <1>5 DEF Next, VideoInThread, VideoStart, VideoCheck, VideoDecode, VideoMark,
     VideoEnqueue, VideoAdvance, VideoEnd, Main, AwaitVideo, Fork, OnOther, OnReady, OnRenderReady,
     VideoFinished, VideoFinishedScan, VideoFinishedWrap, NextFrame, PutBack, ParentExit,
     Child, ChildInit, ChildRenderMode, ChildLoad, ChildRender, ChildExit, ChildDie, Ended, vars

LEMMA RingHolds ==
  ASSUME numChildren = 1, IpcCap >= Needed
  PROVE  Spec => [](TypeInv /\ RingInv /\ FilesShowTheirFrame)
<1> DEFINE all == TypeInv /\ TurnInv /\ LogInv /\ Room
           held == TypeInv /\ TurnInv /\ OrderInv /\ HeldInv
           inv == RingInv /\ FilesShowTheirFrame
<1>1. Spec => []all
  BY TurnsHold
<1>2. Spec => []held
  BY FramesHold
<1>3. Init => inv
  <2>1. Init => FilesShowTheirFrame
    BY DEF Init, FilesShowTheirFrame
  <2> QED
    BY <2>1, RingInit
<1>4. PICK c : Children = {c}
  BY PipelineAssumption, FS_Singleton DEF numChildren
<1>5. QueueCap = 1
  BY QueueCapOfOne
<1>6. all /\ held /\ inv /\ [Next]_vars => inv'
  BY <1>4, <1>5, RingStep, FilesStep
<1> QED
  BY <1>1, <1>2, <1>3, <1>6, PTL DEF Spec

\* Slot s is held by message k of ChildMsgQ, by child c, by the video thread or by
\* nobody.
Owners(s, queued, child, video, k, c) ==
  /\ Holders(s) = (IF queued THEN {<<"queued", k>>} ELSE {})
                  \cup (IF child THEN {<<"child", c>>} ELSE {})
                  \cup (IF video THEN {<<"video">>} ELSE {})
  /\ ~(queued /\ child) /\ ~(queued /\ video) /\ ~(child /\ video)
  /\ video => vpc \in {"mark", "enqueue"}

LEMMA OwnersCount ==
  ASSUME NEW s, NEW queued \in BOOLEAN, NEW child \in BOOLEAN, NEW video \in BOOLEAN,
         NEW k, NEW c, Owners(s, queued, child, video, k, c)
  PROVE  /\ Cardinality(Holders(s)) <= 1
         /\ Cardinality(Holders(s) \ (IF vpc = "mark" THEN {<<"video">>} ELSE {}))
              = IF queued \/ child \/ (video /\ vpc = "enqueue") THEN 1 ELSE 0
<1> DEFINE rest == Holders(s) \ (IF vpc = "mark" THEN {<<"video">>} ELSE {})
<1>1. PICK x, y, z : /\ x = <<"queued", k>> /\ y = <<"child", c>> /\ z = <<"video">>
                     /\ x # z /\ y # z
  <2>1. <<"queued", k>> # <<"video">> /\ <<"child", c>> # <<"video">>
    OBVIOUS
  <2> QED
    BY <2>1, Zenon
<1>2. /\ Holders(s) = (IF queued THEN {x} ELSE {}) \cup (IF child THEN {y} ELSE {})
                      \cup (IF video THEN {z} ELSE {})
      /\ ~(queued /\ child) /\ ~(queued /\ video) /\ ~(child /\ video)
      /\ video => vpc \in {"mark", "enqueue"}
  BY <1>1, Zenon DEF Owners
<1>3. rest = Holders(s) \ (IF vpc = "mark" THEN {z} ELSE {})
  BY <1>1
<1>4. \/ Holders(s) = {} /\ ~queued /\ ~child /\ ~video
      \/ Holders(s) = {x} /\ queued
      \/ Holders(s) = {y} /\ child
      \/ Holders(s) = {z} /\ video /\ ~queued /\ ~child
  BY <1>2
<1> HIDE DEF rest
<1>5. IF queued \/ child \/ (video /\ vpc = "enqueue") THEN \E e : rest = {e} ELSE rest = {}
  <2>1. ASSUME NEW e, e # z, Holders(s) = {e} PROVE rest = {e}
    BY <1>3, <2>1
  <2>2. CASE Holders(s) = {} /\ ~queued /\ ~child /\ ~video
    BY <1>3, <2>2
  <2>3. CASE Holders(s) = {x} /\ queued
    BY <1>1, <2>1, <2>3
  <2>4. CASE Holders(s) = {y} /\ child
    BY <1>1, <2>1, <2>4
  <2>5. CASE Holders(s) = {z} /\ video /\ ~queued /\ ~child
    <3>1. CASE vpc = "mark"
      <4>1. rest = {} /\ vpc # "enqueue"
        BY <1>3, <2>5, <3>1
      <4> QED
        BY <2>5, <4>1
    <3>2. CASE vpc = "enqueue"
      <4>1. rest = {z}
        BY <1>3, <2>5, <3>2
      <4> QED
        BY <2>5, <3>2, <4>1
    <3> QED
      BY <1>2, <2>5, <3>1, <3>2
  <2> QED
    BY <1>4, <2>2, <2>3, <2>4, <2>5
<1>6. \A S : /\ S = {} => Cardinality(S) = 0
             /\ (\E e : S = {e}) => Cardinality(S) = 1
  <2>1. Cardinality({}) = 0
    BY FS_EmptySet
  <2>2. ASSUME NEW e PROVE Cardinality({e}) = 1
    BY FS_Singleton
  <2> QED
    BY <2>1, <2>2, Zenon
<1>7. Cardinality(Holders(s)) <= 1
  <2>1. Holders(s) = {} \/ \E e : Holders(s) = {e}
    BY <1>4
  <2>2. Cardinality(Holders(s)) = 0 \/ Cardinality(Holders(s)) = 1
    BY <1>6, <2>1, Zenon
  <2> QED
    BY <2>2
<1>8. Cardinality(rest) = IF queued \/ child \/ (video /\ vpc = "enqueue") THEN 1 ELSE 0
  BY <1>5, <1>6, Zenon
<1> QED
  BY <1>7, <1>8 DEF rest

\* Who is responsible for a slot, by the invariant: of the three parts that may
\* be, one at most is.
LEMMA SlotHolders ==
  ASSUME TypeInv, RingInv, NEW c, Children = {c}, NEW s \in Slots
  PROVE  \E queued, child, video \in BOOLEAN :
           /\ Owners(s, queued, child, video, 1, c)
           /\ used[s] = IF queued \/ child \/ (video /\ vpc = "enqueue") THEN 1 ELSE 0
<1>1. PICK a \in 0 .. NumFrames : Line(a) /\ OutInv(a) /\ UsedInv(a)
  BY DEF RingInv
<1>2. /\ TailInv /\ NumFrames \in Nat /\ a \in Nat /\ frameNum \in Nat
      /\ c \in Children /\ c \in Channels /\ "FRAME_DONE" \in Channels
      /\ c \notin Server /\ "FRAME_DONE" \notin Children
  <2>1. TailInv /\ NumFrames \in Nat /\ a \in Nat /\ frameNum \in Nat
    BY PipelineAssumption DEF RingInv, TypeInv, TypeOK
  <2>2. /\ c \in Children /\ c \in Channels /\ "FRAME_DONE" \in Channels
        /\ c \notin Server /\ "FRAME_DONE" \notin Children
    BY ServerNames DEF Channels
  <2> QED
    BY <2>1, <2>2
<1>3. /\ SlotOf(a + 1) # SlotOf(a + 2)
      /\ a >= 1 => SlotOf(a) # SlotOf(a + 1) /\ SlotOf(a) # SlotOf(a + 2)
  <2>1. a + 1 \in Nat /\ a + 1 >= 1 /\ (a + 1) + 1 = a + 2
    BY <1>2
  <2>2. SlotOf(a + 1) # SlotOf((a + 1) + 1)
    BY <2>1, SlotFacts
  <2> QED
    BY <1>2, <2>1, <2>2, SlotFacts
<1>4. PICK queued, child, video \in BOOLEAN :
        /\ queued <=> ChildMsgQ = <<FrameMsg(a + 1)>> /\ s = SlotOf(a + 1)
        /\ child <=> Out /\ s = SlotOf(a)
        /\ video <=> vpc \in {"mark", "enqueue"} /\ tailIn = s
  OBVIOUS
<1>5. {<<"queued", k>> : k \in {k \in DOMAIN ChildMsgQ : ChildMsgQ[k].indexIn = s}}
        = IF queued THEN {<<"queued", 1>>} ELSE {}
  <2>1. /\ EndMsg.indexIn = -1 /\ FrameMsg(a + 1).indexIn = SlotOf(a + 1)
        /\ FrameMsg(a + 1).frameNum = a + 1 /\ EndMsg.frameNum = -1
    BY DEF EndMsg, EndOfInput, FrameMsg
  <2>2. s # -1 /\ a + 1 # -1
    BY <1>2 DEF Slots
  <2>3. CASE ChildMsgQ = <<>>
    BY <1>4, <2>3
  <2>4. CASE ChildMsgQ = <<EndMsg>>
    <3>1. DOMAIN ChildMsgQ = {1} /\ ChildMsgQ[1] = EndMsg /\ ChildMsgQ # <<FrameMsg(a + 1)>>
      BY <2>1, <2>2, <2>4
    <3> QED
      BY <1>4, <2>1, <2>2, <3>1
  <2>5. CASE ChildMsgQ = <<FrameMsg(a + 1)>>
    <3>1. DOMAIN ChildMsgQ = {1} /\ ChildMsgQ[1] = FrameMsg(a + 1)
      BY <2>5
    <3> QED
      BY <1>4, <2>1, <2>5, <3>1
  <2> QED
    BY <1>1, <2>3, <2>4, <2>5 DEF Line
<1>6. {<<"child", d>> : d \in {d \in Children :
           \/ \E m \in FrameMessages(d) : m.indexIn = s
           \/ job[d].child = d /\ job[d].indexIn = s
           \/ \E m \in Range(ipc["FRAME_DONE"]) : m.child = d /\ m.indexIn = s
           \/ ppc = "finish" /\ cur.child = d /\ cur.indexIn = s}}
        = IF child THEN {<<"child", c>>} ELSE {}
  <2>1. ipc[c] \in Seq(ToChild) /\ ipc["FRAME_DONE"] \in Seq(FrameJobs)
    BY <1>2 DEF TypeInv, IpcTypes, Content
  <2>2. FrameMessages(c) = FramesTo(ipc, c) /\ Range(ipc["FRAME_DONE"]) = In(ipc, "FRAME_DONE")
    BY <2>1 DEF FrameMessages, FramesTo, In, Range
  <2>3. \A m \in In(ipc, "FRAME_DONE") : m.child = c
    <3> SUFFICES ASSUME NEW k \in 1 .. Len(ipc["FRAME_DONE"]) PROVE ipc["FRAME_DONE"][k].child = c
      BY DEF In
    <3>1. ipc["FRAME_DONE"][k] \in FrameJobs
      BY <2>1
    <3> QED
      BY <3>1 DEF FrameJobs
  <2>4. ppc = "finish" => cur.child = c
    BY DEF TypeInv, WorkTypes, Serving
  <2>5. child <=> \/ \E m \in FramesTo(ipc, c) : m.indexIn = s
                  \/ job[c].child = c /\ job[c].indexIn = s
                  \/ \E m \in In(ipc, "FRAME_DONE") : m.child = c /\ m.indexIn = s
                  \/ ppc = "finish" /\ cur.child = c /\ cur.indexIn = s
    BY <1>1, <1>2, <1>4, <2>3, <2>4 DEF Out, OutInv, About
  <2> QED
    BY <2>2, <2>5
<1>7. (IF vpc \in {"mark", "enqueue"} /\ tailIn = s THEN {<<"video">>} ELSE {})
        = IF video THEN {<<"video">>} ELSE {}
  BY <1>4
<1>8. Holders(s) = (IF queued THEN {<<"queued", 1>>} ELSE {})
                   \cup (IF child THEN {<<"child", c>>} ELSE {})
                   \cup (IF video THEN {<<"video">>} ELSE {})
  BY <1>5, <1>6, <1>7, Zenon DEF Holders
<1>9. child => a >= 1
  BY <1>1, <1>4 DEF OutInv
<1>10. vpc \in {"mark", "enqueue"} =>
         \/ ChildMsgQ = <<>> /\ tailIn = SlotOf(a + 1)
         \/ ChildMsgQ = <<FrameMsg(a + 1)>> /\ tailIn = SlotOf(a + 2)
  <2> SUFFICES ASSUME vpc \in {"mark", "enqueue"}
               PROVE  \/ ChildMsgQ = <<>> /\ tailIn = SlotOf(a + 1)
                      \/ ChildMsgQ = <<FrameMsg(a + 1)>> /\ tailIn = SlotOf(a + 2)
    OBVIOUS
  <2>1. Queued = frameNum - 1 /\ tailIn = SlotOf((frameNum - 1) + 1)
    BY <1>2 DEF Queued, Advanced, TailInv
  <2>2. \/ ChildMsgQ = <<>> /\ frameNum - 1 = a
        \/ ChildMsgQ = <<FrameMsg(a + 1)>> /\ frameNum - 1 = a + 1
    BY <1>1, <2>1 DEF Line
  <2>3. (a + 1) + 1 = a + 2
    BY <1>2
  <2> QED
    BY <2>1, <2>2, <2>3
<1>11. ~(queued /\ child) /\ ~(queued /\ video) /\ ~(child /\ video)
  <2>1. <<>> # <<FrameMsg(a + 1)>>
    OBVIOUS
  <2>2. ASSUME queued, child PROVE FALSE
    BY <1>3, <1>4, <1>9, <2>2
  <2>3. ASSUME queued, video PROVE FALSE
    BY <1>3, <1>4, <1>10, <2>1, <2>3
  <2>4. ASSUME child, video PROVE FALSE
    BY <1>3, <1>4, <1>9, <1>10, <2>4
  <2> QED
    BY <2>2, <2>3, <2>4
<1>12. used[s] = IF queued \/ child \/ (video /\ vpc = "enqueue") THEN 1 ELSE 0
  BY <1>1, <1>4 DEF UsedInv, InUse
<1> QED
  BY <1>4, <1>8, <1>11, <1>12 DEF Owners

\* With one card, no slot ever belongs to two frames, for any number of frames
\* and any size of the ring: the video thread does not decode into a slot whose
\* frame is queued, being rendered or waiting to be saved.  It holds whatever
\* the scan of videoFinished makes of headIn: one place in ChildMsgQ and one
\* frame with the card keep at most three slots of at least five busy.
THEOREM OneOwnerPerSlot ==
  ASSUME numChildren = 1, IpcCap >= Needed PROVE Spec => []SlotHasOneOwner
<1>1. PICK c : Children = {c}
  BY PipelineAssumption, FS_Singleton DEF numChildren
<1>2. TypeInv /\ RingInv => SlotHasOneOwner
  <2> SUFFICES ASSUME TypeInv, RingInv, NEW s \in Slots PROVE Cardinality(Holders(s)) <= 1
    BY DEF SlotHasOneOwner
  <2>1. PICK queued, child, video \in BOOLEAN : Owners(s, queued, child, video, 1, c)
    BY <1>1, SlotHolders
  <2> QED
    BY <2>1, OwnersCount
<1> QED
  BY <1>2, RingHolds, PTL

\* With one card, used[] counts what is in use and nothing else: a slot whose
\* frame has been saved is free at once, and no other is.
THEOREM UsedIsExact ==
  ASSUME numChildren = 1, IpcCap >= Needed PROVE Spec => []UsedCountsOwners
<1>1. PICK c : Children = {c}
  BY PipelineAssumption, FS_Singleton DEF numChildren
<1>2. TypeInv /\ RingInv => UsedCountsOwners
  <2> SUFFICES ASSUME TypeInv, RingInv, NEW s \in Slots
               PROVE  used[s] = Cardinality(Holders(s) \ (IF vpc = "mark" THEN {<<"video">>} ELSE {}))
    BY DEF UsedCountsOwners
  <2>1. PICK queued, child, video \in BOOLEAN :
          /\ Owners(s, queued, child, video, 1, c)
          /\ used[s] = IF queued \/ child \/ (video /\ vpc = "enqueue") THEN 1 ELSE 0
    BY <1>1, SlotHolders
  <2> QED
    BY <2>1, OwnersCount
<1> QED
  BY <1>2, RingHolds, PTL

\* With one card, the child loads the picture of the frame its message names,
\* however far the video thread has run ahead.
THEOREM LoadsTheFrameItWasGiven ==
  ASSUME numChildren = 1, IpcCap >= Needed PROVE Spec => []LoadsItsFrame
<1>1. TypeInv /\ RingInv => LoadsItsFrame
  <2> SUFFICES ASSUME TypeInv, RingInv, NEW c \in Children, cpc[c] = "loaded"
               PROVE  picture[c] = job[c].frameNum
    BY DEF LoadsItsFrame
  <2>1. PICK a \in 0 .. NumFrames : OutInv(a)
    BY DEF RingInv
  <2>2. job[c].child = c
    BY DEF TypeInv, WorkTypes
  <2> QED
    BY <2>1, <2>2 DEF OutInv, About
<1> QED
  BY <1>1, RingHolds, PTL

\* With one card, every in/N.ppm and out/N.ppm shows frame N.
THEOREM FilesAreRight ==
  ASSUME numChildren = 1, IpcCap >= Needed PROVE Spec => []FilesShowTheirFrame
BY RingHolds, PTL

-----------------------------------------------------------------------------
(***************************************************************************)
(* Any number of cards.  A frame is in one place at a time for every film; *)
(* its slot is its own until the ring wraps, that is until more frames are *)
(* decoded than the ring has slots.                                        *)
(***************************************************************************)
FirstLap == frameNum <= frameCountIn

\* A message about one of the first n frames, and its slot.
Decoded(m, n) == m.frameNum \in 1 .. n /\ m.indexIn = m.frameNum - 1

VideoLap ==
  /\ tailIn = Advanced % frameCountIn
  /\ vpc \in {"mark", "enqueue", "advance"} => frameNum >= 1
  /\ \A f \in 1 .. frameNum : frameIn[f - 1] = f

ChildLap ==
  /\ ppc \in {"finish", "videoIn"} => Decoded(cur, frameNum)
  /\ \A c \in Children :
       /\ \A m \in FramesTo(ipc, c) : Decoded(m, frameNum)
       /\ job[c].child = c => Decoded(job[c], frameNum)
       /\ cpc[c] = "loaded" => picture[c] = job[c].frameNum
  /\ \A m \in In(ipc, "FRAME_DONE") : Decoded(m, frameNum) /\ frameOut[m.indexIn] = m.frameNum

QueueLap == \A k \in 1 .. Len(ChildMsgQ) : ChildMsgQ[k] # EndMsg => Decoded(ChildMsgQ[k], frameNum)

LapInv == FirstLap => VideoLap /\ QueueLap /\ ChildLap /\ FilesShowTheirFrame

\* Child c has frame f, or main has not yet released its slot.
Has(c, f) == Holds(c, f) \/ (ppc = "finish" /\ cur.child = c /\ cur.frameNum = f)

\* No two children have one frame, and the frames in ChildMsgQ follow those that
\* any child has.
OnceInv ==
  /\ \A c \in Children, f \in Nat : Has(c, f) =>
       /\ f <= Queued
       /\ \A d \in Children : Has(d, f) => d = c
       /\ \A k \in 1 .. Len(ChildMsgQ) : ChildMsgQ[k] # EndMsg => f < ChildMsgQ[k].frameNum
  /\ \A k \in 1 .. Len(ChildMsgQ) : ChildMsgQ[k] # EndMsg =>
       /\ ChildMsgQ[k].frameNum <= Queued
       /\ \A l \in 1 .. k - 1 : ChildMsgQ[l].frameNum < ChildMsgQ[k].frameNum

\* A frame whose slot is counted in used[].
InQueue(f) == \E k \in 1 .. Len(ChildMsgQ) : ChildMsgQ[k].frameNum = f

Busy(f) ==
  \/ \E c \in Children : Has(c, f)
  \/ InQueue(f)
  \/ vpc = "enqueue" /\ frameNum = f

BusyInv == \A s \in Slots : used[s] = IF Busy(s + 1) THEN 1 ELSE 0

\* What a step does to the numbers of the video thread.
LEMMA VideoSteps ==
  ASSUME TypeInv, [Next]_vars
  PROVE  /\ frameNum \in Nat /\ frameNum' \in Nat /\ frameNum' >= frameNum
         /\ \/ VideoDecode \/ VideoAdvance
            \/ /\ UNCHANGED <<tailIn, frameIn, frameNum, Advanced>>
               /\ vpc' \in {"mark", "enqueue", "advance"} => vpc \in {"mark", "enqueue", "advance"}
         /\ VideoEnqueue \/ UNCHANGED Queued
         /\ VideoEnqueue => frameNum = Queued + 1 /\ Queued' = Queued + 1
<1> USE DEF ringVars, videoVars, mainVars, childVars, fileVars
<1>1. frameNum \in Nat /\ Queued \in Int
  BY PipelineAssumption DEF TypeInv, TypeOK, Queued
<1>2. CASE VideoDecode
  <2>1. /\ vpc = "decode"
        /\ \/ frameNum' = frameNum + 1 /\ vpc' = "mark"
           \/ frameNum' = frameNum /\ vpc' = "eof"
    BY <1>2 DEF VideoDecode
  <2>2. Queued' = Queued /\ ~VideoEnqueue
    BY <1>1, <2>1 DEF Queued, VideoEnqueue
  <2> QED
    BY <1>1, <1>2, <2>1, <2>2
<1>3. CASE VideoEnqueue
  <2>1. /\ vpc = "enqueue" /\ vpc' = "advance" /\ UNCHANGED <<tailIn, frameIn, frameNum>>
    BY <1>3 DEF VideoEnqueue
  <2> QED
    BY <1>1, <1>3, <2>1 DEF Queued, Advanced
<1>4. CASE VideoAdvance
  <2>1. vpc = "advance" /\ vpc' = "check" /\ frameNum' = frameNum
    BY <1>4 DEF VideoAdvance
  <2> QED
    BY <1>1, <1>4, <2>1 DEF Queued, VideoEnqueue
<1>5. CASE VideoMark
  <2>1. vpc = "mark" /\ vpc' = "enqueue" /\ UNCHANGED <<tailIn, frameIn, frameNum>>
    BY <1>5 DEF VideoMark
  <2> QED
    BY <1>1, <2>1 DEF Queued, Advanced, VideoEnqueue
<1>6. CASE VideoStart \/ VideoCheck \/ VideoEnd
  <2>1. /\ vpc \in {"init", "check", "eof"} /\ vpc' \in {"check", "decode", "done"}
        /\ UNCHANGED <<tailIn, frameIn, frameNum>>
    BY <1>6 DEF VideoStart, VideoCheck, VideoEnd
  <2> QED
    BY <1>1, <2>1 DEF Queued, Advanced, VideoEnqueue
<1>7. CASE UNCHANGED <<vpc, tailIn, frameIn, frameNum>>
  <2>1. ~VideoEnqueue
    BY <1>7 DEF VideoEnqueue
  <2> QED
    BY <1>1, <1>7, <2>1 DEF Queued, Advanced
<1>8. CASE Main
  BY <1>7, <1>8 DEF Main, AwaitVideo, Fork, OnOther, OnReady, OnRenderReady, OnFrameDone,
     VideoFinished, VideoFinishedScan, VideoFinishedWrap, NextFrame, PutBack, VideoIn, ParentExit
<1>9. CASE (\E c \in Children : Child(c)) \/ Ended \/ UNCHANGED vars
  BY <1>7, <1>9 DEF Child, ChildInit, ChildRenderMode, ChildLoad, ChildRender, ChildExit, ChildDie,
     Ended, vars
<1> QED
  BY <1>2, <1>3, <1>4, <1>5, <1>6, <1>8, <1>9 DEF Next, VideoInThread

\* How main comes to a frame, and away from it.
LEMMA CurSteps ==
  ASSUME TypeInv, [Next]_vars
  PROVE  /\ ppc' \in {"finish", "videoIn"} =>
              \/ UNCHANGED <<ppc, cur>> \/ OnFrameDone \/ NextFrame
         /\ ppc = "finish" => UNCHANGED <<ppc, cur>> \/ VideoFinished \/ ParentExit
         /\ NextFrame => ppc = "next" /\ ppc' \in {"videoIn", "putBack"}
         /\ OnFrameDone => ppc = "recv" /\ ppc' = "finish"
<1> USE DEF ringVars, videoVars, mainVars, childVars, fileVars
<1>1. NextFrame => ppc = "next" /\ ppc' \in {"videoIn", "putBack"}
  BY DEF NextFrame
<1>2. OnFrameDone => ppc = "recv" /\ ppc' = "finish"
  BY DEF OnFrameDone
<1>3. CASE VideoInThread \/ (\E c \in Children : Child(c)) \/ Ended \/ UNCHANGED vars
  <2>1. UNCHANGED <<ppc, cur>>
    BY <1>3 DEF VideoInThread, VideoStart, VideoCheck, VideoDecode, VideoMark, VideoEnqueue,
       VideoAdvance, VideoEnd, Child, ChildInit, ChildRenderMode, ChildLoad, ChildRender, ChildExit,
       ChildDie, Ended, vars
  <2> QED
    BY <1>1, <1>2, <2>1
<1>4. CASE OnFrameDone \/ NextFrame
  BY <1>1, <1>2, <1>4
<1>5. CASE VideoFinished
  <2>1. ppc = "finish" /\ ppc' \in {"next", "scan"}
    BY <1>5 DEF VideoFinished
  <2> QED
    BY <1>1, <1>2, <1>5, <2>1
<1>6. CASE ParentExit
  <2>1. ppc' = "exited"
    BY <1>6 DEF ParentExit
  <2> QED
    BY <1>1, <1>2, <1>6, <2>1
<1>7. CASE \E type \in Server : OnOther(type)
  <2>1. UNCHANGED <<ppc, cur>>
    BY <1>7 DEF OnOther
  <2> QED
    BY <1>1, <1>2, <2>1
<1>8. CASE \/ AwaitVideo \/ (\E c \in Children : Fork(c)) \/ OnRenderReady
           \/ VideoFinishedScan \/ VideoFinishedWrap \/ PutBack \/ VideoIn
  <2>1. /\ ppc \in {"start", "fork", "recv", "scan", "wrap", "putBack", "videoIn"}
        /\ ppc' \in {"fork", "recv", "next", "scan", "wrap"}
    BY <1>8 DEF AwaitVideo, Fork, OnRenderReady, VideoFinishedScan, VideoFinishedWrap, PutBack, VideoIn
  <2> QED
    BY <1>1, <1>2, <2>1
<1>9. CASE OnReady
  <2>1. UNCHANGED <<ppc, cur>>
    BY <1>9 DEF OnReady
  <2> QED
    BY <1>1, <1>2, <2>1
<1> QED
  BY <1>3, <1>4, <1>5, <1>6, <1>7, <1>8, <1>9 DEF Next, Main

\* The messages of ChildMsgQ after a step are those before it, one place further
\* on if main has taken one, an end marker, and the one of a new frame.
LEMMA QueueShifts ==
  ASSUME TypeInv, [Next]_vars
  PROVE  \E off \in {0, 1} :
           /\ \A k \in 1 .. Len(ChildMsgQ') :
                \/ k + off \in 1 .. Len(ChildMsgQ) /\ ChildMsgQ'[k] = ChildMsgQ[k + off]
                \/ ChildMsgQ'[k] = EndMsg
                \/ /\ VideoEnqueue /\ k = Len(ChildMsgQ')
                   /\ ChildMsgQ'[k] = [frameNum |-> frameNum, indexIn |-> tailIn]
           /\ NextFrame => off = 1
           /\ Len(ChildMsgQ) \in Nat /\ Len(ChildMsgQ') \in Nat
<1>1. /\ ChildMsgQ \in Seq(FrameMsgs \cup {EndMsg}) /\ Len(ChildMsgQ) \in Nat
      /\ tailIn \in Slots /\ frameNum \in 0 .. NumFrames
      /\ vpc = "enqueue" => frameNum >= 1
  BY QueueTypes DEF TypeInv, TypeOK, WorkTypes
<1>2. CASE NextFrame
  <2>1. PICK q : q = ChildMsgQ' /\ q = Tail(ChildMsgQ) /\ ChildMsgQ # <<>>
    BY <1>2 DEF NextFrame
  <2>2. /\ Len(q) \in Nat
        /\ \A k \in 1 .. Len(q) : q[k] = ChildMsgQ[k + 1] /\ k + 1 \in 1 .. Len(ChildMsgQ)
    BY <1>1, <2>1, TailElements
  <2> QED
    BY <1>1, <2>1, <2>2
<1>3. ASSUME NEW m \in FrameMsgs \cup {EndMsg}, ChildMsgQ' = Append(ChildMsgQ, m), ~NextFrame,
             m = EndMsg \/ (VideoEnqueue /\ m = [frameNum |-> frameNum, indexIn |-> tailIn])
      PROVE  \E off \in {0, 1} :
               /\ \A k \in 1 .. Len(ChildMsgQ') :
                    \/ k + off \in 1 .. Len(ChildMsgQ) /\ ChildMsgQ'[k] = ChildMsgQ[k + off]
                    \/ ChildMsgQ'[k] = EndMsg
                    \/ /\ VideoEnqueue /\ k = Len(ChildMsgQ')
                       /\ ChildMsgQ'[k] = [frameNum |-> frameNum, indexIn |-> tailIn]
               /\ NextFrame => off = 1
               /\ Len(ChildMsgQ) \in Nat /\ Len(ChildMsgQ') \in Nat
  <2> DEFINE S == FrameMsgs \cup {EndMsg}
  <2>1. PICK q, n : q = ChildMsgQ' /\ n = Len(ChildMsgQ) /\ q = Append(ChildMsgQ, m)
    BY <1>3
  <2>2. /\ n \in Nat /\ Len(q) = n + 1 /\ q[n + 1] = m
        /\ \A k \in 1 .. n : q[k] = ChildMsgQ[k]
        /\ 1 .. n + 1 = (1 .. n) \cup {n + 1}
    <3>1. ChildMsgQ \in Seq(S) /\ m \in S
      BY <1>1, <1>3
    <3> HIDE DEF S
    <3>2. /\ Len(ChildMsgQ) \in Nat /\ Len(q) = Len(ChildMsgQ) + 1 /\ q[Len(ChildMsgQ) + 1] = m
          /\ \A k \in 1 .. Len(ChildMsgQ) : q[k] = ChildMsgQ[k]
          /\ 1 .. Len(q) = (1 .. Len(ChildMsgQ)) \cup {Len(ChildMsgQ) + 1}
      BY <2>1, <3>1, AppendElements
    <3> QED
      BY <2>1, <3>2
  <2>3. \A k \in 1 .. n + 1 : \/ k + 0 \in 1 .. n /\ q[k] = ChildMsgQ[k + 0]
                              \/ k = n + 1 /\ q[k] = m
    BY <2>2
  <2> QED
    BY <1>3, <2>1, <2>2, <2>3
<1>4. CASE ChildMsgQ' = ChildMsgQ /\ ~NextFrame
  <2>1. \A k \in 1 .. Len(ChildMsgQ) : k + 0 = k
    BY <1>1
  <2> QED
    BY <1>1, <1>4, <2>1
<1>5. CASE VideoEnqueue /\ ~NextFrame /\ ChildMsgQ' = Append(ChildMsgQ, [frameNum |-> frameNum, indexIn |-> tailIn])
  <2>1. vpc = "enqueue"
    BY <1>5 DEF VideoEnqueue
  <2>2. [frameNum |-> frameNum, indexIn |-> tailIn] \in FrameMsgs
    BY <1>1, <2>1, PipelineAssumption DEF FrameMsgs, Frames
  <2> QED
    BY <1>3, <1>5, <2>2
<1>6. CASE ChildMsgQ' = Append(ChildMsgQ, EndMsg) /\ ~NextFrame
  BY <1>3, <1>6
<1> QED
  BY <1>2, <1>4, <1>5, <1>6, QueueSteps

\* A child gets a frame from ChildMsgQ, and from nowhere else.
LEMMA HasMoves ==
  ASSUME TypeInv, [Next]_vars, NEW c \in Children, NEW f, Has(c, f)'
  PROVE  \/ Has(c, f)
         \/ /\ NextFrame /\ c = cur.child
            /\ 1 \in 1 .. Len(ChildMsgQ) /\ ChildMsgQ[1] # EndMsg /\ ChildMsgQ[1].frameNum = f
<1> USE DEF ringVars, videoVars, mainVars, childVars, fileVars
<1>1. /\ "FRAME_DONE" \in Channels \ {"LOG"} /\ "FRAME_DONE" \notin Children
      /\ \A d \in Children : d \in Channels \ {"LOG", "FRAME_DONE"}
  BY ServerNames DEF Channels
<1>2. /\ job \in [Children -> Jobs] /\ Nobody \notin Children
  BY PipelineAssumption DEF TypeInv, TypeOK
<1>3. CASE NextFrame /\ ppc' = "videoIn"
  <2>1. PICK d \in Children, m \in ToChild :
          /\ d = cur.child
          /\ 1 \in 1 .. Len(ChildMsgQ) /\ ChildMsgQ[1] # EndMsg
          /\ ChildMsgQ[1].frameNum = m.frameNum
          /\ \A u \in Channels \ {d} : In(ipc', u) = In(ipc, u)
          /\ In(ipc', d) \subseteq In(ipc, d) \cup {m}
          /\ job' = job
    BY <1>3, FrameGiven
  <2>2. Holds(c, f)'
    BY <1>3 DEF Has
  <2>3. In(ipc', "FRAME_DONE") = In(ipc, "FRAME_DONE")
    BY <1>1, <2>1
  <2>4. CASE \E n \in In(ipc', c) : n.type = "RENDER_FRAME" /\ n.frameNum = f
    <3>1. PICK n \in In(ipc', c) : n.type = "RENDER_FRAME" /\ n.frameNum = f
      BY <2>4
    <3>2. n \in In(ipc, c) \/ (c = d /\ n = m)
      BY <1>1, <2>1, <3>1
    <3> QED
      BY <1>3, <2>1, <3>1, <3>2 DEF Has, Holds
  <2>5. CASE \/ job'[c].child = c /\ job'[c].frameNum = f
             \/ \E n \in In(ipc', "FRAME_DONE") : n.child = c /\ n.frameNum = f
    BY <2>1, <2>3, <2>5 DEF Has, Holds
  <2> QED
    BY <2>2, <2>4, <2>5 DEF Holds
<1>4. CASE OnFrameDone
  <2>1. PICK m \in FrameJobs :
          /\ m \in In(ipc, "FRAME_DONE")
          /\ \A u \in Channels \ {"FRAME_DONE"} : In(ipc', u) = In(ipc, u)
          /\ In(ipc', "FRAME_DONE") \subseteq In(ipc, "FRAME_DONE")
          /\ cur' = m /\ job' = job
    BY <1>4, FrameTakenBack
  <2>2. In(ipc', c) = In(ipc, c)
    BY <1>1, <2>1
  <2>3. Holds(c, f)' => Holds(c, f)
    BY <2>1, <2>2 DEF Holds
  <2>4. cur'.child = c /\ cur'.frameNum = f => Holds(c, f)
    BY <2>1 DEF Holds
  <2> QED
    BY <2>3, <2>4 DEF Has
<1>5. ASSUME NEW d \in Children, ChildLoad(d) PROVE Has(c, f)
  <2>1. PICK m \in In(ipc, d) :
          /\ m.type = "RENDER_FRAME"
          /\ \A u \in Channels \ {d} : In(ipc', u) = In(ipc, u)
          /\ In(ipc', d) \subseteq In(ipc, d)
          /\ job' = [job EXCEPT ![d] = [child |-> d, frameNum |-> m.frameNum, indexIn |-> m.indexIn]]
          /\ UNCHANGED <<ppc, cur>>
    BY <1>5, FrameTaken
  <2>2. In(ipc', c) \subseteq In(ipc, c) /\ In(ipc', "FRAME_DONE") = In(ipc, "FRAME_DONE")
    BY <1>1, <2>1
  <2>3. job'[c] = job[c] \/ (c = d /\ job'[c].frameNum = m.frameNum)
    BY <1>2, <2>1
  <2>4. Holds(c, f)' => Holds(c, f)
    BY <2>1, <2>2, <2>3 DEF Holds
  <2> QED
    BY <2>1, <2>4 DEF Has
<1>6. ASSUME NEW d \in Children, ChildRender(d) PROVE Has(c, f)
  <2>1. PICK m \in FrameJobs :
          /\ m = job[d] /\ m.child = d
          /\ \A u \in Channels \ {"LOG", "FRAME_DONE"} : In(ipc', u) = In(ipc, u)
          /\ In(ipc', "FRAME_DONE") \subseteq In(ipc, "FRAME_DONE") \cup {m}
          /\ job' = [job EXCEPT ![d] = NoJob]
          /\ UNCHANGED <<ppc, cur>>
    BY <1>6, FrameReturned
  <2>2. In(ipc', c) = In(ipc, c)
    BY <1>1, <2>1
  <2>3. job'[c] = job[c] \/ job'[c].child # c
    BY <1>2, <2>1 DEF NoJob
  <2>4. \A n \in In(ipc', "FRAME_DONE") : n \in In(ipc, "FRAME_DONE") \/ n = job[d]
    BY <2>1
  <2>5. Holds(c, f)' => Holds(c, f)
    BY <2>1, <2>2, <2>3, <2>4 DEF Holds
  <2> QED
    BY <2>1, <2>5 DEF Has
<1>7. CASE Quiet /\ ~OnFrameDone /\ ~(NextFrame /\ ppc' = "videoIn")
  <2>1. /\ FramesTo(ipc', c) = FramesTo(ipc, c) /\ In(ipc', "FRAME_DONE") = In(ipc, "FRAME_DONE")
        /\ job' = job
    BY <1>7 DEF Quiet, SameFrames
  <2>2. Holds(c, f)' => Holds(c, f)
    BY <2>1 DEF Holds, FramesTo
  <2>3. ppc' = "finish" => UNCHANGED <<ppc, cur>>
    BY <1>7, CurSteps
  <2> QED
    BY <2>2, <2>3 DEF Has
<1> QED
  BY <1>3, <1>4, <1>5, <1>6, <1>7, FramesPassed

LEMMA OnceStep == TypeInv /\ OnceInv /\ [Next]_vars => OnceInv'
<1> SUFFICES ASSUME TypeInv, OnceInv, [Next]_vars PROVE OnceInv'
  OBVIOUS
<1>1. PICK off \in {0, 1} :
        /\ \A k \in 1 .. Len(ChildMsgQ') :
             \/ k + off \in 1 .. Len(ChildMsgQ) /\ ChildMsgQ'[k] = ChildMsgQ[k + off]
             \/ ChildMsgQ'[k] = EndMsg
             \/ /\ VideoEnqueue /\ k = Len(ChildMsgQ')
                /\ ChildMsgQ'[k] = [frameNum |-> frameNum, indexIn |-> tailIn]
        /\ NextFrame => off = 1
        /\ Len(ChildMsgQ) \in Nat /\ Len(ChildMsgQ') \in Nat
  BY QueueShifts
<1>2. /\ frameNum \in Nat /\ Queued \in Int /\ Queued' \in Int /\ Queued' >= Queued
      /\ VideoEnqueue => frameNum = Queued + 1 /\ Queued' = Queued + 1
  <2>1. Queued \in Int
    BY VideoSteps DEF Queued
  <2> QED
    BY <2>1, VideoSteps
<1>3. /\ EndMsg.frameNum = -1
      /\ \A k \in 1 .. Len(ChildMsgQ) : /\ ChildMsgQ[k].frameNum \in Int
                                        /\ ChildMsgQ[k] # EndMsg => ChildMsgQ[k].frameNum >= 1
  <2>1. EndMsg.frameNum = -1
    BY DEF EndMsg, EndOfInput
  <2> QED
    BY <2>1, QueueTypes, PipelineAssumption DEF Frames
<1>4. \A k \in 1 .. Len(ChildMsgQ) : ChildMsgQ[k] # EndMsg =>
        /\ ChildMsgQ[k].frameNum <= Queued
        /\ \A l \in 1 .. k - 1 : ChildMsgQ[l].frameNum < ChildMsgQ[k].frameNum
  BY DEF OnceInv
<1>5. ASSUME NEW k \in 1 .. Len(ChildMsgQ'), ChildMsgQ'[k] # EndMsg
      PROVE  /\ ChildMsgQ'[k].frameNum <= Queued'
             /\ \A l \in 1 .. k - 1 : ChildMsgQ'[l].frameNum < ChildMsgQ'[k].frameNum
  <2>1. CASE k + off \in 1 .. Len(ChildMsgQ) /\ ChildMsgQ'[k] = ChildMsgQ[k + off]
    <3>1. PICK p, z : p = k + off /\ z = ChildMsgQ'[k].frameNum /\ z = ChildMsgQ[p].frameNum
                      /\ p \in 1 .. Len(ChildMsgQ) /\ ChildMsgQ[p] # EndMsg
      BY <1>5, <2>1
    <3>2. /\ z \in Int /\ z >= 1 /\ z <= Queued
          /\ \A l \in 1 .. p - 1 : ChildMsgQ[l].frameNum < z
      BY <1>3, <1>4, <3>1
    <3>3. ASSUME NEW l \in 1 .. k - 1 PROVE ChildMsgQ'[l].frameNum < z
      <4>1. l \in 1 .. Len(ChildMsgQ') /\ l # Len(ChildMsgQ') /\ l + off \in 1 .. p - 1
        BY <1>1, <3>1
      <4>2. ChildMsgQ'[l] = EndMsg \/ ChildMsgQ'[l] = ChildMsgQ[l + off]
        BY <1>1, <4>1
      <4>3. CASE ChildMsgQ'[l] = EndMsg
        <5>1. -1 < z
          BY <3>2
        <5> QED
          BY <1>3, <4>3, <5>1
      <4>4. CASE ChildMsgQ'[l] = ChildMsgQ[l + off]
        BY <3>2, <4>1, <4>4
      <4> QED
        BY <4>2, <4>3, <4>4
    <3>4. z <= Queued'
      BY <1>2, <3>2
    <3> QED
      BY <3>1, <3>3, <3>4
  <2>2. CASE VideoEnqueue /\ k = Len(ChildMsgQ')
             /\ ChildMsgQ'[k] = [frameNum |-> frameNum, indexIn |-> tailIn]
    <3>1. ChildMsgQ'[k].frameNum = Queued + 1 /\ Queued' = Queued + 1
      BY <1>2, <2>2
    <3>2. ASSUME NEW l \in 1 .. k - 1 PROVE ChildMsgQ'[l].frameNum < ChildMsgQ'[k].frameNum
      <4>1. l \in 1 .. Len(ChildMsgQ') /\ l # Len(ChildMsgQ')
        BY <1>1, <2>2, <3>2
      <4>2. \/ ChildMsgQ'[l] = EndMsg
            \/ l + off \in 1 .. Len(ChildMsgQ) /\ ChildMsgQ'[l] = ChildMsgQ[l + off]
        BY <1>1, <4>1
      <4>3. CASE ChildMsgQ'[l] = EndMsg
        <5>1. Queued + 1 >= 0
          BY <1>2, <2>2
        <5> QED
          BY <1>2, <1>3, <3>1, <4>3, <5>1
      <4>4. CASE l + off \in 1 .. Len(ChildMsgQ) /\ ChildMsgQ'[l] = ChildMsgQ[l + off]
                 /\ ChildMsgQ[l + off] # EndMsg
        BY <1>2, <1>3, <1>4, <3>1, <4>4
      <4> QED
        BY <4>2, <4>3, <4>4
    <3> QED
      BY <1>2, <3>1, <3>2
  <2> QED
    BY <1>1, <1>5, <2>1, <2>2
<1>6. ASSUME NEW c \in Children, NEW f \in Nat, Has(c, f)'
      PROVE  /\ f <= Queued'
             /\ \A d \in Children : Has(d, f)' => d = c
             /\ \A k \in 1 .. Len(ChildMsgQ') : ChildMsgQ'[k] # EndMsg => f < ChildMsgQ'[k].frameNum
  <2> DEFINE Taken == /\ NextFrame
                      /\ 1 \in 1 .. Len(ChildMsgQ) /\ ChildMsgQ[1] # EndMsg
                      /\ ChildMsgQ[1].frameNum = f
  <2>1. \A d \in Children : Has(d, f)' => Has(d, f) \/ (Taken /\ d = cur.child)
    BY HasMoves
  <2>2. \A d \in Children : Has(d, f) =>
          /\ f <= Queued
          /\ \A e \in Children : Has(e, f) => e = d
          /\ \A k \in 1 .. Len(ChildMsgQ) : ChildMsgQ[k] # EndMsg => f < ChildMsgQ[k].frameNum
    BY DEF OnceInv
  <2>3. Taken => /\ f <= Queued
                 /\ \A d \in Children : ~Has(d, f)
                 /\ \A k \in 2 .. Len(ChildMsgQ) : ChildMsgQ[k] # EndMsg => f < ChildMsgQ[k].frameNum
    <3> SUFFICES ASSUME Taken
                 PROVE  /\ f <= Queued
                        /\ \A d \in Children : ~Has(d, f)
                        /\ \A k \in 2 .. Len(ChildMsgQ) :
                             ChildMsgQ[k] # EndMsg => f < ChildMsgQ[k].frameNum
      OBVIOUS
    <3>1. f <= Queued
      BY <1>4
    <3>2. \A d \in Children : ~Has(d, f)
      BY <2>2
    <3>3. ASSUME NEW k \in 2 .. Len(ChildMsgQ), ChildMsgQ[k] # EndMsg PROVE f < ChildMsgQ[k].frameNum
      <4>1. k \in 1 .. Len(ChildMsgQ) /\ 1 \in 1 .. k - 1
        BY <1>1, <3>3
      <4> QED
        BY <1>4, <3>3, <4>1
    <3> QED
      BY <3>1, <3>2, <3>3
  <2> HIDE DEF Taken
  <2>4. f <= Queued'
    BY <1>2, <1>6, <2>1, <2>2, <2>3
  <2>5. \A d \in Children : Has(d, f)' => d = c
    BY <1>6, <2>1, <2>2, <2>3
  <2>6. ASSUME NEW k \in 1 .. Len(ChildMsgQ'), ChildMsgQ'[k] # EndMsg PROVE f < ChildMsgQ'[k].frameNum
    <3>1. f <= Queued
      BY <1>6, <2>1, <2>2, <2>3
    <3>2. CASE VideoEnqueue /\ ChildMsgQ'[k] = [frameNum |-> frameNum, indexIn |-> tailIn]
      BY <1>2, <3>1, <3>2
    <3>3. CASE k + off \in 1 .. Len(ChildMsgQ) /\ ChildMsgQ'[k] = ChildMsgQ[k + off]
      <4>1. Taken => k + off \in 2 .. Len(ChildMsgQ)
        BY <1>1, <3>3 DEF Taken
      <4> QED
        BY <1>6, <2>1, <2>2, <2>3, <2>6, <3>3, <4>1
    <3> QED
      BY <1>1, <2>6, <3>2, <3>3
  <2> QED
    BY <2>4, <2>5, <2>6
<1> QED
  BY <1>5, <1>6 DEF OnceInv

LEMMA OnceInit == Init => OnceInv
<1> SUFFICES ASSUME Init PROVE OnceInv
  OBVIOUS
<1>1. /\ ppc = "start" /\ 1 .. Len(ChildMsgQ) = {}
      /\ \A t \in Channels : ipc[t] = <<>>
      /\ \A c \in Children : job[c] = NoJob
  BY DEF Init, Channels
<1>2. "FRAME_DONE" \in Channels /\ Children \subseteq Channels
  BY ServerNames DEF Channels
<1>3. \A t \in Channels : In(ipc, t) = {}
  BY <1>1 DEF In
<1>4. \A c \in Children, f \in Nat : ~Has(c, f)
  BY <1>1, <1>2, <1>3, PipelineAssumption DEF Has, Holds, NoJob
<1> QED
  BY <1>1, <1>4 DEF OnceInv

\* No frame is handed out twice: the frames in ChildMsgQ are in order and without
\* repetition, no two children have one frame, and no child has one that is
\* still queued, for any number of children, any film and any ring, and also when
\* messages are lost and children die with a frame.
THEOREM EachFrameOnce == Spec => []OnceInv
<1>1. TypeInv /\ OnceInv /\ [Next]_vars => OnceInv'
  BY OnceStep
<1> QED
  BY <1>1, OnceInit, TypesHold, PTL DEF Spec
-----------------------------------------------------------------------------
\* In its first lap frame f is decoded into slot f - 1.
LEMMA LapSlots ==
  /\ frameCountIn \in Nat /\ frameCountIn >= 5
  /\ \A s \in Slots : s \in Int /\ s >= 0 /\ s < frameCountIn
  /\ \A f \in 1 .. frameCountIn : f - 1 \in Slots /\ (f - 1) % frameCountIn = f - 1
<1>1. frameCountIn \in Nat /\ frameCountIn >= 5
  BY RingSize
<1>2. \A n \in Nat : n >= 5 => \A f \in 1 .. n : (f - 1) % n = f - 1
  OBVIOUS
<1> QED
  BY <1>1, <1>2 DEF Slots

LEMMA VideoLapStep ==
  ASSUME TypeInv, VideoLap, FirstLap', [Next]_vars
  PROVE  VideoLap'
<1>1. /\ frameNum \in Nat /\ frameNum' \in Nat
      /\ \/ VideoDecode \/ VideoAdvance
         \/ /\ UNCHANGED <<tailIn, frameIn, frameNum, Advanced>>
            /\ vpc' \in {"mark", "enqueue", "advance"} => vpc \in {"mark", "enqueue", "advance"}
  BY VideoSteps
<1>2. frameNum' <= frameCountIn /\ frameIn \in [Slots -> Frames \cup {0}]
  BY DEF FirstLap, TypeInv, TypeOK
<1>3. /\ tailIn = Advanced % frameCountIn
      /\ vpc \in {"mark", "enqueue", "advance"} => frameNum >= 1
      /\ \A f \in 1 .. frameNum : frameIn[f - 1] = f
  BY DEF VideoLap
<1>4. CASE VideoDecode
  <2>1. vpc = "decode" /\ tailIn' = tailIn
    BY <1>4 DEF VideoDecode, ringVars
  <2>2. Advanced = frameNum
    BY <2>1 DEF Advanced
  <2>3. CASE frameNum' = frameNum + 1 /\ frameIn' = [frameIn EXCEPT ![tailIn] = frameNum + 1] /\ vpc' = "mark"
    <3>1. Advanced' = frameNum
      BY <1>1, <2>3 DEF Advanced
    <3>2. frameNum + 1 \in 1 .. frameCountIn
      BY <1>1, <1>2, <2>3
    <3>3. frameNum \in Slots /\ frameNum % frameCountIn = frameNum
      <4>1. (frameNum + 1) - 1 = frameNum
        BY <1>1
      <4> QED
        BY <3>2, <4>1, LapSlots
    <3>4. frameIn' = [frameIn EXCEPT ![frameNum] = frameNum + 1]
      BY <1>3, <2>2, <2>3, <3>3
    <3>5. ASSUME NEW f \in 1 .. frameNum' PROVE frameIn'[f - 1] = f
      <4>1. CASE f = frameNum + 1
        <5>1. f - 1 = frameNum
          BY <1>1, <4>1
        <5> QED
          BY <1>2, <3>3, <3>4, <4>1, <5>1
      <4>2. CASE f \in 1 .. frameNum
        <5>1. f \in 1 .. frameCountIn /\ f - 1 # frameNum
          BY <1>1, <3>2, <4>2, LapSlots
        <5>2. f - 1 \in Slots
          BY <5>1, LapSlots
        <5> QED
          BY <1>2, <1>3, <3>4, <4>2, <5>1, <5>2
      <4> QED
        BY <1>1, <2>3, <4>1, <4>2
    <3>6. frameNum' >= 1 /\ tailIn' = Advanced' % frameCountIn
      BY <1>1, <1>3, <2>1, <2>2, <2>3, <3>1
    <3> QED
      BY <3>5, <3>6 DEF VideoLap
  <2>4. CASE UNCHANGED <<frameNum, frameIn>> /\ vpc' = "eof"
    <3>1. Advanced' = frameNum
      BY <2>4 DEF Advanced
    <3> QED
      BY <1>3, <2>1, <2>2, <2>4, <3>1 DEF VideoLap
  <2> QED
    BY <1>4, <2>3, <2>4 DEF VideoDecode
<1>5. CASE VideoAdvance
  <2>1. /\ vpc = "advance" /\ vpc' = "check" /\ UNCHANGED <<frameNum, frameIn>>
        /\ tailIn' = (tailIn + 1) % frameCountIn
    BY <1>5 DEF VideoAdvance
  <2>2. Advanced = frameNum - 1 /\ Advanced' = frameNum
    BY <2>1 DEF Advanced
  <2>3. frameNum \in 1 .. frameCountIn
    BY <1>1, <1>2, <1>3, <2>1, LapSlots
  <2>4. tailIn = frameNum - 1
    BY <1>3, <2>2, <2>3, LapSlots
  <2>5. tailIn + 1 = frameNum
    BY <1>1, <2>4
  <2> QED
    BY <1>3, <2>1, <2>2, <2>5 DEF VideoLap
<1> QED
  BY <1>1, <1>3, <1>4, <1>5 DEF VideoLap

LEMMA QueueLapStep ==
  ASSUME TypeInv, VideoLap, QueueLap, FirstLap, [Next]_vars
  PROVE  QueueLap'
<1>1. PICK off \in {0, 1} :
        \A k \in 1 .. Len(ChildMsgQ') :
          \/ k + off \in 1 .. Len(ChildMsgQ) /\ ChildMsgQ'[k] = ChildMsgQ[k + off]
          \/ ChildMsgQ'[k] = EndMsg
          \/ /\ VideoEnqueue /\ k = Len(ChildMsgQ')
             /\ ChildMsgQ'[k] = [frameNum |-> frameNum, indexIn |-> tailIn]
  BY QueueShifts
<1>2. frameNum \in Nat /\ frameNum' \in Nat /\ frameNum' >= frameNum
  BY VideoSteps
<1> SUFFICES ASSUME NEW k \in 1 .. Len(ChildMsgQ'), ChildMsgQ'[k] # EndMsg
             PROVE  Decoded(ChildMsgQ'[k], frameNum')
  BY DEF QueueLap
<1>3. CASE k + off \in 1 .. Len(ChildMsgQ) /\ ChildMsgQ'[k] = ChildMsgQ[k + off]
  <2>1. PICK m : m = ChildMsgQ'[k] /\ Decoded(m, frameNum)
    BY <1>3 DEF QueueLap
  <2> QED
    BY <1>2, <2>1 DEF Decoded
<1>4. CASE VideoEnqueue /\ ChildMsgQ'[k] = [frameNum |-> frameNum, indexIn |-> tailIn]
  <2>1. vpc = "enqueue" /\ frameNum' = frameNum
    BY <1>4 DEF VideoEnqueue
  <2>2. tailIn = (frameNum - 1) % frameCountIn /\ frameNum >= 1 /\ frameNum <= frameCountIn
    BY <2>1 DEF VideoLap, Advanced, FirstLap
  <2>3. tailIn = frameNum - 1
    BY <1>2, <2>2, LapSlots
  <2>4. ChildMsgQ'[k].frameNum = frameNum /\ ChildMsgQ'[k].indexIn = tailIn
    BY <1>4
  <2> QED
    BY <1>2, <2>1, <2>2, <2>3, <2>4 DEF Decoded
<1> QED
  BY <1>1, <1>3, <1>4

LEMMA ChildLapStep ==
  ASSUME TypeInv, VideoLap, QueueLap, ChildLap, FirstLap, [Next]_vars
  PROVE  ChildLap'
<1>1. /\ "FRAME_DONE" \in Channels \ {"LOG"} /\ "FRAME_DONE" \notin Children
      /\ \A d \in Children : d \in Channels \ {"LOG", "FRAME_DONE"}
  BY ServerNames DEF Channels
<1>2. /\ job \in [Children -> Jobs] /\ picture \in [Children -> Frames \cup {0}]
      /\ cpc \in [Children -> {"unborn", "init", "wait", "loaded", "exited"}]
      /\ frameOut \in [Slots -> Frames \cup {0}]
      /\ \A c \in Children : cpc[c] = "loaded" => job[c].child = c
  BY DEF TypeInv, TypeOK, WorkTypes
<1>3. \A m : Decoded(m, frameNum) => Decoded(m, frameNum')
  <2>1. frameNum \in Nat /\ frameNum' \in Nat /\ frameNum' >= frameNum
    BY VideoSteps
  <2> QED
    BY <2>1 DEF Decoded
<1>4. /\ ppc \in {"finish", "videoIn"} => Decoded(cur, frameNum)
      /\ \A c \in Children :
           /\ \A m \in FramesTo(ipc, c) : Decoded(m, frameNum)
           /\ job[c].child = c => Decoded(job[c], frameNum)
           /\ cpc[c] = "loaded" => picture[c] = job[c].frameNum
      /\ \A m \in In(ipc, "FRAME_DONE") : Decoded(m, frameNum) /\ frameOut[m.indexIn] = m.frameNum
  BY DEF ChildLap
<1>5. ASSUME UNCHANGED <<ppc, cur>> \/ ppc' \notin {"finish", "videoIn"}
      PROVE  ppc' \in {"finish", "videoIn"} => Decoded(cur', frameNum')
  BY <1>3, <1>4, <1>5
<1>6. CASE NextFrame /\ ppc' = "videoIn"
  <2>1. PICK d \in Children, m \in ToChild :
          /\ m.frameNum = cur'.frameNum /\ m.indexIn = cur'.indexIn
          /\ 1 \in 1 .. Len(ChildMsgQ) /\ ChildMsgQ[1] # EndMsg
          /\ ChildMsgQ[1].frameNum = m.frameNum /\ ChildMsgQ[1].indexIn = m.indexIn
          /\ \A u \in Channels \ {d} : In(ipc', u) = In(ipc, u)
          /\ In(ipc', d) \subseteq In(ipc, d) \cup {m}
          /\ UNCHANGED <<frameOut, cpc, picture, job>>
    BY <1>6, FrameGiven
  <2>2. Decoded(m, frameNum') /\ Decoded(cur', frameNum')
    <3>1. Decoded(m, frameNum)
      BY <2>1 DEF QueueLap, Decoded
    <3>2. Decoded(m, frameNum')
      BY <1>3, <3>1
    <3> QED
      BY <2>1, <3>2 DEF Decoded
  <2>3. ASSUME NEW c \in Children, NEW n \in FramesTo(ipc', c) PROVE Decoded(n, frameNum')
    <3>1. n \in FramesTo(ipc, c) \/ n = m
      BY <1>1, <2>1 DEF FramesTo
    <3> QED
      BY <1>3, <1>4, <2>2, <3>1
  <2>4. In(ipc', "FRAME_DONE") = In(ipc, "FRAME_DONE")
    BY <1>1, <2>1
  <2>5. \A c \in Children : job'[c].child = c => Decoded(job'[c], frameNum')
    BY <1>3, <1>4, <2>1
  <2>6. \A n \in In(ipc', "FRAME_DONE") : Decoded(n, frameNum') /\ frameOut'[n.indexIn] = n.frameNum
    BY <1>3, <1>4, <2>1, <2>4
  <2> QED
    BY <1>4, <2>1, <2>2, <2>3, <2>5, <2>6 DEF ChildLap
<1>7. CASE OnFrameDone
  <2>1. PICK m \in FrameJobs :
          /\ m \in In(ipc, "FRAME_DONE")
          /\ \A u \in Channels \ {"FRAME_DONE"} : In(ipc', u) = In(ipc, u)
          /\ In(ipc', "FRAME_DONE") \subseteq In(ipc, "FRAME_DONE")
          /\ cur' = m
          /\ UNCHANGED <<frameOut, cpc, job, picture>>
    BY <1>7, FrameTakenBack
  <2>2. Decoded(cur', frameNum')
    BY <1>3, <1>4, <2>1
  <2>3. \A c \in Children : FramesTo(ipc', c) = FramesTo(ipc, c)
    BY <1>1, <2>1 DEF FramesTo
  <2>4. \A c \in Children : /\ \A n \in FramesTo(ipc', c) : Decoded(n, frameNum')
                            /\ job'[c].child = c => Decoded(job'[c], frameNum')
    BY <1>3, <1>4, <2>1, <2>3
  <2>5. \A n \in In(ipc', "FRAME_DONE") : Decoded(n, frameNum') /\ frameOut'[n.indexIn] = n.frameNum
    BY <1>3, <1>4, <2>1
  <2> QED
    BY <1>4, <2>1, <2>2, <2>4, <2>5 DEF ChildLap
<1>8. ASSUME NEW c \in Children, ChildLoad(c) PROVE ChildLap'
  <2>1. PICK m \in In(ipc, c) :
          /\ m.type = "RENDER_FRAME"
          /\ \A u \in Channels \ {c} : In(ipc', u) = In(ipc, u)
          /\ In(ipc', c) \subseteq In(ipc, c)
          /\ job' = [job EXCEPT ![c] = [child |-> c, frameNum |-> m.frameNum, indexIn |-> m.indexIn]]
          /\ picture' = [picture EXCEPT ![c] = frameIn[m.indexIn]]
          /\ cpc' = [cpc EXCEPT ![c] = "loaded"]
          /\ UNCHANGED <<frameOut, ppc, cur>>
    BY <1>8, FrameTaken
  <2>2. Decoded(m, frameNum) /\ Decoded(m, frameNum')
    BY <1>3, <1>4, <2>1 DEF FramesTo
  <2>3. frameIn[m.indexIn] = m.frameNum
    BY <2>2 DEF Decoded, VideoLap
  <2>4. /\ job'[c].frameNum = m.frameNum /\ job'[c].indexIn = m.indexIn /\ picture'[c] = m.frameNum
        /\ \A d \in Children \ {c} : job'[d] = job[d] /\ picture'[d] = picture[d] /\ cpc'[d] = cpc[d]
    BY <1>2, <2>1, <2>3
  <2>5. \A d \in Children : job'[d].child = d => Decoded(job'[d], frameNum')
    <3>1. Decoded(job'[c], frameNum')
      BY <2>2, <2>4 DEF Decoded
    <3> QED
      BY <1>3, <1>4, <2>4, <3>1
  <2>6. \A d \in Children : cpc'[d] = "loaded" => picture'[d] = job'[d].frameNum
    BY <1>4, <2>4
  <2>7. \A d \in Children : FramesTo(ipc', d) \subseteq FramesTo(ipc, d)
    BY <1>1, <2>1 DEF FramesTo
  <2>8. In(ipc', "FRAME_DONE") = In(ipc, "FRAME_DONE")
    BY <1>1, <2>1
  <2>9. \A d \in Children : \A n \in FramesTo(ipc', d) : Decoded(n, frameNum')
    BY <1>3, <1>4, <2>7
  <2>10. \A n \in In(ipc', "FRAME_DONE") : Decoded(n, frameNum') /\ frameOut'[n.indexIn] = n.frameNum
    BY <1>3, <1>4, <2>1, <2>8
  <2> QED
    BY <1>5, <2>1, <2>5, <2>6, <2>9, <2>10 DEF ChildLap
<1>9. ASSUME NEW c \in Children, ChildRender(c) PROVE ChildLap'
  <2>1. PICK m \in FrameJobs :
          /\ m = job[c] /\ m.child = c /\ m.indexIn \in Slots
          /\ \A u \in Channels \ {"LOG", "FRAME_DONE"} : In(ipc', u) = In(ipc, u)
          /\ In(ipc', "FRAME_DONE") \subseteq In(ipc, "FRAME_DONE") \cup {m}
          /\ frameOut' = [frameOut EXCEPT ![m.indexIn] = picture[c]]
          /\ job' = [job EXCEPT ![c] = NoJob]
          /\ picture' = [picture EXCEPT ![c] = 0]
          /\ cpc[c] = "loaded" /\ cpc' = [cpc EXCEPT ![c] = "wait"]
          /\ UNCHANGED <<ppc, cur>>
    BY <1>9, FrameReturned
  <2>2. Decoded(m, frameNum) /\ picture[c] = m.frameNum
    BY <1>4, <2>1
  <2>3. /\ job'[c].child # c /\ cpc'[c] # "loaded"
        /\ \A d \in Children \ {c} : job'[d] = job[d] /\ picture'[d] = picture[d] /\ cpc'[d] = cpc[d]
    BY <1>2, <2>1, PipelineAssumption DEF NoJob
  <2>4. \A d \in Children : FramesTo(ipc', d) = FramesTo(ipc, d)
    BY <1>1, <2>1 DEF FramesTo
  <2>5. ASSUME NEW n \in In(ipc', "FRAME_DONE") PROVE Decoded(n, frameNum') /\ frameOut'[n.indexIn] = n.frameNum
    <3>1. Decoded(n, frameNum) /\ (n = m \/ frameOut[n.indexIn] = n.frameNum)
      BY <1>4, <2>1, <2>2
    <3>2. n.indexIn = m.indexIn => n.frameNum = m.frameNum
      BY <2>2, <3>1, VideoSteps DEF Decoded
    <3>3. n.indexIn = m.indexIn => frameOut'[n.indexIn] = m.frameNum
      BY <1>2, <2>1, <2>2
    <3>4. n.indexIn # m.indexIn => frameOut'[n.indexIn] = frameOut[n.indexIn]
      BY <1>2, <2>1
    <3> QED
      BY <1>3, <3>1, <3>2, <3>3, <3>4
  <2>6. \A d \in Children : /\ \A n \in FramesTo(ipc', d) : Decoded(n, frameNum')
                            /\ job'[d].child = d => Decoded(job'[d], frameNum')
                            /\ cpc'[d] = "loaded" => picture'[d] = job'[d].frameNum
    BY <1>3, <1>4, <2>3, <2>4
  <2> QED
    BY <1>5, <2>1, <2>5, <2>6 DEF ChildLap
<1>10. CASE Quiet /\ ~OnFrameDone /\ ~(NextFrame /\ ppc' = "videoIn")
  <2>1. /\ \A c \in Children : FramesTo(ipc', c) = FramesTo(ipc, c)
        /\ In(ipc', "FRAME_DONE") = In(ipc, "FRAME_DONE")
        /\ UNCHANGED <<job, picture, frameOut>>
        /\ \A c \in Children : cpc'[c] = "loaded" => cpc[c] = "loaded"
    BY <1>10 DEF Quiet, SameFrames
  <2>2. UNCHANGED <<ppc, cur>> \/ ppc' \notin {"finish", "videoIn"}
    BY <1>10, CurSteps
  <2>3. \A c \in Children : /\ \A n \in FramesTo(ipc', c) : Decoded(n, frameNum')
                            /\ job'[c].child = c => Decoded(job'[c], frameNum')
                            /\ cpc'[c] = "loaded" => picture'[c] = job'[c].frameNum
    BY <1>3, <1>4, <2>1
  <2>4. \A n \in In(ipc', "FRAME_DONE") : Decoded(n, frameNum') /\ frameOut'[n.indexIn] = n.frameNum
    BY <1>3, <1>4, <2>1
  <2> QED
    BY <1>5, <2>2, <2>3, <2>4 DEF ChildLap
<1> QED
  BY <1>6, <1>7, <1>8, <1>9, <1>10, FramesPassed
LEMMA FilesLapStep ==
  ASSUME TypeInv, VideoLap, ChildLap, FilesShowTheirFrame, [Next]_vars
  PROVE  FilesShowTheirFrame'
<1> USE DEF ringVars, videoVars, mainVars, childVars, fileVars
<1>1. inFile \in [Frames -> Frames \cup {0}] /\ outFile \in [Frames -> Frames \cup {0}]
  BY DEF TypeInv, TypeOK
<1>2. CASE VideoIn
  <2>1. /\ inFile' = [inFile EXCEPT ![cur.frameNum] = frameIn[cur.indexIn]] /\ outFile' = outFile
        /\ ppc = "videoIn"
    BY <1>2 DEF VideoIn
  <2>2. frameIn[cur.indexIn] = cur.frameNum
    BY <2>1 DEF ChildLap, VideoLap, Decoded
  <2> QED
    BY <1>1, <2>1, <2>2 DEF FilesShowTheirFrame
<1>3. CASE OnFrameDone
  <2>1. PICK m \in FrameJobs :
          /\ m \in In(ipc, "FRAME_DONE") /\ inFile' = inFile
          /\ outFile' = [outFile EXCEPT ![m.frameNum] = frameOut[m.indexIn]]
    BY <1>3, FrameTakenBack
  <2>2. frameOut[m.indexIn] = m.frameNum
    BY <2>1 DEF ChildLap
  <2> QED
    BY <1>1, <2>1, <2>2 DEF FilesShowTheirFrame
<1>4. CASE UNCHANGED <<inFile, outFile>>
  BY <1>4 DEF FilesShowTheirFrame
<1> QED
  BY <1>2, <1>3, <1>4 DEF Next, VideoInThread, VideoStart, VideoCheck, VideoDecode, VideoMark,
     VideoEnqueue, VideoAdvance, VideoEnd, Main, AwaitVideo, Fork, OnOther, OnReady, OnRenderReady,
     VideoFinished, VideoFinishedScan, VideoFinishedWrap, NextFrame, PutBack, ParentExit,
     Child, ChildInit, ChildRenderMode, ChildLoad, ChildRender, ChildExit, ChildDie, Ended, vars

LEMMA LapInit == Init => LapInv
<1> SUFFICES ASSUME Init PROVE VideoLap /\ QueueLap /\ ChildLap /\ FilesShowTheirFrame
  BY DEF LapInv
<1>1. /\ vpc = "init" /\ frameNum = 0 /\ ppc = "start" /\ 1 .. Len(ChildMsgQ) = {} /\ tailIn = 0
      /\ \A t \in Channels : ipc[t] = <<>>
      /\ \A c \in Children : cpc[c] = "unborn" /\ job[c] = NoJob
  BY DEF Init, Channels
<1>2. "FRAME_DONE" \in Channels /\ Children \subseteq Channels
  BY ServerNames DEF Channels
<1>3. \A t \in Channels : In(ipc, t) = {}
  BY <1>1 DEF In
<1>4. VideoLap
  <2>1. Advanced = 0 /\ 0 % frameCountIn = 0 /\ 1 .. 0 = {}
    BY <1>1, LapSlots DEF Advanced
  <2> QED
    BY <1>1, <2>1 DEF VideoLap
<1>5. ChildLap
  BY <1>1, <1>2, <1>3, PipelineAssumption DEF ChildLap, FramesTo, NoJob
<1>6. FilesShowTheirFrame
  BY DEF Init, FilesShowTheirFrame
<1> QED
  BY <1>1, <1>4, <1>5, <1>6 DEF QueueLap

LEMMA LapStep == TypeInv /\ LapInv /\ [Next]_vars => LapInv'
<1> SUFFICES ASSUME TypeInv, LapInv, [Next]_vars, FirstLap'
             PROVE  VideoLap' /\ QueueLap' /\ ChildLap' /\ FilesShowTheirFrame'
  BY DEF LapInv
<1>1. FirstLap
  BY VideoSteps, RingSize DEF FirstLap
<1>2. VideoLap /\ QueueLap /\ ChildLap /\ FilesShowTheirFrame
  BY <1>1 DEF LapInv
<1> QED
  BY <1>1, <1>2, VideoLapStep, QueueLapStep, ChildLapStep, FilesLapStep

LEMMA LapHolds == Spec => [](TypeInv /\ LapInv)
BY LapInit, LapStep, TypesHold, PTL DEF Spec

\* With any number of cards, a child loads the picture of the frame its message
\* names as long as the ring has not wrapped: what run pipeline_race finds takes a
\* frame more than the ring has slots.  It holds for every film, also when
\* messages are lost and children die with a frame.
THEOREM FirstLapLoads == Spec => [](FirstLap => LoadsItsFrame)
<1>1. TypeInv /\ LapInv => (FirstLap => LoadsItsFrame)
  BY DEF LapInv, ChildLap, LoadsItsFrame
<1> QED
  BY <1>1, LapHolds, PTL

\* Nor does a saved file show another frame than the one it is named after, for
\* any number of cards, before the ring wraps.
THEOREM FirstLapFiles == Spec => [](FirstLap => FilesShowTheirFrame)
<1>1. TypeInv /\ LapInv => (FirstLap => FilesShowTheirFrame)
  BY DEF LapInv
<1> QED
  BY <1>1, LapHolds, PTL
-----------------------------------------------------------------------------
\* While main handles a message of a child, the child has no frame.
LEMMA ServedHasNone ==
  ASSUME TypeInv, TurnInv, HeldInv, NEW c \in Children, ppc \in Serving, cur.child = c
  PROVE  cpc[c] = "wait" /\ \A f : ~Holds(c, f)
<1>1. Served(c)
  BY DEF Served
<1>2. PICK p \in Places : \A other \in Places : At(c, other) <=> other = p
  BY DEF TurnInv, OneTurn
<1>3. cpc[c] = "wait" /\ ~From(ipc, c, c) /\ ~From(ipc, "FRAME_DONE", c)
  BY <1>1, <1>2 DEF At, Places
<1>4. c \notin Server /\ "FRAME_DONE" \notin Children
  BY ServerNames DEF Channels
<1>5. In(ipc, c) = {} /\ \A m \in In(ipc, "FRAME_DONE") : m.child # c
  BY <1>3, <1>4 DEF From, In, Owner
<1>6. job[c].child # c
  BY <1>3, PipelineAssumption DEF HeldInv, NoJob
<1> QED
  BY <1>3, <1>5, <1>6 DEF Holds

\* With room in the System V queue a child keeps its frame until main has
\* released the slot.
LEMMA HasStays ==
  ASSUME TypeInv, TurnInv, HeldInv, Room, [Next]_vars, NEW c \in Children, NEW f, Has(c, f)
  PROVE  Has(c, f)' \/ (VideoFinished /\ cur.child = c /\ cur.frameNum = f)
<1> USE DEF ringVars, videoVars, mainVars, childVars, fileVars
<1>1. /\ "FRAME_DONE" \in Channels \ {"LOG"} /\ "FRAME_DONE" \notin Children
      /\ \A d \in Children : d \in Channels \ {"LOG", "FRAME_DONE"}
  BY ServerNames DEF Channels
<1>2. /\ job \in [Children -> Jobs] /\ Nobody \notin Children
      /\ \A d \in Children : cpc[d] = "wait" => job[d].child # d
  <2>1. job \in [Children -> Jobs] /\ Nobody \notin Children
    BY PipelineAssumption DEF TypeInv, TypeOK
  <2>2. \A d \in Children : cpc[d] = "wait" => job[d] = NoJob
    BY DEF HeldInv
  <2> QED
    BY <2>1, <2>2 DEF NoJob
<1>3. CASE NextFrame /\ ppc' = "videoIn"
  <2>1. PICK d \in Children, m \in ToChild :
          /\ \A u \in Channels \ {d} : In(ipc', u) = In(ipc, u)
          /\ In(ipc, d) \subseteq In(ipc', d)
          /\ job' = job
    BY <1>3, FrameGiven
  <2>2. In(ipc, c) \subseteq In(ipc', c) /\ In(ipc', "FRAME_DONE") = In(ipc, "FRAME_DONE")
    BY <1>1, <2>1
  <2>3. ppc # "finish"
    BY <1>3, CurSteps
  <2> QED
    BY <2>1, <2>2, <2>3 DEF Has, Holds
<1>4. CASE OnFrameDone
  <2>1. PICK m \in FrameJobs :
          /\ \A u \in Channels \ {"FRAME_DONE"} : In(ipc', u) = In(ipc, u)
          /\ In(ipc, "FRAME_DONE") \subseteq In(ipc', "FRAME_DONE") \cup {m}
          /\ ppc' = "finish" /\ cur' = m /\ job' = job
    BY <1>4, FrameTakenBack
  <2>2. In(ipc', c) = In(ipc, c) /\ ppc # "finish"
    BY <1>1, <1>4, <2>1, CurSteps
  <2>3. \A n \in In(ipc, "FRAME_DONE") : n \in In(ipc', "FRAME_DONE") \/ n = cur'
    BY <2>1
  <2> QED
    BY <2>1, <2>2, <2>3 DEF Has, Holds
<1>5. ASSUME NEW d \in Children, ChildLoad(d) PROVE Has(c, f)'
  <2>1. PICK m \in In(ipc, d) :
          /\ m.type = "RENDER_FRAME"
          /\ \A u \in Channels \ {d} : In(ipc', u) = In(ipc, u)
          /\ In(ipc, d) \subseteq In(ipc', d) \cup {m}
          /\ job' = [job EXCEPT ![d] = [child |-> d, frameNum |-> m.frameNum, indexIn |-> m.indexIn]]
          /\ cpc[d] = "wait"
          /\ UNCHANGED <<ppc, cur>>
    BY <1>5, FrameTaken
  <2>2. In(ipc', "FRAME_DONE") = In(ipc, "FRAME_DONE")
    BY <1>1, <2>1
  <2>3. \A n \in In(ipc, c) : n \in In(ipc', c) \/ (c = d /\ n = m)
    BY <1>1, <2>1
  <2>4. /\ c # d => job'[c] = job[c]
        /\ c = d => job[c].child # c /\ job'[c].child = c /\ job'[c].frameNum = m.frameNum
    BY <1>2, <2>1
  <2>5. Holds(c, f) => Holds(c, f)'
    BY <2>2, <2>3, <2>4 DEF Holds
  <2> QED
    BY <2>1, <2>5 DEF Has
<1>6. ASSUME NEW d \in Children, ChildRender(d) PROVE Has(c, f)'
  <2>1. PICK m \in FrameJobs :
          /\ m = job[d] /\ m.child = d
          /\ \A u \in Channels \ {"LOG", "FRAME_DONE"} : In(ipc', u) = In(ipc, u)
          /\ In(ipc, "FRAME_DONE") \subseteq In(ipc', "FRAME_DONE")
          /\ m \in In(ipc', "FRAME_DONE")
          /\ job' = [job EXCEPT ![d] = NoJob]
          /\ UNCHANGED <<ppc, cur>>
    BY <1>6, FrameReturned
  <2>2. In(ipc', c) = In(ipc, c)
    BY <1>1, <2>1
  <2>3. job'[c] = job[c] \/ job[c] \in In(ipc', "FRAME_DONE")
    BY <1>2, <2>1
  <2>4. Holds(c, f) => Holds(c, f)'
    BY <2>1, <2>2, <2>3 DEF Holds
  <2> QED
    BY <2>1, <2>4 DEF Has
<1>7. CASE Quiet
  <2>1. /\ FramesTo(ipc', c) = FramesTo(ipc, c) /\ In(ipc', "FRAME_DONE") = In(ipc, "FRAME_DONE")
        /\ job' = job
    BY <1>7 DEF Quiet, SameFrames
  <2>2. Holds(c, f) => Holds(c, f)'
    BY <2>1 DEF Holds, FramesTo
  <2>3. CASE ppc = "finish" /\ cur.child = c /\ cur.frameNum = f
    <3>1. ~ParentExit
      <4>1. cpc[c] = "wait"
        BY <2>3, ServedHasNone DEF Serving
      <4> QED
        BY <4>1 DEF ParentExit
    <3> QED
      BY <2>3, <3>1, CurSteps DEF Has
  <2> QED
    BY <2>2, <2>3 DEF Has
<1> QED
  BY <1>3, <1>4, <1>5, <1>6, <1>7, FramesPassed

\* A frame in ChildMsgQ stays there until main gives it to a child.
LEMMA QueueStays ==
  ASSUME TypeInv, Room, [Next]_vars, NEW f \in Nat, InQueue(f)
  PROVE  InQueue(f)' \/ \E c \in Children : Has(c, f)'
<1>1. ChildMsgQ \in Seq(FrameMsgs \cup {EndMsg}) /\ Len(ChildMsgQ) \in Nat
  BY QueueTypes
<1>2. PICK k \in 1 .. Len(ChildMsgQ) : ChildMsgQ[k].frameNum = f
  BY DEF InQueue
<1>3. ChildMsgQ[k] # EndMsg
  BY <1>2 DEF EndMsg, EndOfInput
<1>4. ASSUME NEW m \in FrameMsgs \cup {EndMsg}, ChildMsgQ' = Append(ChildMsgQ, m) PROVE InQueue(f)'
  <2> DEFINE S == FrameMsgs \cup {EndMsg}
  <2>1. PICK q : q = ChildMsgQ' /\ q = Append(ChildMsgQ, m)
    BY <1>4
  <2>2. ChildMsgQ \in Seq(S) /\ m \in S
    BY <1>1, <1>4
  <2> HIDE DEF S
  <2>3. Len(q) = Len(ChildMsgQ) + 1 /\ \A h \in 1 .. Len(ChildMsgQ) : q[h] = ChildMsgQ[h]
    BY <2>1, <2>2, AppendElements
  <2>4. k \in 1 .. Len(q) /\ q[k].frameNum = f
    BY <1>1, <1>2, <2>3
  <2> QED
    BY <2>1, <2>4 DEF InQueue
<1>5. CASE NextFrame
  <2>1. PICK q : q = ChildMsgQ' /\ q = Tail(ChildMsgQ) /\ ChildMsgQ # <<>>
    BY <1>5 DEF NextFrame
  <2>2. /\ Len(q) \in Nat /\ Len(ChildMsgQ) = Len(q) + 1 /\ ChildMsgQ[1] = Head(ChildMsgQ)
        /\ \A h \in 1 .. Len(q) : q[h] = ChildMsgQ[h + 1]
    BY <1>1, <2>1, TailElements
  <2>3. CASE k # 1
    <3>1. k - 1 \in 1 .. Len(q) /\ (k - 1) + 1 = k
      BY <2>2, <2>3
    <3>2. q[k - 1].frameNum = f
      BY <1>2, <2>2, <3>1
    <3> QED
      BY <2>1, <3>1, <3>2 DEF InQueue
  <2>4. CASE k = 1
    <3>1. Head(ChildMsgQ).frameNum = f /\ f # EndOfInput
      BY <1>2, <2>2, <2>4 DEF EndOfInput
    <3>2. ppc' = "videoIn"
      BY <1>5, <3>1 DEF NextFrame
    <3>3. PICK d \in Children, m \in ToChild :
            /\ m.type = "RENDER_FRAME" /\ ChildMsgQ[1].frameNum = m.frameNum
            /\ Pending(ipc) < IpcCap => m \in In(ipc', d)
      BY <1>5, <3>2, FrameGiven
    <3>4. Pending(ipc) < IpcCap
      BY RoomNow
    <3>5. Has(d, f)'
      BY <1>2, <2>4, <3>3, <3>4 DEF Has, Holds
    <3> QED
      BY <3>5
  <2> QED
    BY <2>3, <2>4
<1>6. CASE ChildMsgQ' = ChildMsgQ
  BY <1>6 DEF InQueue
<1>7. CASE VideoEnqueue /\ ChildMsgQ' = Append(ChildMsgQ, [frameNum |-> frameNum, indexIn |-> tailIn])
  <2>1. vpc = "enqueue" /\ frameNum \in 0 .. NumFrames /\ tailIn \in Slots /\ frameNum >= 1
    BY <1>7 DEF VideoEnqueue, TypeInv, TypeOK, WorkTypes
  <2>2. [frameNum |-> frameNum, indexIn |-> tailIn] \in FrameMsgs
    BY <2>1, PipelineAssumption DEF FrameMsgs, Frames
  <2> QED
    BY <1>4, <1>7, <2>2
<1>8. CASE ChildMsgQ' = Append(ChildMsgQ, EndMsg)
  BY <1>4, <1>8
<1> QED
  BY <1>5, <1>6, <1>7, <1>8, QueueSteps

\* The steps of used[], and those at which the video thread comes to count a slot.
LEMMA UsedSteps ==
  ASSUME TypeInv, [Next]_vars
  PROVE  /\ VideoMark \/ VideoFinished \/ used' = used
         /\ vpc' = "enqueue" => (VideoMark /\ frameNum' = frameNum) \/ UNCHANGED <<vpc, frameNum>>
         /\ vpc = "enqueue" => VideoEnqueue \/ UNCHANGED <<vpc, frameNum>>
<1> USE DEF ringVars, videoVars, mainVars, childVars, fileVars
<1>1. CASE VideoMark
  <2>1. vpc = "mark" /\ frameNum' = frameNum
    BY <1>1 DEF VideoMark
  <2> QED
    BY <1>1, <2>1
<1>2. CASE VideoEnqueue
  <2>1. vpc' = "advance" /\ used' = used
    BY <1>2 DEF VideoEnqueue
  <2> QED
    BY <1>2, <2>1
<1>3. CASE VideoStart \/ VideoCheck \/ VideoDecode \/ VideoAdvance \/ VideoEnd
  <2>1. vpc # "enqueue" /\ vpc' # "enqueue" /\ used' = used
    BY <1>3 DEF VideoStart, VideoCheck, VideoDecode, VideoAdvance, VideoEnd
  <2> QED
    BY <2>1
<1>4. CASE VideoFinished
  BY <1>4 DEF VideoFinished
<1>5. CASE UNCHANGED <<used, vpc, frameNum>>
  BY <1>5
<1>6. CASE Main
  BY <1>4, <1>5, <1>6 DEF Main, AwaitVideo, Fork, OnOther, OnReady, OnRenderReady, OnFrameDone,
     VideoFinishedScan, VideoFinishedWrap, NextFrame, PutBack, VideoIn, ParentExit
<1>7. CASE (\E c \in Children : Child(c)) \/ Ended \/ UNCHANGED vars
  BY <1>5, <1>7 DEF Child, ChildInit, ChildRenderMode, ChildLoad, ChildRender, ChildExit, ChildDie,
     Ended, vars
<1> QED
  BY <1>1, <1>2, <1>3, <1>6, <1>7 DEF Next, VideoInThread

\* A frame becomes busy when its slot is marked, and free when main has released it.
LEMMA BusyMoves ==
  ASSUME TypeInv, TurnInv, HeldInv, Room, OnceInv, [Next]_vars, NEW f \in Nat
  PROVE  /\ Busy(f)' => Busy(f) \/ (VideoMark /\ f = frameNum)
         /\ Busy(f) => Busy(f)' \/ (VideoFinished /\ cur.frameNum = f)
         /\ VideoFinished /\ cur.frameNum = f => Busy(f) /\ ~Busy(f)'
         /\ VideoMark /\ f = frameNum => Busy(f)'
<1> USE DEF ringVars, videoVars, mainVars, childVars, fileVars
<1>1. /\ \A k \in 1 .. Len(ChildMsgQ) : ChildMsgQ[k] = EndMsg => ChildMsgQ[k].frameNum # f
      /\ EndMsg.frameNum # f
  BY DEF EndMsg, EndOfInput
<1>2. ASSUME Busy(f)' PROVE Busy(f) \/ (VideoMark /\ f = frameNum)
  <2>1. CASE \E c \in Children : Has(c, f)'
    <3>1. PICK c \in Children : Has(c, f)'
      BY <2>1
    <3>2. Has(c, f) \/ (1 \in 1 .. Len(ChildMsgQ) /\ ChildMsgQ[1].frameNum = f)
      BY <3>1, HasMoves
    <3> QED
      BY <3>2 DEF Busy, InQueue
  <2>2. CASE InQueue(f)'
    <3>1. PICK k \in 1 .. Len(ChildMsgQ') : ChildMsgQ'[k].frameNum = f
      BY <2>2 DEF InQueue
    <3>2. PICK off \in {0, 1} :
            \/ k + off \in 1 .. Len(ChildMsgQ) /\ ChildMsgQ'[k] = ChildMsgQ[k + off]
            \/ ChildMsgQ'[k] = EndMsg
            \/ VideoEnqueue /\ ChildMsgQ'[k] = [frameNum |-> frameNum, indexIn |-> tailIn]
      BY <3>1, QueueShifts
    <3>3. CASE k + off \in 1 .. Len(ChildMsgQ) /\ ChildMsgQ'[k] = ChildMsgQ[k + off]
      <4>1. ChildMsgQ[k + off].frameNum = f
        BY <3>1, <3>3
      <4> QED
        BY <3>3, <4>1 DEF Busy, InQueue
    <3>4. CASE VideoEnqueue /\ ChildMsgQ'[k] = [frameNum |-> frameNum, indexIn |-> tailIn]
      BY <3>1, <3>4 DEF VideoEnqueue, Busy
    <3> QED
      BY <1>1, <3>1, <3>2, <3>3, <3>4
  <2>3. CASE vpc' = "enqueue" /\ frameNum' = f
    BY <2>3, UsedSteps DEF Busy
  <2> QED
    BY <1>2, <2>1, <2>2, <2>3 DEF Busy
<1>3. ASSUME Busy(f) PROVE Busy(f)' \/ (VideoFinished /\ cur.frameNum = f)
  <2>1. CASE \E c \in Children : Has(c, f)
    BY <2>1, HasStays DEF Busy
  <2>2. CASE InQueue(f)
    BY <2>2, QueueStays DEF Busy
  <2>3. CASE vpc = "enqueue" /\ frameNum = f /\ UNCHANGED <<vpc, frameNum>>
    BY <2>3 DEF Busy
  <2>4. CASE VideoEnqueue /\ frameNum = f
    <3>1. PICK q : q = ChildMsgQ' /\ q = Append(ChildMsgQ, [frameNum |-> frameNum, indexIn |-> tailIn])
      BY <2>4 DEF VideoEnqueue
    <3>2. Len(ChildMsgQ) \in Nat /\ ChildMsgQ \in Seq(FrameMsgs \cup {EndMsg})
      BY QueueTypes
    <3>3. Len(q) = Len(ChildMsgQ) + 1 /\ q[Len(ChildMsgQ) + 1] = [frameNum |-> frameNum, indexIn |-> tailIn]
      BY <3>1, <3>2
    <3>4. Len(ChildMsgQ) + 1 \in 1 .. Len(q) /\ q[Len(ChildMsgQ) + 1].frameNum = f
      BY <2>4, <3>2, <3>3
    <3> QED
      BY <3>1, <3>4 DEF Busy, InQueue
  <2> QED
    BY <1>3, <2>1, <2>2, <2>3, <2>4, UsedSteps DEF Busy
<1>4. ASSUME VideoFinished, cur.frameNum = f PROVE Busy(f) /\ ~Busy(f)'
  <2>1. /\ ppc = "finish" /\ ppc' # "finish" /\ cur.child \in Children
        /\ UNCHANGED <<ipc, job, ChildMsgQ, vpc, frameNum>>
    BY <1>4 DEF VideoFinished, TypeInv, WorkTypes, Serving
  <2>2. Has(cur.child, f)
    BY <1>4, <2>1 DEF Has
  <2>3. \A d \in Children : Has(d, f) => d = cur.child
    BY <2>1, <2>2 DEF OnceInv
  <2>4. ~Holds(cur.child, f)
    BY <2>1, ServedHasNone DEF Serving
  <2>5. ASSUME NEW d \in Children PROVE ~Has(d, f)'
    <3>1. Holds(d, f)' <=> Holds(d, f)
      BY <2>1 DEF Holds
    <3> QED
      BY <2>1, <2>3, <2>4, <3>1 DEF Has
  <2>6. ~InQueue(f)'
    <3>1. \A k \in 1 .. Len(ChildMsgQ) : ChildMsgQ[k] # EndMsg => f < ChildMsgQ[k].frameNum
      BY <2>1, <2>2 DEF OnceInv
    <3>2. ~InQueue(f)
      BY <1>1, <3>1 DEF InQueue
    <3> QED
      BY <2>1, <3>2 DEF InQueue
  <2>7. ~(vpc' = "enqueue" /\ frameNum' = f)
    <3>1. f <= Queued /\ frameNum \in Nat
      BY <2>1, <2>2, VideoSteps DEF OnceInv
    <3>2. vpc = "enqueue" => f <= frameNum - 1
      BY <3>1 DEF Queued
    <3> QED
      BY <2>1, <3>1, <3>2
  <2> QED
    BY <2>1, <2>2, <2>5, <2>6, <2>7 DEF Busy
<1>5. ASSUME VideoMark, f = frameNum PROVE Busy(f)'
  BY <1>5 DEF VideoMark, Busy
<1> QED
  BY <1>2, <1>3, <1>4, <1>5

BusyLap == FirstLap => BusyInv

LEMMA BusyStep ==
  TypeInv /\ TurnInv /\ HeldInv /\ Room /\ OnceInv /\ LapInv /\ BusyLap /\ [Next]_vars => BusyLap'
<1> SUFFICES ASSUME TypeInv, TurnInv, HeldInv, Room, OnceInv, LapInv, BusyLap, [Next]_vars, FirstLap',
                    NEW s \in Slots
             PROVE  used'[s] = IF Busy(s + 1)' THEN 1 ELSE 0
  BY DEF BusyLap, BusyInv
<1>1. FirstLap
  BY VideoSteps, RingSize DEF FirstLap
<1>2. PICK f : f = s + 1 /\ f \in Nat /\ f - 1 = s
  BY LapSlots
<1>3. VideoLap /\ ChildLap /\ used[s] = IF Busy(f) THEN 1 ELSE 0
  BY <1>1, <1>2 DEF LapInv, BusyLap, BusyInv
<1>4. /\ Busy(f)' => Busy(f) \/ (VideoMark /\ f = frameNum)
      /\ Busy(f) => Busy(f)' \/ (VideoFinished /\ cur.frameNum = f)
      /\ VideoFinished /\ cur.frameNum = f => Busy(f) /\ ~Busy(f)'
      /\ VideoMark /\ f = frameNum => Busy(f)'
  BY <1>2, BusyMoves
<1>5. used \in [Slots -> Int]
  BY DEF TypeInv, TypeOK
<1>6. CASE VideoMark
  <2>1. vpc = "mark" /\ used' = [used EXCEPT ![tailIn] = 1] /\ vpc' = "enqueue"
    BY <1>6 DEF VideoMark
  <2>2. frameNum \in 1 .. frameCountIn /\ tailIn = (frameNum - 1) % frameCountIn
    <3>1. frameNum \in Nat /\ frameNum >= 1 /\ tailIn = (frameNum - 1) % frameCountIn
      BY <1>3, <2>1, VideoSteps DEF VideoLap, Advanced
    <3> QED
      BY <1>1, <3>1, LapSlots DEF FirstLap
  <2>3. tailIn = frameNum - 1
    BY <2>2, LapSlots
  <2>4. s = tailIn <=> f = frameNum
    BY <1>2, <2>2, <2>3
  <2>5. used'[s] = IF s = tailIn THEN 1 ELSE used[s]
    BY <1>5, <2>1
  <2>6. ~VideoFinished
    BY <2>1 DEF VideoFinished, videoVars
  <2> QED
    BY <1>2, <1>3, <1>4, <1>6, <2>4, <2>5, <2>6
<1>7. CASE VideoFinished
  <2>1. ppc = "finish" /\ used' = [used EXCEPT ![cur.indexIn] = @ - 1] /\ vpc' = vpc
    BY <1>7 DEF VideoFinished, videoVars
  <2>2. cur.frameNum \in Nat /\ cur.indexIn = cur.frameNum - 1
    BY <1>3, <2>1, VideoSteps DEF ChildLap, Decoded
  <2>3. s = cur.indexIn <=> f = cur.frameNum
    BY <1>2, <2>2
  <2>4. used'[s] = IF s = cur.indexIn THEN used[s] - 1 ELSE used[s]
    BY <1>5, <2>1
  <2>5. ~VideoMark
    BY <2>1 DEF VideoMark
  <2> QED
    BY <1>2, <1>3, <1>4, <1>7, <2>3, <2>4, <2>5
<1>8. CASE used' = used /\ ~VideoMark /\ ~VideoFinished
  BY <1>2, <1>3, <1>4, <1>8
<1> QED
  BY <1>6, <1>7, <1>8, UsedSteps

LEMMA BusyInit == Init => BusyLap
<1> SUFFICES ASSUME Init, NEW s \in Slots PROVE used[s] = IF Busy(s + 1) THEN 1 ELSE 0
  BY DEF BusyLap, BusyInv
<1>1. /\ vpc = "init" /\ ppc = "start" /\ 1 .. Len(ChildMsgQ) = {} /\ used[s] = 0
      /\ \A t \in Channels : ipc[t] = <<>>
      /\ \A c \in Children : job[c] = NoJob
  BY DEF Init, Channels
<1>2. "FRAME_DONE" \in Channels /\ Children \subseteq Channels
  BY ServerNames DEF Channels
<1>3. \A t \in Channels : In(ipc, t) = {}
  BY <1>1 DEF In
<1>4. \A c \in Children : ~Has(c, s + 1)
  BY <1>1, <1>2, <1>3, PipelineAssumption DEF Has, Holds, NoJob
<1> QED
  BY <1>1, <1>4 DEF Busy, InQueue

\* Who is responsible for a slot in the first lap of the ring: main, a child or
\* the video thread, never two of them and never two messages or children.
LEMMA LapHolders ==
  ASSUME TypeInv, OnceInv, LapInv, FirstLap, NEW s \in Slots
  PROVE  \E queued, child, video \in BOOLEAN : \E k, c :
           /\ Owners(s, queued, child, video, k, c)
           /\ Busy(s + 1) <=> queued \/ child \/ (video /\ vpc = "enqueue")
<1>1. PICK f : f = s + 1 /\ f \in Nat /\ f - 1 = s /\ s >= 0
  BY LapSlots
<1>2. VideoLap /\ QueueLap /\ ChildLap
  BY DEF LapInv
<1>3. PICK queued, child, video \in BOOLEAN :
        /\ queued <=> InQueue(f)
        /\ child <=> \E c \in Children : Has(c, f)
        /\ video <=> vpc \in {"mark", "enqueue"} /\ tailIn = s
  OBVIOUS
<1>4. \A k \in 1 .. Len(ChildMsgQ) : ChildMsgQ[k].indexIn = s <=> ChildMsgQ[k].frameNum = f
  <2> SUFFICES ASSUME NEW k \in 1 .. Len(ChildMsgQ)
               PROVE  ChildMsgQ[k].indexIn = s <=> ChildMsgQ[k].frameNum = f
    OBVIOUS
  <2>1. CASE ChildMsgQ[k] = EndMsg
    BY <1>1, <2>1 DEF EndMsg, EndOfInput
  <2>2. CASE ChildMsgQ[k] # EndMsg
    <3>1. Decoded(ChildMsgQ[k], frameNum)
      BY <1>2, <2>2 DEF QueueLap
    <3> QED
      BY <1>1, <3>1 DEF Decoded
  <2> QED
    BY <2>1, <2>2
<1>5. \A h, k \in 1 .. Len(ChildMsgQ) :
        ChildMsgQ[h].frameNum = f /\ ChildMsgQ[k].frameNum = f => h = k
  <2>1. \A k \in 1 .. Len(ChildMsgQ) : ChildMsgQ[k].frameNum = f =>
          \A h \in 1 .. k - 1 : ChildMsgQ[h].frameNum < f
    BY <1>1 DEF OnceInv, EndMsg, EndOfInput
  <2>2. ASSUME NEW h \in 1 .. Len(ChildMsgQ), NEW k \in 1 .. Len(ChildMsgQ), h # k,
               ChildMsgQ[h].frameNum = f, ChildMsgQ[k].frameNum = f
        PROVE  FALSE
    <3>1. h \in 1 .. k - 1 \/ k \in 1 .. h - 1
      BY <2>2
    <3>2. f < f
      BY <2>1, <2>2, <3>1
    <3> QED
      BY <1>1, <3>2
  <2> QED
    BY <2>2
<1>6. PICK k : queued => k \in 1 .. Len(ChildMsgQ) /\ ChildMsgQ[k].frameNum = f
  BY <1>3 DEF InQueue
<1>7. PICK c : child => c \in Children /\ Has(c, f)
  BY <1>3
<1>8. {<<"queued", h>> : h \in {h \in DOMAIN ChildMsgQ : ChildMsgQ[h].indexIn = s}}
        = IF queued THEN {<<"queued", k>>} ELSE {}
  <2>1. DOMAIN ChildMsgQ = 1 .. Len(ChildMsgQ)
    BY QueueTypes
  <2>2. {h \in 1 .. Len(ChildMsgQ) : ChildMsgQ[h].indexIn = s} = IF queued THEN {k} ELSE {}
    BY <1>3, <1>4, <1>5, <1>6 DEF InQueue
  <2> QED
    BY <2>1, <2>2
<1>9. {<<"child", d>> : d \in {d \in Children :
           \/ \E m \in FrameMessages(d) : m.indexIn = s
           \/ job[d].child = d /\ job[d].indexIn = s
           \/ \E m \in Range(ipc["FRAME_DONE"]) : m.child = d /\ m.indexIn = s
           \/ ppc = "finish" /\ cur.child = d /\ cur.indexIn = s}}
        = IF child THEN {<<"child", c>>} ELSE {}
  <2>1. \A m : Decoded(m, frameNum) => (m.indexIn = s <=> m.frameNum = f)
    BY <1>1 DEF Decoded
  <2>2. ASSUME NEW d \in Children
        PROVE  /\ FrameMessages(d) = FramesTo(ipc, d)
               /\ Range(ipc["FRAME_DONE"]) = In(ipc, "FRAME_DONE")
    <3>1. d \in Channels /\ "FRAME_DONE" \in Channels
      BY ServerNames DEF Channels
    <3>2. ipc[d] \in Seq(Content(d)) /\ ipc["FRAME_DONE"] \in Seq(Content("FRAME_DONE"))
      BY <3>1 DEF TypeInv, IpcTypes
    <3> QED
      BY <3>2 DEF FrameMessages, FramesTo, In, Range
  <2>3. ASSUME NEW d \in Children
        PROVE  Has(d, f) <=> \/ \E m \in FrameMessages(d) : m.indexIn = s
                             \/ job[d].child = d /\ job[d].indexIn = s
                             \/ \E m \in Range(ipc["FRAME_DONE"]) : m.child = d /\ m.indexIn = s
                             \/ ppc = "finish" /\ cur.child = d /\ cur.indexIn = s
    <3>1. (\E m \in FrameMessages(d) : m.indexIn = s)
            <=> \E m \in In(ipc, d) : m.type = "RENDER_FRAME" /\ m.frameNum = f
      BY <1>2, <2>1, <2>2 DEF ChildLap, FramesTo
    <3>2. job[d].child = d => (job[d].indexIn = s <=> job[d].frameNum = f)
      BY <1>2, <2>1 DEF ChildLap
    <3>3. (\E m \in Range(ipc["FRAME_DONE"]) : m.child = d /\ m.indexIn = s)
            <=> \E m \in In(ipc, "FRAME_DONE") : m.child = d /\ m.frameNum = f
      BY <1>2, <2>1, <2>2 DEF ChildLap
    <3>4. ppc = "finish" => (cur.indexIn = s <=> cur.frameNum = f)
      BY <1>2, <2>1 DEF ChildLap
    <3> QED
      BY <3>1, <3>2, <3>3, <3>4 DEF Has, Holds
  <2>4. {d \in Children :
           \/ \E m \in FrameMessages(d) : m.indexIn = s
           \/ job[d].child = d /\ job[d].indexIn = s
           \/ \E m \in Range(ipc["FRAME_DONE"]) : m.child = d /\ m.indexIn = s
           \/ ppc = "finish" /\ cur.child = d /\ cur.indexIn = s} = {d \in Children : Has(d, f)}
    BY <2>3
  <2>5. {d \in Children : Has(d, f)} = IF child THEN {c} ELSE {}
    BY <1>1, <1>3, <1>7 DEF OnceInv
  <2> QED
    BY <2>4, <2>5
<1>10. (IF vpc \in {"mark", "enqueue"} /\ tailIn = s THEN {<<"video">>} ELSE {})
         = IF video THEN {<<"video">>} ELSE {}
  BY <1>3
<1>11. Holders(s) = (IF queued THEN {<<"queued", k>>} ELSE {})
                    \cup (IF child THEN {<<"child", c>>} ELSE {})
                    \cup (IF video THEN {<<"video">>} ELSE {})
  BY <1>8, <1>9, <1>10, Zenon DEF Holders
<1>12. video <=> vpc \in {"mark", "enqueue"} /\ frameNum = f
  <2> SUFFICES ASSUME vpc \in {"mark", "enqueue"} PROVE tailIn = s <=> frameNum = f
    BY <1>3
  <2>1. frameNum \in Nat /\ frameNum >= 1 /\ tailIn = (frameNum - 1) % frameCountIn
    <3>1. Advanced = frameNum - 1 /\ vpc \in {"mark", "enqueue", "advance"}
      BY DEF Advanced
    <3>2. frameNum \in Nat
      BY DEF TypeInv, TypeOK
    <3> QED
      BY <1>2, <3>1, <3>2 DEF VideoLap
  <2>2. tailIn = frameNum - 1
    BY <2>1, LapSlots DEF FirstLap
  <2> QED
    BY <1>1, <2>1, <2>2
<1>13. video => Queued = f - 1
  BY <1>12 DEF Queued
<1>14. ~(queued /\ child) /\ ~(queued /\ video) /\ ~(child /\ video)
  <2>1. queued => ChildMsgQ[k] # EndMsg /\ ChildMsgQ[k].frameNum = f
    BY <1>1, <1>6 DEF EndMsg, EndOfInput
  <2>2. queued => f <= Queued
    BY <1>6, <2>1 DEF OnceInv
  <2>3. child => f <= Queued /\ (queued => f < f)
    BY <1>1, <1>6, <1>7, <2>1 DEF OnceInv
  <2> QED
    BY <1>1, <1>13, <2>2, <2>3
<1>15. Owners(s, queued, child, video, k, c)
  BY <1>3, <1>11, <1>14 DEF Owners
<1>16. Busy(f) <=> queued \/ child \/ (video /\ vpc = "enqueue")
  BY <1>3, <1>12 DEF Busy
<1> QED
  BY <1>1, <1>15, <1>16

\* Before the ring wraps no slot belongs to two frames, with any number of cards,
\* for every film, and also when messages are lost and children die with a frame.
THEOREM FirstLapOwners == Spec => [](FirstLap => SlotHasOneOwner)
<1>1. TypeInv /\ OnceInv /\ LapInv => (FirstLap => SlotHasOneOwner)
  <2> SUFFICES ASSUME TypeInv, OnceInv, LapInv, FirstLap, NEW s \in Slots
               PROVE  Cardinality(Holders(s)) <= 1
    BY DEF SlotHasOneOwner
  <2>1. PICK queued, child, video \in BOOLEAN : \E k, c : Owners(s, queued, child, video, k, c)
    BY LapHolders
  <2> QED
    BY <2>1, OwnersCount
<1> QED
  BY <1>1, LapHolds, EachFrameOnce, PTL

\* Before the ring wraps used[] counts exactly the slots that somebody is
\* responsible for, with any number of cards, if the System V queue has the room
\* that OneTurnForEach needs: a frame whose message is lost is never released.
THEOREM FirstLapUsed == ASSUME IpcCap >= Needed PROVE Spec => [](FirstLap => UsedCountsOwners)
<1> DEFINE all == TypeInv /\ TurnInv /\ LogInv /\ Room
           held == TypeInv /\ TurnInv /\ OrderInv /\ HeldInv
           lap == TypeInv /\ LapInv
<1>1. (Spec => []all) /\ (Spec => []held) /\ (Spec => []lap) /\ (Spec => []OnceInv)
  BY TurnsHold, FramesHold, LapHolds, EachFrameOnce
<1>2. all /\ held /\ lap /\ OnceInv /\ BusyLap /\ [Next]_vars => BusyLap'
  BY BusyStep
<1>3. lap /\ OnceInv /\ BusyLap => (FirstLap => UsedCountsOwners)
  <2> SUFFICES ASSUME TypeInv, LapInv, OnceInv, BusyLap, FirstLap, NEW s \in Slots
               PROVE  used[s] = Cardinality(Holders(s) \ (IF vpc = "mark" THEN {<<"video">>} ELSE {}))
    BY DEF UsedCountsOwners
  <2>1. PICK queued, child, video \in BOOLEAN :
          /\ \E k, c : Owners(s, queued, child, video, k, c)
          /\ Busy(s + 1) <=> queued \/ child \/ (video /\ vpc = "enqueue")
    BY LapHolders
  <2>2. used[s] = IF queued \/ child \/ (video /\ vpc = "enqueue") THEN 1 ELSE 0
    BY <2>1 DEF BusyLap, BusyInv
  <2> QED
    BY <2>1, <2>2, OwnersCount
<1> QED
  BY <1>1, <1>2, <1>3, BusyInit, PTL DEF Spec
-----------------------------------------------------------------------------
(***************************************************************************)
(* Whether everyone can wait for someone else.                             *)
(***************************************************************************)
\* The end marker stays in ChildMsgQ, but for the time main holds it.
MarkerInv == vpc = "done" => Marked \/ ppc \in {"putBack", "exited"}

\* The video thread says that it is ready before main has children.
BirthInv ==
  /\ ppc = "start" => /\ \A c \in Children : cpc[c] = "unborn"
                      /\ vpc = "init" \/ ipc["VIDEO_READY"] # <<>>
  /\ ppc \notin {"start", "fork"} => \A c \in Children : cpc[c] # "unborn"

\* ChildMsgQ has a place, if QueueCreate can round its size.
LEMMA QueueHasPlace ==
  ASSUME numChildren * 2 <= 2^30
  PROVE  QueueCap \in Nat /\ QueueCap >= 1
<1> DEFINE powers == {2^k : k \in 0 .. 30}
           fits == {q \in powers : q >= numChildren * 2}
           Least(p) == p >= numChildren * 2 /\ \A q \in powers : q >= numChildren * 2 => p <= q
<1>1. numChildren * 2 \in Nat /\ numChildren * 2 >= 2
  BY RingSize
<1>2. \A q \in powers : q \in Int
  OBVIOUS
<1>3. 2^30 \in powers
  OBVIOUS
<1>4. Rounded(numChildren * 2) = CHOOSE p \in powers : Least(p)
  BY DEF Rounded
<1> HIDE DEF powers
<1>5. fits \in SUBSET Nat /\ 2^30 \in fits
  BY <1>1, <1>2, <1>3
<1>6. PICK x \in fits : \A y \in fits : x <= y
  BY <1>5, LeastNumber
<1>7. x \in powers /\ Least(x)
  BY <1>6
<1>8. Rounded(numChildren * 2) \in powers /\ Least(Rounded(numChildren * 2))
  BY <1>4, <1>7
<1> QED
  BY <1>1, <1>2, <1>8 DEF QueueCap

LEMMA MarkerStep == TypeInv /\ MarkerInv /\ [Next]_vars => MarkerInv'
<1> SUFFICES ASSUME TypeInv, MarkerInv, [Next]_vars, vpc' = "done"
             PROVE  Marked' \/ ppc' \in {"putBack", "exited"}
  BY DEF MarkerInv
<1> USE DEF ringVars, videoVars, mainVars, childVars, fileVars
<1>1. ChildMsgQ \in Seq(FrameMsgs \cup {EndMsg}) /\ Len(ChildMsgQ) \in Nat
  BY QueueTypes
<1>2. ASSUME ChildMsgQ' = Append(ChildMsgQ, EndMsg) PROVE Marked'
  <2>1. /\ Len(ChildMsgQ') = Len(ChildMsgQ) + 1 /\ ChildMsgQ'[Len(ChildMsgQ) + 1] = EndMsg
    BY <1>1, <1>2, AppendElements
  <2>2. Len(ChildMsgQ) + 1 \in 1 .. Len(ChildMsgQ) + 1
    BY <1>1
  <2> QED
    BY <2>1, <2>2 DEF Marked
<1>3. CASE VideoEnd \/ PutBack
  BY <1>2, <1>3 DEF VideoEnd, PutBack
<1>4. CASE NextFrame
  <2>1. ppc = "next" /\ ChildMsgQ # <<>> /\ ChildMsgQ' = Tail(ChildMsgQ) /\ vpc = "done"
    BY <1>4 DEF NextFrame
  <2>2. PICK k \in 1 .. Len(ChildMsgQ) : ChildMsgQ[k] = EndMsg
    BY <2>1 DEF MarkerInv, Marked
  <2>3. /\ Len(ChildMsgQ') \in Nat /\ Len(ChildMsgQ) = Len(ChildMsgQ') + 1
        /\ ChildMsgQ[1] = Head(ChildMsgQ)
        /\ \A l \in 1 .. Len(ChildMsgQ') : ChildMsgQ'[l] = ChildMsgQ[l + 1]
    BY <1>1, <2>1, TailElements
  <2>4. CASE k = 1
    <3>1. Head(ChildMsgQ).frameNum = EndOfInput
      BY <2>2, <2>3, <2>4 DEF EndMsg
    <3> QED
      BY <1>4, <3>1 DEF NextFrame
  <2>5. CASE k # 1
    <3>1. k - 1 \in 1 .. Len(ChildMsgQ') /\ (k - 1) + 1 = k
      BY <2>2, <2>3, <2>5
    <3>2. ChildMsgQ'[k - 1] = EndMsg
      BY <2>2, <2>3, <3>1
    <3> QED
      BY <3>1, <3>2 DEF Marked
  <2> QED
    BY <2>4, <2>5
<1>5. CASE ppc' = "exited"
  BY <1>5
<1>6. CASE UNCHANGED ChildMsgQ /\ (vpc = "done" \/ vpc' # "done") /\ (ppc' = ppc \/ ppc # "putBack")
           /\ ppc # "exited"
  BY <1>6 DEF MarkerInv, Marked
<1>7. CASE UNCHANGED vars
  BY <1>7 DEF vars, MarkerInv, Marked
<1>8. CASE VideoInThread
  <2>1. CASE VideoEnqueue
    BY <2>1 DEF VideoEnqueue
  <2>2. CASE VideoStart \/ VideoCheck \/ VideoDecode \/ VideoMark \/ VideoAdvance
    BY <2>2 DEF VideoStart, VideoCheck, VideoDecode, VideoMark, VideoAdvance
  <2> QED
    BY <1>3, <1>8, <2>1, <2>2 DEF VideoInThread
<1>9. CASE Main
  <2>1. CASE \/ AwaitVideo \/ (\E c \in Children : Fork(c)) \/ (\E type \in Server : OnOther(type))
             \/ OnReady \/ OnRenderReady \/ OnFrameDone \/ VideoIn
             \/ VideoFinished \/ VideoFinishedScan \/ VideoFinishedWrap
    BY <1>6, <2>1 DEF AwaitVideo, Fork, OnOther, OnReady, OnRenderReady, OnFrameDone, VideoIn,
       VideoFinished, VideoFinishedScan, VideoFinishedWrap
  <2>2. CASE ParentExit
    BY <1>5, <2>2 DEF ParentExit
  <2> QED
    BY <1>3, <1>4, <1>9, <2>1, <2>2 DEF Main
<1>10. CASE (\E c \in Children : Child(c)) \/ Ended
  <2>1. UNCHANGED <<ChildMsgQ, vpc, ppc>>
    BY <1>10 DEF Child, ChildInit, ChildRenderMode, ChildLoad, ChildRender, ChildExit, ChildDie,
       Ended, vars
  <2> QED
    BY <1>5, <1>6, <2>1
<1> QED
  BY <1>7, <1>8, <1>9, <1>10 DEF Next

LEMMA BirthStep == TypeInv /\ TurnInv /\ Room /\ BirthInv /\ [Next]_vars => BirthInv'
<1> SUFFICES ASSUME TypeInv, TurnInv, Room, BirthInv, [Next]_vars PROVE BirthInv'
  OBVIOUS
<1> USE DEF ringVars, videoVars, mainVars, childVars, fileVars
<1>1. cpc \in [Children -> {"unborn", "init", "wait", "loaded", "exited"}]
  BY DEF TypeInv, TypeOK
<1>2. CASE VideoStart
  <2>1. "VIDEO_READY" \in Channels \ {"LOG"} /\ "ready" \in Content("VIDEO_READY")
    BY ServerNames DEF Channels, Content
  <2>2. PICK n \in Nat : /\ n <= LogLines["video"] /\ vpc = "init"
                         /\ ipc' = Post(Logged(ipc, n), "VIDEO_READY", "ready")
                         /\ UNCHANGED <<ppc, cpc>>
    BY <1>2, ServerSays DEF VideoStart, Says
  <2>3. PICK q : q = Logged(ipc, n) /\ IpcTypes(q) /\ Pending(q) < IpcCap
    <3>1. Pending(ipc) + 1 + n <= IpcCap
      BY <2>2, RoomFor
    <3> QED
      BY <3>1, LoggedFacts DEF TypeInv
  <2>4. Len(q["VIDEO_READY"]) \in Nat /\ Len(ipc'["VIDEO_READY"]) = Len(q["VIDEO_READY"]) + 1
    BY <2>1, <2>2, <2>3, PostFacts
  <2>5. ipc'["VIDEO_READY"] # <<>>
    BY <2>4
  <2> QED
    BY <2>2, <2>5 DEF BirthInv
<1>3. CASE VideoCheck \/ VideoDecode \/ VideoMark \/ VideoEnqueue \/ VideoAdvance \/ VideoEnd
  <2>1. UNCHANGED <<ppc, cpc, ipc>> /\ vpc # "init"
    BY <1>3 DEF VideoCheck, VideoDecode, VideoMark, VideoEnqueue, VideoAdvance, VideoEnd
  <2> QED
    BY <2>1 DEF BirthInv
<1>4. CASE AwaitVideo
  BY <1>4 DEF AwaitVideo, BirthInv
<1>5. CASE \E c \in Children : Fork(c)
  <2>1. PICK c \in Children : Fork(c)
    BY <1>5
  <2>2. /\ cpc' = [cpc EXCEPT ![c] = "init"]
        /\ ppc' = IF \E d \in Children \ {c} : cpc[d] = "unborn" THEN "fork" ELSE "recv"
    BY <2>1 DEF Fork
  <2>3. ppc' # "fork" => \A d \in Children : cpc'[d] # "unborn"
    BY <1>1, <2>2
  <2> QED
    BY <2>2, <2>3 DEF BirthInv
<1>6. CASE \/ (\E type \in Server : OnOther(type)) \/ OnReady \/ OnRenderReady \/ OnFrameDone
           \/ VideoFinished \/ VideoFinishedScan \/ VideoFinishedWrap
           \/ NextFrame \/ PutBack \/ VideoIn \/ ParentExit
  <2>1. ppc \notin {"start", "fork"} /\ ppc' \notin {"start", "fork"} /\ cpc' = cpc
    BY <1>6 DEF OnOther, OnReady, OnRenderReady, OnFrameDone, VideoFinished, VideoFinishedScan,
       VideoFinishedWrap, NextFrame, PutBack, VideoIn, ParentExit
  <2> QED
    BY <2>1 DEF BirthInv
<1>7. CASE \E c \in Children : Child(c)
  <2>1. PICK c \in Children : Child(c)
    BY <1>7
  <2>2. cpc[c] # "unborn" /\ ppc' = ppc
    BY <2>1 DEF Child, ChildInit, ChildRenderMode, ChildLoad, ChildRender, ChildExit, ChildDie, Gets
  <2>3. \E place \in {"wait", "loaded", "exited"} : cpc' = [cpc EXCEPT ![c] = place] \/ cpc' = cpc
    BY <2>1 DEF Child, ChildInit, ChildRenderMode, ChildLoad, ChildRender, ChildExit, ChildDie
  <2>4. \A d \in Children : cpc[d] # "unborn" => cpc'[d] # "unborn"
    BY <1>1, <2>3
  <2> QED
    BY <2>2, <2>4 DEF BirthInv
<1>8. CASE Ended \/ UNCHANGED vars
  BY <1>8 DEF Ended, vars, BirthInv
<1> QED
  BY <1>2, <1>3, <1>4, <1>5, <1>6, <1>7, <1>8 DEF Next, VideoInThread, Main

LEMMA StopStep ==
  ASSUME TypeInv, TurnInv, OrderInv, MarkerInv, BirthInv, numChildren * 2 <= 2^30
  PROVE  StopsOnlyAtTheRing
<1> SUFFICES ASSUME AllWait PROVE ppc = "next" /\ ChildMsgQ = <<>> /\ vpc = "check"
  BY DEF StopsOnlyAtTheRing
<1>1. PICK d \in Children : cpc[d] # "exited"
  BY DEF AllWait
<1>2. VideoWaits /\ MainWaits /\ ChildWaits(d)
  BY DEF AllWait
<1>3. ChildMsgQ = <<>> => Len(ChildMsgQ) < QueueCap
  BY QueueHasPlace
<1>4. ppc # "start"
  BY <1>2 DEF BirthInv, VideoWaits, MainWaits
<1>5. ppc # "putBack"
  <2> SUFFICES ASSUME ppc = "putBack" PROVE FALSE
    OBVIOUS
  <2>1. ChildMsgQ = <<>>
    BY DEF OrderInv, Follows
  <2>2. Len(ChildMsgQ) = QueueCap /\ QueueCap \in Nat
    BY <1>2, QueueHasPlace DEF MainWaits
  <2> QED
    BY <1>3, <2>1, <2>2
<1>6. ppc # "recv"
  <2> SUFFICES ASSUME ppc = "recv" PROVE FALSE
    OBVIOUS
  <2>1. \A type \in Server : ipc[type] = <<>>
    BY <1>2 DEF MainWaits
  <2>2. cpc[d] = "wait" /\ ipc[d] = <<>>
    BY <1>1, <1>2 DEF BirthInv, ChildWaits
  <2>3. \A type \in {"READY", "RENDER_READY", "FRAME_DONE"} : ~From(ipc, type, d)
    BY <2>1, ServerNames DEF From
  <2>4. ~From(ipc, d, d) /\ ~Served(d)
    BY <2>2 DEF From, Served, Serving
  <2>5. \A place \in Places : ~At(d, place)
    BY <2>2, <2>3, <2>4 DEF Places, At
  <2> QED
    BY <2>5 DEF TurnInv, OneTurn
<1>7. ppc = "next" /\ ChildMsgQ = <<>>
  BY <1>2, <1>4, <1>5, <1>6 DEF MainWaits
<1>8. ~Marked
  BY <1>7 DEF Marked
<1> QED
  BY <1>2, <1>3, <1>7, <1>8 DEF VideoWaits, MarkerInv

LEMMA StopsHold ==
  ASSUME IpcCap >= Needed
  PROVE  Spec => [](TypeInv /\ TurnInv /\ OrderInv /\ MarkerInv /\ BirthInv)
<1> DEFINE all == TypeInv /\ TurnInv /\ LogInv /\ Room
           held == TypeInv /\ TurnInv /\ OrderInv /\ HeldInv
           stop == MarkerInv /\ BirthInv
<1>1. (Spec => []all) /\ (Spec => []held)
  BY TurnsHold, FramesHold
<1>2. Init => stop
  BY DEF Init, MarkerInv, BirthInv
<1>3. all /\ stop /\ [Next]_vars => stop'
  BY MarkerStep, BirthStep
<1> QED
  BY <1>1, <1>2, <1>3, PTL DEF Spec

\* With any number of cards, everyone waits for someone else in one way only:
\* main waits in getNextFrame for a frame, ChildMsgQ is empty, and VideoInThread
\* finds the ring full of frames that main has not taken back.  So neither the end
\* marker nor a turn is lost, main never waits for a message that nobody owes it,
\* and none waits for a place in ChildMsgQ for good.  The System V queue has to
\* have the room that OneTurnForEach needs; the number of cards is bounded because
\* QueueCreate rounds to no more than a power of two that fits its table.
THEOREM StopsAtTheRing ==
  ASSUME IpcCap >= Needed, numChildren * 2 <= 2^30
  PROVE  Spec => []StopsOnlyAtTheRing
<1>1. TypeInv /\ TurnInv /\ OrderInv /\ MarkerInv /\ BirthInv => StopsOnlyAtTheRing
  BY StopStep
<1> QED
  BY <1>1, StopsHold, PTL

\* What moves the head of the ring.
LEMMA HeadSteps ==
  ASSUME TypeInv, [Next]_vars
  PROVE  /\ \/ headIn' = headIn
            \/ VideoFinishedScan /\ headIn' = i /\ UsedAt(used, i) # 0
            \/ VideoFinishedWrap /\ headIn' = tailIn
         /\ VideoFinishedScan \/ VideoFinishedWrap =>
              /\ ppc \in Serving /\ ppc # "finish"
              /\ UNCHANGED <<used, tailIn, ChildMsgQ, vpc, frameNum>>
         /\ ppc' = "next" =>
              \/ ppc = "next" /\ ~NextFrame
              \/ OnRenderReady
              \/ VideoFinished /\ headIn' = headIn /\ UsedAt(used', headIn) # 0
              \/ VideoFinishedScan /\ headIn' = i /\ UsedAt(used, i) # 0
              \/ VideoFinishedWrap /\ headIn' = tailIn
<1> USE DEF ringVars, videoVars, mainVars, childVars, fileVars
<1>1. CASE VideoInThread \/ (\E c \in Children : Child(c)) \/ Ended \/ UNCHANGED vars
  <2>1. UNCHANGED <<headIn, ppc>>
    BY <1>1 DEF VideoInThread, VideoStart, VideoCheck, VideoDecode, VideoMark, VideoEnqueue,
       VideoAdvance, VideoEnd, Child, ChildInit, ChildRenderMode, ChildLoad, ChildRender, ChildExit,
       ChildDie, Ended, vars
  <2>2. NextFrame => ppc' # "next"
    BY DEF NextFrame
  <2>3. VideoFinishedScan \/ VideoFinishedWrap =>
          ppc \in {"scan", "wrap"} /\ UNCHANGED <<used, tailIn, ChildMsgQ, vpc, frameNum>>
    BY DEF VideoFinishedScan, VideoFinishedWrap
  <2> QED
    BY <2>1, <2>2, <2>3 DEF Serving
<1>2. CASE VideoFinishedScan
  <2>1. \/ UsedAt(used, i) = 0 /\ headIn' = headIn /\ ppc' # "next"
        \/ UsedAt(used, i) # 0 /\ headIn' = i
    BY <1>2 DEF VideoFinishedScan
  <2>2. /\ ppc = "scan" /\ ~VideoFinishedWrap
        /\ UNCHANGED <<used, tailIn, ChildMsgQ, vpc, frameNum>>
    BY <1>2 DEF VideoFinishedScan, VideoFinishedWrap
  <2> QED
    BY <1>2, <2>1, <2>2 DEF Serving
<1>3. CASE VideoFinishedWrap
  <2>1. /\ ppc = "wrap" /\ headIn' = tailIn /\ ~VideoFinishedScan
        /\ UNCHANGED <<used, tailIn, ChildMsgQ, vpc, frameNum>>
    BY <1>3 DEF VideoFinishedScan, VideoFinishedWrap
  <2> QED
    BY <1>3, <2>1 DEF Serving
<1>4. CASE VideoFinished
  <2>1. /\ headIn' = headIn /\ ppc = "finish" /\ ~VideoFinishedScan /\ ~VideoFinishedWrap
        /\ ppc' = "next" => UsedAt(used', headIn) # 0
    BY <1>4 DEF VideoFinished, VideoFinishedScan, VideoFinishedWrap
  <2> QED
    BY <1>4, <2>1
<1>5. CASE OnRenderReady
  <2>1. headIn' = headIn /\ ppc = "recv"
    BY <1>5 DEF OnRenderReady
  <2>2. ~VideoFinishedScan /\ ~VideoFinishedWrap
    BY <2>1 DEF VideoFinishedScan, VideoFinishedWrap
  <2> QED
    BY <1>5, <2>1, <2>2
<1>6. CASE \/ AwaitVideo \/ (\E c \in Children : Fork(c)) \/ (\E type \in Server : OnOther(type))
           \/ OnReady \/ OnFrameDone \/ NextFrame \/ PutBack \/ VideoIn \/ ParentExit
  <2>1. headIn' = headIn /\ ppc' # "next"
    BY <1>6 DEF AwaitVideo, Fork, OnOther, OnReady, OnFrameDone, NextFrame, PutBack, VideoIn,
       ParentExit
  <2>2. VideoFinishedScan => ppc = "scan" /\ UNCHANGED <<used, tailIn, ChildMsgQ, vpc, frameNum>>
    BY DEF VideoFinishedScan
  <2>3. VideoFinishedWrap => ppc = "wrap" /\ UNCHANGED <<used, tailIn, ChildMsgQ, vpc, frameNum>>
    BY DEF VideoFinishedWrap
  <2> QED
    BY <2>1, <2>2, <2>3 DEF Serving
<1> QED
  BY <1>1, <1>2, <1>3, <1>4, <1>5, <1>6 DEF Next, Main

\* A film that leaves two slots of the ring free: the head is never ahead of the
\* tail, and no slot ahead of the tail is in use.
ShortInv == headIn <= tailIn /\ \A s \in Slots : s > tailIn => used[s] = 0

\* The tail does not wrap.
LEMMA ShortTail ==
  ASSUME TypeInv, LapInv, NumFrames + 2 <= frameCountIn
  PROVE  /\ FirstLap /\ VideoLap /\ ChildLap
         /\ tailIn = Advanced /\ frameNum \in Nat /\ tailIn \in Nat /\ frameNum - 1 <= tailIn
         /\ tailIn + 1 < frameCountIn /\ (tailIn + 1) % frameCountIn = tailIn + 1
<1>1. NumFrames \in Nat /\ frameNum \in 0 .. NumFrames /\ frameCountIn \in Nat /\ frameCountIn >= 5
  BY RingSize, PipelineAssumption DEF TypeInv, TypeOK
<1>2. FirstLap
  BY <1>1 DEF FirstLap
<1>3. VideoLap /\ ChildLap
  BY <1>2 DEF LapInv
<1>4. Advanced \in Nat /\ Advanced <= NumFrames /\ frameNum - 1 <= Advanced
  BY <1>1, <1>3 DEF VideoLap, Advanced
<1>5. \A n \in Nat : \A x \in Nat : x < n => x % n = x
  OBVIOUS
<1>6. tailIn = Advanced
  BY <1>1, <1>3, <1>4, <1>5 DEF VideoLap
<1>7. tailIn + 1 < frameCountIn /\ tailIn + 1 \in Nat
  BY <1>1, <1>4, <1>6
<1> QED
  BY <1>1, <1>2, <1>3, <1>4, <1>5, <1>6, <1>7

LEMMA ShortStep ==
  ASSUME NumFrames + 2 <= frameCountIn
  PROVE  TypeInv /\ LapInv /\ ShortInv /\ [Next]_vars => ShortInv'
<1> SUFFICES ASSUME TypeInv, LapInv, ShortInv, [Next]_vars PROVE ShortInv'
  OBVIOUS
<1> USE DEF ringVars, videoVars, mainVars, childVars, fileVars
<1>1. /\ ChildLap /\ frameNum \in Nat /\ tailIn \in Nat /\ frameNum - 1 <= tailIn
      /\ tailIn + 1 < frameCountIn /\ (tailIn + 1) % frameCountIn = tailIn + 1
  BY ShortTail
<1>2. /\ used \in [Slots -> Int] /\ headIn \in Slots \cup {-1} /\ i \in Slots \cup {-1}
      /\ \A s \in Slots : s \in Int
  BY LapSlots DEF TypeInv, TypeOK
<1>3. tailIn' \in {tailIn, tailIn + 1}
  <2>1. CASE VideoDecode
    BY <2>1 DEF VideoDecode
  <2>2. CASE VideoAdvance
    BY <1>1, <2>2 DEF VideoAdvance
  <2> QED
    BY <2>1, <2>2, VideoSteps
<1>4. headIn' <= tailIn'
  <2>1. CASE headIn' = headIn
    <3>1. headIn <= tailIn
      BY DEF ShortInv
    <3> QED
      BY <1>1, <1>2, <1>3, <2>1, <3>1
  <2>2. CASE headIn' = i /\ UsedAt(used, i) # 0 /\ tailIn' = tailIn
    <3>1. i = -1 \/ used[i] # 0
      BY <2>2 DEF UsedAt
    <3>2. i = -1 \/ ~(i > tailIn)
      BY <1>2, <3>1 DEF ShortInv
    <3> QED
      BY <1>1, <1>2, <2>2, <3>2
  <2>3. CASE headIn' = tailIn /\ tailIn' = tailIn
    BY <1>1, <2>3
  <2> QED
    BY <2>1, <2>2, <2>3, HeadSteps
<1>5. \A s \in Slots : s > tailIn' => used'[s] = 0
  <2> SUFFICES ASSUME NEW s \in Slots, s > tailIn' PROVE used'[s] = 0
    OBVIOUS
  <2>1. s > tailIn /\ used[s] = 0
    BY <1>1, <1>2, <1>3 DEF ShortInv
  <2>2. CASE VideoMark
    <3>1. used' = [used EXCEPT ![tailIn] = 1] /\ s # tailIn
      BY <1>1, <1>2, <2>1, <2>2 DEF VideoMark
    <3> QED
      BY <1>2, <2>1, <3>1
  <2>3. CASE VideoFinished
    <3>1. used' = [used EXCEPT ![cur.indexIn] = @ - 1] /\ ppc = "finish"
      BY <2>3 DEF VideoFinished
    <3>2. Decoded(cur, frameNum)
      BY <1>1, <3>1 DEF ChildLap
    <3>3. cur.indexIn # s
      BY <1>1, <1>2, <2>1, <3>2 DEF Decoded
    <3> QED
      BY <1>2, <2>1, <3>1, <3>3
  <2> QED
    BY <2>1, <2>2, <2>3, UsedSteps
<1> QED
  BY <1>4, <1>5 DEF ShortInv

\* With any number of cards, and a film that leaves two slots of the ring free, the
\* program never stands still: the ring is never full, and StopsAtTheRing says
\* that nothing else stops everyone.
THEOREM ShortFilmGoesOn ==
  ASSUME IpcCap >= Needed, numChildren * 2 <= 2^30, NumFrames + 2 <= frameCountIn
  PROVE  Spec => []NeverAllWait
<1> DEFINE stop == TypeInv /\ TurnInv /\ OrderInv /\ MarkerInv /\ BirthInv
           lap == TypeInv /\ LapInv
<1>1. (Spec => []stop) /\ (Spec => []lap)
  BY StopsHold, LapHolds
<1>2. Init => ShortInv
  <2>1. Init => headIn = -1 /\ tailIn = 0 /\ \A s \in Slots : used[s] = 0
    BY DEF Init
  <2> QED
    BY <2>1 DEF ShortInv
<1>3. lap /\ ShortInv /\ [Next]_vars => ShortInv'
  BY ShortStep
<1>4. stop /\ lap /\ ShortInv => NeverAllWait
  <2> SUFFICES ASSUME stop, lap, ShortInv, AllWait PROVE FALSE
    BY DEF NeverAllWait
  <2>1. vpc = "check"
    BY StopStep DEF StopsOnlyAtTheRing
  <2>2. (tailIn + 1) % frameCountIn = headIn
    BY <2>1 DEF AllWait, VideoWaits
  <2>3. tailIn \in Nat /\ (tailIn + 1) % frameCountIn = tailIn + 1
    BY ShortTail
  <2>4. headIn <= tailIn
    BY DEF ShortInv
  <2> QED
    BY <2>2, <2>3, <2>4
<1> QED
  BY <1>1, <1>2, <1>3, <1>4, PTL DEF Spec

-----------------------------------------------------------------------------
(***************************************************************************)
(* One card and a film of any length.  The head of the ring stands at a    *)
(* frame that is not behind the one main gives out next, so the video      *)
(* thread finds the ring full only while main still has a frame to give.   *)
(***************************************************************************)
\* The frames that main has taken from ChildMsgQ.
GivenOut == IF ChildMsgQ # <<>> /\ ChildMsgQ # <<EndMsg>> THEN Queued - 1 ELSE Queued

\* Slot s is that of frame h, and the video thread, n frames on, has come to it.
AtFrame(s, h, n) == h \in Nat /\ h >= 1 /\ s = SlotOf(h) /\ h <= n + 1

FreshInv ==
  ppc \in Serving /\ ppc # "finish" =>
    \A s \in Slots : used[s] # 0 => \E h : AtFrame(s, h, Advanced) /\ GivenOut <= h

\* Once the head is set the card has had its first frame.
HeadInv ==
  headIn # -1 =>
    /\ \A c \in Children : Left(c) <= 3
    /\ \E h : AtFrame(headIn, h, Advanced) /\ GivenOut <= h + 1 /\ (ppc = "next" => GivenOut <= h)

LEMMA GivenIs ==
  ASSUME TypeInv, NEW a \in 0 .. NumFrames, Line(a)
  PROVE  /\ a \in Nat /\ GivenOut = a /\ Queued \in {a, a + 1}
         /\ ChildMsgQ = <<FrameMsg(a + 1)>> => Queued = a + 1
         /\ ChildMsgQ \in {<<>>, <<EndMsg>>, <<FrameMsg(a + 1)>>}
<1>1. a \in Nat /\ NumFrames \in Nat
  BY PipelineAssumption
<1>2. FrameMsg(a + 1).frameNum # EndMsg.frameNum
  BY <1>1 DEF FrameMsg, EndMsg, EndOfInput
<1>3. <<FrameMsg(a + 1)>> # <<EndMsg>> /\ <<FrameMsg(a + 1)>> # <<>> /\ <<EndMsg>> # <<>>
  <2>1. \A x, y : x # y => <<x>> # <<y>>
    OBVIOUS
  <2>2. \A x : <<x>> # <<>>
    OBVIOUS
  <2> QED
    BY <1>2, <2>1, <2>2
<1>4. CASE ChildMsgQ = <<>> /\ Queued = a
  BY <1>1, <1>3, <1>4 DEF GivenOut
<1>5. CASE ChildMsgQ = <<EndMsg>> /\ Queued = a
  BY <1>1, <1>3, <1>5 DEF GivenOut
<1>6. CASE ChildMsgQ = <<FrameMsg(a + 1)>> /\ Queued = a + 1
  BY <1>1, <1>3, <1>6 DEF GivenOut
<1> QED
  BY <1>4, <1>5, <1>6 DEF Line

\* The video thread is at most one frame behind what it has queued.
LEMMA QueuedReached ==
  ASSUME TypeInv
  PROVE  /\ Queued \in Int /\ Advanced \in Int /\ frameNum \in Nat
         /\ Queued <= Advanced + 1
         /\ vpc = "enqueue" => Advanced = Queued
         /\ vpc = "check" => Advanced = frameNum /\ Queued = frameNum
<1>1. frameNum \in Nat
  BY PipelineAssumption DEF TypeInv, TypeOK
<1> QED
  BY <1>1 DEF Queued, Advanced

\* main takes a frame from ChildMsgQ in one place only.
LEMMA GivenSteps ==
  ASSUME TypeInv, RingInv, QueueCap = 1, [Next]_vars
  PROVE  /\ GivenOut \in Nat /\ GivenOut' \in Nat
         /\ \/ GivenOut' = GivenOut
            \/ ppc = "next" /\ ppc' = "videoIn" /\ GivenOut' = GivenOut + 1
<1>1. PICK a \in 0 .. NumFrames : Line(a)
  BY DEF RingInv
<1>2. /\ a \in Nat /\ GivenOut = a /\ Queued \in {a, a + 1}
      /\ ChildMsgQ = <<FrameMsg(a + 1)>> => Queued = a + 1
      /\ ChildMsgQ \in {<<>>, <<EndMsg>>, <<FrameMsg(a + 1)>>}
  BY <1>1, GivenIs
<1>3. /\ FrameMsg(a + 1).frameNum = a + 1 /\ EndMsg.frameNum = EndOfInput
      /\ EndOfInput = -1 /\ frameNum \in Nat
  BY PipelineAssumption DEF FrameMsg, EndMsg, EndOfInput, TypeInv, TypeOK
<1>4. CASE VideoEnqueue
  <2>1. PICK m : m.frameNum = frameNum /\ Len(ChildMsgQ) < 1 /\ ChildMsgQ' = Append(ChildMsgQ, m)
    BY <1>4 DEF VideoEnqueue
  <2>2. ChildMsgQ = <<>>
    BY <1>2, <2>1
  <2>3. ChildMsgQ' = <<m>> /\ m # EndMsg
    BY <1>3, <2>1, <2>2
  <2>4. ChildMsgQ' # <<>> /\ ChildMsgQ' # <<EndMsg>>
    BY <2>3
  <2>5. Queued' = Queued + 1
    BY <1>4, VideoSteps
  <2>6. GivenOut' = Queued' - 1 /\ GivenOut = Queued
    BY <2>2, <2>4 DEF GivenOut
  <2> QED
    BY <1>2, <2>5, <2>6
<1>5. CASE NextFrame
  <2>1. ppc = "next" /\ ChildMsgQ # <<>> /\ ChildMsgQ' = Tail(ChildMsgQ)
    BY <1>5 DEF NextFrame
  <2>2. ChildMsgQ' = <<>>
    BY <1>2, <2>1
  <2>3. Queued' = Queued
    <3>1. frameNum' = frameNum /\ vpc' = vpc
      BY <1>5 DEF NextFrame, videoVars
    <3> QED
      BY <3>1 DEF Queued
  <2>4. GivenOut' = Queued
    BY <2>2, <2>3 DEF GivenOut
  <2>5. CASE ChildMsgQ = <<EndMsg>>
    BY <1>2, <2>4, <2>5 DEF GivenOut
  <2>6. CASE ChildMsgQ = <<FrameMsg(a + 1)>>
    <3>1. Head(ChildMsgQ).frameNum # EndOfInput
      BY <1>2, <1>3, <2>6
    <3>2. ppc' = "videoIn"
      BY <1>5, <3>1 DEF NextFrame
    <3> QED
      BY <1>2, <2>1, <2>4, <2>6, <3>2
  <2> QED
    BY <1>2, <2>1, <2>5, <2>6
<1>6. CASE /\ ~VideoEnqueue /\ Len(ChildMsgQ) < 1
           /\ ChildMsgQ' = Append(ChildMsgQ, EndMsg)
  <2>1. ChildMsgQ = <<>> /\ ChildMsgQ' = <<EndMsg>>
    <3>1. ChildMsgQ = <<>>
      BY <1>2, <1>6
    <3> QED
      BY <1>6, <3>1
  <2>2. Queued' = Queued
    BY <1>6, VideoSteps
  <2> QED
    BY <1>2, <2>1, <2>2 DEF GivenOut
<1>7. CASE ~VideoEnqueue /\ ChildMsgQ' = ChildMsgQ
  <2>1. Queued' = Queued
    BY <1>7, VideoSteps
  <2> QED
    BY <1>2, <1>7, <2>1 DEF GivenOut
<1>8. VideoEnd \/ PutBack => Len(ChildMsgQ) < 1
  BY DEF VideoEnd, PutBack
<1> QED
  BY <1>4, <1>5, <1>6, <1>7, <1>8, QueueSteps

LEMMA FreshStep ==
  ASSUME TypeInv, TurnInv, HeldInv, RingInv, NEW c, Children = {c}
  PROVE  FreshInv
<1> SUFFICES ASSUME ppc \in Serving, ppc # "finish", NEW s \in Slots, used[s] # 0
             PROVE  \E h : AtFrame(s, h, Advanced) /\ GivenOut <= h
  BY DEF FreshInv
<1>1. PICK a \in 0 .. NumFrames : Line(a) /\ UsedInv(a)
  BY DEF RingInv
<1>2. /\ a \in Nat /\ GivenOut = a /\ Queued \in {a, a + 1}
      /\ ChildMsgQ = <<FrameMsg(a + 1)>> => Queued = a + 1
  BY <1>1, GivenIs
<1>3. ~Out
  BY ServedAlone DEF Out
<1>4. InUse(a, s)
  BY <1>1 DEF UsedInv
<1>5. CASE ChildMsgQ = <<FrameMsg(a + 1)>> /\ s = SlotOf(a + 1)
  <2>1. AtFrame(s, a + 1, Advanced)
    BY <1>2, <1>5, QueuedReached DEF AtFrame
  <2> QED
    BY <1>2, <2>1
<1>6. CASE vpc = "enqueue" /\ s = tailIn
  <2>1. tailIn = SlotOf(Advanced + 1)
    BY DEF RingInv, TailInv
  <2>2. Advanced = Queued
    BY <1>6, QueuedReached
  <2>3. AtFrame(s, Advanced + 1, Advanced)
    BY <1>2, <1>6, <2>1, <2>2 DEF AtFrame
  <2> QED
    BY <1>2, <2>2, <2>3
<1> QED
  BY <1>3, <1>4, <1>5, <1>6 DEF InUse

\* The video thread goes back over no frame.
LEMMA AdvancedGrows ==
  ASSUME TypeInv, [Next]_vars
  PROVE  Advanced \in Int /\ Advanced' \in Int /\ Advanced <= Advanced'
<1> USE DEF ringVars, videoVars, mainVars, childVars, fileVars
<1>1. Advanced \in Int /\ frameNum \in Nat
  BY QueuedReached
<1>2. CASE VideoDecode
  <2>1. /\ vpc = "decode"
        /\ \/ frameNum' = frameNum + 1 /\ vpc' = "mark"
           \/ frameNum' = frameNum /\ vpc' = "eof"
    BY <1>2 DEF VideoDecode
  <2> QED
    BY <1>1, <2>1 DEF Advanced
<1>3. CASE VideoAdvance
  <2>1. vpc = "advance" /\ vpc' = "check" /\ frameNum' = frameNum
    BY <1>3 DEF VideoAdvance
  <2> QED
    BY <1>1, <2>1 DEF Advanced
<1>4. CASE Advanced' = Advanced
  BY <1>1, <1>4
<1> QED
  BY <1>2, <1>3, <1>4, VideoSteps

LEMMA HeadStep ==
  ASSUME TypeInv, TurnInv, RingInv, FreshInv, HeadInv, [Next]_vars, LeftLater,
         TypeInv', RingInv', FreshInv', QueueCap = 1, NEW c, Children = {c}
  PROVE  HeadInv'
<1> SUFFICES ASSUME headIn' # -1
             PROVE  /\ \A d \in Children : Left(d)' <= 3
                    /\ \E h : /\ AtFrame(headIn', h, Advanced') /\ GivenOut' <= h + 1
                              /\ ppc' = "next" => GivenOut' <= h
  BY DEF HeadInv
<1>1. /\ Advanced \in Int /\ Advanced' \in Int /\ Advanced <= Advanced'
      /\ GivenOut \in Nat /\ GivenOut' \in Nat
      /\ \/ GivenOut' = GivenOut
         \/ ppc = "next" /\ ppc' = "videoIn" /\ GivenOut' = GivenOut + 1
  BY AdvancedGrows, GivenSteps
<1>2. \A s, h : AtFrame(s, h, Advanced) => AtFrame(s, h, Advanced') /\ h \in Nat
  <2>1. PICK m \in Int, n \in Int : m = Advanced /\ n = Advanced' /\ m <= n
    BY <1>1
  <2>2. \A h \in Nat : h <= m + 1 => h <= n + 1
    <3>1. m <= n
      BY <2>1
    <3> QED
      BY <3>1
  <2>3. \A s, h : AtFrame(s, h, m) => AtFrame(s, h, n) /\ h \in Nat
    BY <2>2, Zenon DEF AtFrame
  <2> QED
    BY <2>1, <2>3
<1>3. \A d \in Children : Left(d) <= 3
  <2>1. CASE headIn = -1
    <3>1. VideoFinishedScan \/ VideoFinishedWrap
      BY <2>1, HeadSteps
    <3>2. ppc \in Serving /\ cur.child = c /\ c \in Children
      BY <3>1, HeadSteps DEF TypeInv, WorkTypes
    <3>3. At(c, "served")
      BY <3>2 DEF At, Served
    <3>4. Left(c) = 3
      BY <3>2, <3>3, LeftIs DEF LeftAt
    <3> QED
      BY <3>4
  <2>2. CASE headIn # -1
    BY <2>2 DEF HeadInv
  <2> QED
    BY <2>1, <2>2
<1>4. \A d \in Children : Left(d)' <= 3
  <2> SUFFICES ASSUME NEW d \in Children PROVE Left(d)' <= 3
    OBVIOUS
  <2>1. Left(d) \in 0 .. 7 /\ Left(d)' \in 0 .. 7
    BY DEF Left
  <2>2. Left(d)' <= Left(d) \/ Left(d)' <= 3
    BY DEF LeftLater
  <2>3. Left(d) <= 3
    BY <1>3
  <2> QED
    BY <2>1, <2>2, <2>3
<1>5. ~OnRenderReady
  <2> SUFFICES ASSUME OnRenderReady PROVE FALSE
    OBVIOUS
  <2>1. ipc["RENDER_READY"] # <<>> /\ ipc["RENDER_READY"] \in Seq(Children)
    BY ServerNames DEF OnRenderReady, Chosen, TypeInv, IpcTypes, Content, Channels
  <2>2. ipc["RENDER_READY"][1] = c /\ 1 \in 1 .. Len(ipc["RENDER_READY"])
    BY <2>1
  <2>3. From(ipc, "RENDER_READY", c)
    BY <2>2, ServerNames DEF From, Owner
  <2>4. At(c, "RENDER_READY") /\ c \in Children
    BY <2>3 DEF At
  <2>5. Left(c) = 4
    BY <2>4, LeftIs DEF LeftAt
  <2> QED
    BY <1>3, <2>4, <2>5
<1>6. ASSUME headIn' = i, UsedAt(used, i) # 0, VideoFinishedScan
      PROVE  \E h : AtFrame(headIn', h, Advanced') /\ GivenOut' <= h
  <2>1. ppc \in Serving /\ ppc # "finish"
    BY <1>6, HeadSteps
  <2>2. i \in Slots /\ used[i] # 0
    BY <1>6 DEF UsedAt, TypeInv, TypeOK
  <2>3. PICK h : AtFrame(i, h, Advanced) /\ GivenOut <= h
    BY <2>1, <2>2 DEF FreshInv
  <2>4. GivenOut' = GivenOut
    <3>1. ppc' # "videoIn"
      BY <1>6 DEF VideoFinishedScan
    <3> QED
      BY <1>1, <3>1
  <2> QED
    BY <1>2, <1>6, <2>3, <2>4
<1>7. ASSUME headIn' = tailIn, VideoFinishedWrap
      PROVE  \E h : AtFrame(headIn', h, Advanced') /\ GivenOut' <= h
  <2>1. PICK a \in 0 .. NumFrames : Line(a)
    BY DEF RingInv
  <2>2. a \in Nat /\ GivenOut = a /\ Queued \in {a, a + 1}
    BY <2>1, GivenIs
  <2>3. GivenOut <= Advanced + 1
    BY <1>1, <2>2, QueuedReached
  <2>4. Advanced >= 0
    <3>1. frameNum \in Nat /\ (vpc \in {"mark", "enqueue", "advance"} => frameNum >= 1)
      BY QueuedReached DEF TypeInv, WorkTypes, RingInv, TailInv
    <3> QED
      BY <3>1 DEF Advanced
  <2>5. tailIn = SlotOf(Advanced + 1)
    BY DEF RingInv, TailInv
  <2>6. AtFrame(tailIn, Advanced + 1, Advanced)
    BY <1>1, <2>4, <2>5 DEF AtFrame
  <2>7. GivenOut' = GivenOut
    <3>1. ppc' # "videoIn"
      BY <1>7 DEF VideoFinishedWrap
    <3> QED
      BY <1>1, <3>1
  <2> QED
    BY <1>2, <1>7, <2>3, <2>6, <2>7
<1>8. ASSUME headIn' = headIn, UsedAt(used', headIn) # 0, ppc' = "next"
      PROVE  \E h : AtFrame(headIn', h, Advanced') /\ GivenOut' <= h
  <2>1. headIn' \in Slots /\ used'[headIn'] # 0
    BY <1>8 DEF UsedAt, TypeInv, TypeOK
  <2>2. ppc' \in Serving /\ ppc' # "finish"
    BY <1>8 DEF Serving
  <2> QED
    BY <2>1, <2>2 DEF FreshInv
<1>9. ASSUME headIn' = headIn, ppc' = "next" => ppc = "next" /\ ~NextFrame
      PROVE  \E h : /\ AtFrame(headIn', h, Advanced') /\ GivenOut' <= h + 1
                    /\ ppc' = "next" => GivenOut' <= h
  <2>1. PICK h : AtFrame(headIn, h, Advanced) /\ GivenOut <= h + 1 /\ (ppc = "next" => GivenOut <= h)
    BY <1>9 DEF HeadInv
  <2>2. h \in Nat /\ AtFrame(headIn, h, Advanced')
    BY <1>2, <2>1
  <2>3. GivenOut' <= h + 1 /\ (ppc' = "next" => GivenOut' <= h)
    BY <1>1, <1>9, <2>1, <2>2
  <2> QED
    BY <1>9, <2>2, <2>3
<1>10. (\E h : AtFrame(headIn', h, Advanced') /\ GivenOut' <= h)
        => \E h : /\ AtFrame(headIn', h, Advanced') /\ GivenOut' <= h + 1
                  /\ ppc' = "next" => GivenOut' <= h
  <2> SUFFICES ASSUME NEW h, AtFrame(headIn', h, Advanced'), GivenOut' <= h
               PROVE  AtFrame(headIn', h, Advanced') /\ GivenOut' <= h + 1 /\ GivenOut' <= h
    OBVIOUS
  <2>1. h \in Nat
    BY DEF AtFrame
  <2> QED
    BY <1>1, <2>1
<1> QED
  BY <1>4, <1>5, <1>6, <1>7, <1>8, <1>9, <1>10, HeadSteps

\* With one card and a film of any length, the program never stands still: when
\* main waits for a frame the head is at the last frame given out or at the next,
\* so VideoInThread has room for it.
THEOREM OneCardGoesOn ==
  ASSUME numChildren = 1, IpcCap >= Needed PROVE Spec => []NeverAllWait
<1> DEFINE all == TypeInv /\ TurnInv /\ LogInv /\ Room
           held == TypeInv /\ TurnInv /\ OrderInv /\ HeldInv
           stop == TypeInv /\ TurnInv /\ OrderInv /\ MarkerInv /\ BirthInv
           ring == TypeInv /\ RingInv /\ FilesShowTheirFrame
<1>1. (Spec => []all) /\ (Spec => []held) /\ (Spec => []stop) /\ (Spec => []ring)
  BY TurnsHold, FramesHold, StopsHold, RingHolds
<1>2. PICK c : Children = {c}
  BY PipelineAssumption, FS_Singleton DEF numChildren
<1>3. QueueCap = 1 /\ numChildren * 2 <= 2^30
  BY QueueCapOfOne
<1>4. Init => HeadInv
  BY DEF Init, HeadInv
<1>5. all /\ held /\ ring => FreshInv
  BY <1>2, FreshStep
<1>6. all /\ all' /\ ring /\ ring' /\ FreshInv /\ FreshInv' /\ HeadInv /\ [Next]_vars => HeadInv'
  <2> SUFFICES ASSUME all, all', ring, ring', FreshInv, FreshInv', HeadInv, [Next]_vars
               PROVE  HeadInv'
    OBVIOUS
  <2>1. LeftLater
    BY LogStep
  <2> QED
    BY <1>2, <1>3, <2>1, HeadStep
<1>7. stop /\ ring /\ HeadInv => NeverAllWait
  <2> SUFFICES ASSUME stop, ring, HeadInv, AllWait PROVE FALSE
    BY DEF NeverAllWait
  <2>1. ppc = "next" /\ ChildMsgQ = <<>> /\ vpc = "check"
    BY <1>3, StopStep DEF StopsOnlyAtTheRing
  <2>2. (tailIn + 1) % frameCountIn = headIn
    BY <2>1 DEF AllWait, VideoWaits
  <2>3. PICK n \in Nat : n = frameNum /\ GivenOut = n /\ Advanced = n
    BY <2>1, QueuedReached DEF GivenOut
  <2>4. tailIn = SlotOf(n + 1)
    BY <2>3 DEF ring, RingInv, TailInv
  <2>5. headIn = SlotOf(n + 2) /\ headIn # SlotOf(n + 1) /\ SlotOf(n + 2) \in Slots
    <3>1. n + 1 \in Nat /\ n + 1 >= 1 /\ (n + 1) + 1 = n + 2 /\ n + 2 \in Nat /\ n + 2 >= 1
      BY <2>3
    <3> QED
      BY <2>2, <2>4, <3>1, SlotFacts
  <2>6. headIn # -1
    BY <2>5, RingSize DEF Slots
  <2>7. PICK h : AtFrame(headIn, h, n) /\ n <= h
    BY <2>1, <2>3, <2>6 DEF HeadInv
  <2>8. h \in Nat /\ h >= 1 /\ headIn = SlotOf(h) /\ (h = n \/ h = n + 1)
    BY <2>3, <2>7 DEF AtFrame
  <2>9. CASE h = n
    BY <2>5, <2>8, <2>9, SlotFacts
  <2>10. CASE h = n + 1
    BY <2>5, <2>8, <2>10
  <2> QED
    BY <2>8, <2>9, <2>10
<1> QED
  BY <1>1, <1>4, <1>5, <1>6, <1>7, PTL DEF Spec
=============================================================================
