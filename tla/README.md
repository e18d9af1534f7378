# gputrans: specification and proofs

gputrans takes a video file apart, has the graphics cards of the machine
denoise its frames in parallel, and saves the pictures before and after.  This
directory holds TLA+ modules of its concurrent core, TLC configurations that
check them on small instances, and TLAPS proofs for every size.

Paths below are relative to the repository; line numbers are of the commit the
modules were written from.  `PROJECT.json` maps every definition to its lines.

## 1. The system

| Component | Source | State it keeps | Operations |
|---|---|---|---|
| Blocking queue | `src/queue.c` | circular `itemTable`, `head`, `tail`, `full`, `empty`, a mutex, two condition variables; the list of all queues; `GlobalAbort` | `QueueCreate`, `QueueDestroy`, `QueueClear`, `QueueEnqueueItem`, `QueueDequeueItem`, `QueueUsed`, `QueueRemoveItem`, `QueueKillAll` |
| Video thread and frame ring | `src/video_in.c` | `headIn`, `tailIn`, `used[]`, the picture slots in shared memory | `initVideoIn`, `VideoInThread`, `getFrame`, `videoFinished`, `videoIn`, `videoOut` |
| Dispatcher | `src/main.c` | the message being handled, `childCount`, `cardInfo[]` in shared memory | the fork loop, the receive loop of `main`, `getNextFrame`, `sendFrame`, `SignalHandler`, `SoftExitParent`, `readConfigFile` |
| Rendering child | `src/render_child.c` | the picture on its card, the frame message | `do_child`, `SoftExitChild` |
| System V queue | `src/ipc_queue.c` | the kernel's queue, one static message buffer per process | `queueInit`, `queueDestroy`, `queueSendBinary`, `queueReceive` |
| Logging | `src/logging.c`, `src/ipc_logging.c` | `LoggingQ`, the list of outputs, the debug flag | `LogPrint` (children, video thread), `LogLocalPrintLine`, `LoggingThread`, adding and removing outputs |
| Linked list | `src/linked_list.c` | head, tail, count, a mutex | add, remove, lock, unlock |
| GPU denoiser | `src/cg_interface.c` | some thirty textures, the ping-pong framebuffers | one operation per rendering pass, `loadFrame`, `denoiseFrame`, `unloadFrame` |
| Fragment programs | `src/*.cg` | none | image arithmetic |

How they interact.  The parent starts `LoggingThread` and `VideoInThread`, then
forks one child per card of the configuration file.  Slots of the ring go round:

    VideoInThread --ChildMsgQ--> main --RENDER_FRAME--> child
         ^                        |                       |
         |     headIn, used[]     |                       |
         +------ videoFinished ---+<----- FRAME_DONE -----+

`ChildMsgQ` is a queue of `queue.c` between two threads of the parent.  The other
arrows are messages in one System V queue, which also carries every log line of
the children.  `headIn` and `used[]` are written by `main` and by the video
thread with no lock between them.

What is hard: two threads on unlocked ring indices; a condition variable that is
signalled once per change of a flag; a receive loop that blocks in the middle of
a handler; messages that are dropped when a shared queue is full; an end marker
that must reach every child; one message buffer for several threads; a signal
handler that counts children while they are still being forked; thousands of
rendering passes per frame that exchange the names of their textures; timeouts;
shutdown.  `PROJECT.json` lists each of these
under "hazards" with its line.

What makes it correct:

* queue: a bounded first-in first-out sequence whatever the interleaving, no
  null item handed out, no wakeup lost;
* ring: a slot belongs to one frame at a time and is freed exactly when it is
  done;
* dispatcher and children: each child is owed, or owes, exactly one message;
  frames leave in order, each is saved under its own number, all are saved, the
  program ends;
* supervision: `childCount` is right wherever the handler interrupts, the parent
  ends with its last child, not before and not never;
* configuration: one card for each line that names a display;
* denoiser: no pass draws into the texture it samples; the output is made of the
  frames of the running scene, all of them and no others, but for what passes that
  look at neighbours take from beyond the picture; the number that decides about a
  scene change counts every bad block but for what 16-bit texels lose;
* list and logging: links that agree as long as an item has one owner, a walk that survives the removal of the
  output it stands on, every line to every output that works.

## 2. Modules

| Module | What it is |
|---|---|
| `BoundedQueue` | what a queue promises: a sequence of at most `Capacity` items |
| `Queue` | `queue.c`, thread by thread; implements `BoundedQueue` |
| `QueueProofs` | theorems about `Queue` |
| `Pipeline` | one run of the program: video thread, ring, dispatcher, children, System V queue |
| `PipelineProofs` | theorems about `Pipeline` |
| `IpcBuffer` | the static buffer of `ipc_queue.c`, shared by `main` and the video thread |
| `Denoise` | a child's passes from `loadFrame` to `unloadFrame`: which texture holds what |
| `DenoiseProofs` | theorems about `Denoise` |
| `Supervisor` | fork loop, `childCount`, SIGCHLD handler, exit of the parent |
| `SupervisorProofs` | theorems about `Supervisor` |
| `ConfigFile` | `readConfigFile`, line by line |
| `ConfigProofs` | theorems about `ConfigFile` |
| `OrderedList` | what a linked list promises: a sequence of distinct items |
| `LinkedList` | `linked_list.c`; implements `OrderedList` |
| `LinkedListProofs` | theorems about `LinkedList` |
| `Logging` | `LoggingThread`, its outputs and the debug toggle; uses the operators of `LinkedList` |
| `LoggingProofs` | theorems about `Logging` |
| `ProofLemmas` | facts about numbers, sequences and finite sets that several proofs need |
| `MCQueue`, `MCPipeline`, `MCLinkedList`, `MCDenoise` | symmetry sets and picture sizes for TLC |

### Queue

A step of a thread runs from one point where another thread can interfere to the
next.  Table, indices and flags change only under the mutex, so each critical
section is one action, from the last return of a wait to the unlock or the next
wait.  There are three exceptions, because something happens *without* the mutex:
`QueueKillAll` broadcasts, another thread sets `GlobalAbort`, and a deadline
passes.  A thread therefore stops after its test and before its sleep
(`enqPark`, `deqPark`), and after its sleep before it reads `GlobalAbort`
(`deqAbort`).

| Code | Actions |
|---|---|
| `QueueEnqueueItem` | `EnqueueCall`, `EnqueueFull`, `EnqueueSleep`, `EnqueueWake`, `EnqueueStore` |
| `QueueDequeueItem` | `DequeueCall`, `DequeueEmpty`, `DequeueSleep`, `DequeueInvalid`, `DequeueTimeout`, `DequeueWake`, `DequeueAbort`, `DequeueNothing`, `DequeueTake` |
| `QueueConditionUpdate` | operator of the same name, part of store, take and clear |
| `QueueClear`, `QueueKillAll` | actions of the same name |

`ms_timeout` is one of three kinds: negative (`"block"`), not negative
(`"timed"`), and not negative with a `tv_nsec` that reaches a second
(`"carry"`), which `pthread_cond_timedwait` answers with `EINVAL` without
releasing the mutex.  Spurious wakeups are included.  `x & numMask` is `x %
numElements`, the same for the powers of two `QueueCreate` rounds to.  In the
program every caller passes -1 and nobody calls `QueueClear` or `QueueKillAll`;
they are modelled because they are the interface of the queue.

### Pipeline

A picture is the number of the frame it shows, 0 if none, so that "the file
shows its frame" is an equation.  `ChildMsgQ` is the sequence that `Queue`
implements, of `Rounded(2 * numChildren) - 1` items.  The System V queue is one
sequence per message type, since a receiver names the types it takes; the parent
takes the lowest type first (`ServerTypes`).  `Post` loses a message that finds
`IpcCap` messages (`Pending`), as `msgsnd` with `IPC_NOWAIT` does when the result is ignored.
A handler sends up to `LogLines[phase]` log lines before its own message, where a
phase is the part of the program it belongs to:

| Phase | Lines in the code | Where |
|---|---|---|
| `video` | up to 9 | `main` and the video thread up to `VIDEO_READY`: `src/main.c:106` and `:113`, `src/queue.c:77`, `src/video_in.c:93`, `:259`, `:270`, `:278`, `:286`, `:339` |
| `init` | 13 | a child up to `READY`: `src/render_child.c:127`, `src/cg_interface.c:265` and `:363` to `:409` |
| `ready`, `renderReady`, `marker` | 1 each | `main`: `src/main.c:168` or `:176`, `:190`, `:231` |
| `mode` | 26 | a child in `cg_enable`: `src/render_child.c:161`, and `src/cg_interface.c:318` for each of 25 programs |
| `frame` | up to 3 | `src/cg_interface.c:1997` and `:2432`, `src/render_child.c:242` |
| `exit` | 2, or 3 of a child that dies | `src/render_child.c:154`, `:242`, and `:246` to `:252` |

Not counted are the lines that only come when something else has gone wrong: a
listing the Cg compiler prints with a program (`src/cg_interface.c:323`), bad frames
(`src/video_in.c:164`, see `IpcBuffer`), framebuffers that are not complete
(`src/cg_interface.c:524` to `:548`), outputs that are closed (see `Logging`).

The ring has `frameCountIn` slots, computed as `initVideoIn` does from the number of
children and `maxFrames`, the frames that fit a segment of shared memory; the
program refuses to start with fewer than `MIN_FRAMEBUFFER`, which is an assumption
of the module.

| Code | Actions |
|---|---|
| `VideoInThread` | `VideoStart`, `VideoCheck`, `VideoDecode`, `VideoMark`, `VideoEnqueue`, `VideoAdvance`, `VideoEnd` |
| `main`, start-up | `AwaitVideo`, `Fork` |
| `main`, receive loop | `OnReady`, `OnRenderReady`, `OnFrameDone`, `OnOther` |
| `videoFinished` | `VideoFinished`, `VideoFinishedScan` (one slot a step), `VideoFinishedWrap` |
| `getNextFrame`, `sendFrame`, `videoIn` | `NextFrame`, `PutBack`, `VideoIn` |
| `do_child` | `ChildInit`, `ChildRenderMode`, `ChildLoad`, `ChildRender`, `ChildExit` |
| a child that dies with a card error (`checkGLErrors`) | `ChildDie`, for the children in `Mortal` |
| SIGCHLD handler | `ParentExit` |

The ring is where the granularity matters: the video thread's test, decode, mark,
enqueue and advance are separate steps, and so is each slot `videoFinished`
looks at.  Merged are steps between which no other process touches the same
state: receiving a FRAME_DONE and saving its output slot (the slot is still in
use), dequeuing a frame message and sending it on (`main` is the only reader of
one and the message is in nobody's hands in between), the end of the scan loop
and the test that follows it.  Decoding and loading a picture are one step each:
the model tells a right picture from a wrong one, not a torn one.

`guard` is the word before `used[]`, which `videoFinished` reads while `headIn`
is -1.  It is padding or part of an allocator's header: 0 with 64-bit glibc, not
0 on 32 bits.  Both are explored.

`ParentExit` assumes that the handler sees every child's exit; what happens when
it does not is the subject of `Supervisor`.

### IpcBuffer

`Pipeline` sends and receives in one step.  `IpcBuffer` takes those steps apart:
`queueReceive` returns a pointer into the buffer and `main` reads it field by
field (`Receive`, `Switch`, `FrameDone`, `Finish`), and a send writes the type,
copies the body and calls `msgsnd` (`MainSetType`, `MainCopy`, `MainSend`, and the
same three for the video thread, which logs the bad frames `getFrame` meets).  A
message is its type and two words, `first` and `index`, under the names they have
in the structure that lies there.  `LOG_CRIT` and `CHILD_RENDER_FRAME` are both 2,
so a log line that arrives as a client's message is a frame to render.  Children
have buffers of their own and are two steps each.  Bounds: `MaxDone` frames per
child, `MaxBad` bad frames.

### Denoise

One action per pass, in the order of `denoiseFrame`, with the loops of the motion
search at their real length: 25 candidates at a quarter and at half of the size,
25 and one at full size, 9 at half pixels, each with 64 additions and one to
three decimations.

A picture is not its pixels but the set of frames they were computed from.  A pass
draws into the corner of its target that is 1, 1/2, 1/4 or 1/8 of it on each side,
so a texture has four such sets, one for each *shell*: `Sampled` joins those of
the corner that is read, `Drawn` replaces those of the corner that is written.
Memory that nothing was drawn to holds `Undefined`, and so does a texture that a
pass draws into while it samples it; passes that take their textures as
parameters test for this and return (`Guarded`).  A motion vector says which pixel
to move, and is not a source of the picture.

All this is said of the rows of the picture.  Each texture also has 32 rows above
and 32 below (16 for chroma), into which `loadFrame` uploads nothing
(`src/cg_interface.c:698` to `:711`): they are undefined at first, and the passes
draw over them like over the rest, so that later they are made of older pictures.
What lies there is one source, `Margin`.  A pass that samples beside its own texel
brings it into the rim of the picture and names it by `Edge`: the decimations, the
sums of differences, `move_frame`, which bounds only the corner of a block, and
`sharpen_frame`, which takes the row below.

`tex` is the variable part of the names: `vectorTexID` and the like are exchanged
by most passes (`Swapped`), and what a name stands for depends on how often.

The count of bad blocks is arithmetic, not provenance: `image` is the picture of
zeros and ones that `vector_badcheck` draws, `Decimated` what `decimate_add` makes
of it, with the texels that `drawQuadMulti`'s coordinates reach under nearest
filtering (`Sample`).  A texel has 16 bits (`GL_RGB16`, `src/cg_interface.c:175`): it
is a multiple of 1/65535 (`One`), the average of four of them is rounded at each
halving, and since OpenGL does not say how, `Roundings` gives what a card adds
before it drops the two lowest bits (0 rounds down, 2 to the nearest).  The code
multiplies the last texel by four for each halving and cuts it to an `int`
(`Truncated`), in a `float` of 24 bits that may round up to an integer first.

| Code | Actions |
|---|---|
| `loadFrame`, `unloadFrame` | of the same name |
| `denoiseFrame`, between its calls | `CopyInput`, `Decimate`, `SceneChange`, `CopyOutput` |
| `contrast_frame`, `mark_low_contrast_blocks`, `move_frame`, `average_frame`, `correct_frame2`, `denoise_frame_pass2`, `sharpen_frame`, `vector_range` | of the same name |
| `mb_search_44`, `_22`, `_11`, `_00` with `SAD`, `SAD_pass2`, `SAD_halfpel` | `zero`, `Iterate`, `Summed`; the searches follow each other in `NextCandidate` |
| `vector_update` | `Halve`, `vector_update` |
| `vector_badcheck` | `vector_badcheck`, `BadDecimate`, `BadRead` |

Left out: the values of pixels, and how far what lies beyond the picture gets into
it.  `luma_contrast` and `chroma_contrast` are 1.0 in the source, which makes
`contrast_frame` return at once; both settings are explored, since the variables are
there to be changed.

### Supervisor

`signal_child` interrupts the main thread between any two of its steps and then
runs alone on it: a main step needs `hpc = "idle"`.  A child's exit raises
SIGCHLD, which does not queue.  If it is raised while the handler runs it is
blocked on the main thread and the kernel gives it to another thread, where the
handler's first test makes it return: `Deliver` then clears the signal and
changes nothing else.  The increment `childCount++` is one step, as on the
machines the program runs on when the interrupter is a handler of the same
thread and the variable a plain word.

| Code | Actions |
|---|---|
| fork loop of `main`, `atexit` | `Fork` (may fail), `CountUp`, `Atexit` |
| `LogShowLine` in the receive loop | `Show`, which takes and releases the mutex of `LoggingQ` |
| `signal_child` | `Reap`, `CountDown`, `PrintLeft` (waits for that mutex), `TestLeft`, `Return` |
| `exit`, `SoftExitParent` | the exit branch of `TestLeft` |
| the kernel | `Die`, `Deliver` |

Four Boolean constants say what the environment may do, because each switches on
a different way to go wrong: `MayFail` (fork returns -1), `Quick` (a child ends
before `main` is in its receive loop; only a death by signal is that fast, since
`SoftExitChild` sleeps for a second), `Overlap` (a child ends while the handler
runs), `Logs` (the children log).  The program stops at the end, so these runs
do not check for deadlock.

### ConfigFile

A line is a display, `"blank"` (skipped) or `"spaces"` (nothing left once a
comment is cut).  Lines longer than the buffer, which `fgets` would split, are
left out.  The buffer is a local: before the first successful `fgets` it holds
one of `Garbage`.  `ReadLine` is one turn of the loop, with `Fgets` setting the
end-of-file flag only when a read comes up against the end.  What the table should
hold is said by counting: `Rank(p)` is the number of lines up to `p` that name a
display, and the card of such a line is entry `Rank(p)`.

### LinkedList and Logging

`LinkedListAdd` and `LinkedListRemove` are operators on the value of a list, so
that both modules use one translation.  `LinkedList` calls them from several
threads; the comparison of `item->list` before the lock is a step of its own
(`RemoveCheck`, then `RemoveUnlink`).  Nothing in `linked_list.c` stops two threads
from removing one item: both may pass the comparison, and the second unlinks an
item that is no longer there.  `LogOutputRemove` and `QueueDestroy` remove what one
thread owns.  The constant `OneOwner` says whether the callers do so; the run and
the theorems have it `TRUE`, and `List_shared.cfg` shows what comes of `FALSE`.

`Logging` has one walk as many steps (`LockList`, `Visit`, `Advance`, `Walked`),
with `next` saved before the output is written and perhaps freed.  Memory is
explicit: `freed` is the set of outputs whose block has been given back, and a
new debug file may get such a block.  `logging_toggle_debug` has no caller: `main`
does not install it as a handler.  It is modelled as the call of any of the threads
`Togglers`, and its test of `Debug`, the change of the list (under the list's
mutex) and the setting of `Debug` are three steps (`ToggleStart`, `ToggleAdd` or
`ToggleRemove`, `ToggleEnd`), since no lock is held around them.  Bounds:
`MaxLines` lines from outside, `MaxFailures` outputs that begin to fail,
`QueueCap` lines in `LoggingQ`.

## 3. Runs

| Run | Instance | Shows |
|---|---|---|
| `queue_api` | three threads (one writes, one reads, one does both), 4 slots, 2 items, all timeouts, clears, abort | `TypeOK`, `QueueInv`, `DequeuedItemIsReal`, `ImplementsBoundedQueue` |
| `queue_pair` | one writer, one reader, 4 slots, 2 items, calls with and without timeout, abort, no clears | `NobodyStranded`, `ImplementsBoundedQueue`, `SleepersReturn`, `TimeoutReturns`, `WokenReadersHearAbort` |
| `pipeline_one` | one card, ring of 5, 8 frames, up to as many log lines as in the code, room for 60 messages, both guards | `TypeOK`, `SlotHasOneOwner`, `UsedCountsOwners`, `LoadsItsFrame`, `FilesShowTheirFrame`, `NeverAllWait`, `Completes` |
| `pipeline_two` | two cards, one of which may die, ring of 5, 3 frames, up to 3 lines while a card starts and 1 elsewhere, room for 27 messages, both guards | `OneTurnEach`, `DispatchedInOrder`, `NeverAllWait`, `Completes` |
| `pipeline_race` | two cards, ring of 7, 9 frames | `LoadsItsFrame` fails |
| `ipc_badframe` | two children, two frames each, one bad frame | `Continuing` fails |
| `denoise_frames` | three frames, pictures of 9 x 9, 12 x 13 and 16 x 16 blocks, texels rounded down or to the nearest, with and without contrast | `TypeOK`, `NamesDistinct`, `OutputBlendsScene`, `BadBlocksAreCounted` |
| `supervisor_exit` | 4 children, failing forks, overlapping exits, logging; no early deaths | `TypeOK`, `CountIsExact`, `AllChildrenExited` |
| `supervisor_apart` | 4 children, early deaths; no exit while the handler runs | `NoneLeftWaiting`, `EndsWithItsChildren` |
| `config_lines` | all files of up to 4 lines, a table of 2 cards | `TypeOK`, `ListedCardsAreRead` |
| `list_calls` | 4 items, 2 threads that remove, each item by one at a time | `LinksAgree`, `ImplementsOrderedList` |
| `logging_walk` | console, syslog, 2 blocks for debug files, 2 togglers, 1 line from outside, 2 failures, a queue of 1 | `TypeOK`, `NoUseAfterFree`, `NothingSkipped`, `LinesReachSyslog` |

`ImplementsBoundedQueue` is asked twice because a specification that may be
emptied at any time (`queue_api`) is weaker than one that may not
(`queue_pair`; constant `Clearable` of `BoundedQueue`).  `ChildMsgQ` is such a pair of
one reader and one writer at a time: `main` reads, the video thread writes until it
has queued the end marker, and `main`, which puts the marker back
(`src/main.c:218`), after that.

More configurations show what goes wrong where an assumption of these runs is
dropped.  They are to be run by hand, each ends with a counterexample (except
`Ipc_quiet.cfg` and `Pipeline_stops.cfg`, which hold), and section 5 tells what it
is.

| Configuration | Module | Refutes | What differs from the passing run |
|---|---|---|---|
| `Queue_stranded.cfg` | `MCQueue` | `NobodyStranded` | two writers |
| `Queue_timeout.cfg` | `MCQueue` | `TimeoutMeansEmpty` | a timed reader |
| `Queue_carry.cfg` | `MCQueue` | `TimeoutReturns` | a deadline that overflows a second |
| `Queue_abort.cfg` | `MCQueue` | `AbortIsHeard` | an abort |
| `Pipeline_stall.cfg` | `MCPipeline` | `EveryClientIsTold` | two cards, ring of 5, 6 frames |
| `Pipeline_stops.cfg` | `MCPipeline` | nothing: `StopsOnlyAtTheRing` holds | as above, a mortal child |
| `Pipeline_startup.cfg` | `MCPipeline` | `FilesShowTheirFrame` | two cards, ring of 5, 7 frames |
| `Pipeline_flood.cfg` | `MCPipeline` | `EveryClientIsTold` | a System V queue of 49 messages, 2 frames |
| `Supervisor_early.cfg` | `Supervisor` | `AllChildrenExited` | early deaths |
| `Supervisor_leftover.cfg` | `Supervisor` | `NothingLeftBehind` | one child, early deaths |
| `Supervisor_lost.cfg` | `Supervisor` | `NoneLeftWaiting` | an exit while the handler runs |
| `Supervisor_fork.cfg` | `Supervisor` | `EndsWithItsChildren` | a failing fork |
| `Supervisor_selflock.cfg` | `Supervisor` | `EndsWithItsChildren` | logging |
| `List_shared.cfg` | `MCLinkedList` | `LinksAgree` | two threads may remove one item |
| `Logging_toggle.cfg` | `Logging` | `OneDebugFile` | |
| `Config_example.cfg` | `ConfigFile` | `OneCardPerLine` | |
| `Config_table.cfg` | `ConfigFile` | `CardsFitTable` | |
| `Ipc_slot.cfg` | `IpcBuffer` | `OneSlotForBoth` | |
| `Ipc_quiet.cfg` | `IpcBuffer` | nothing: `Continuing` holds | no bad frame |
| `Denoise_vectors.cfg` | `MCDenoise` | `VectorsOfThisScene` | |
| `Denoise_margin.cfg` | `MCDenoise` | `OutputIsOnlyTheScene` | |
| `Denoise_count.cfg` | `MCDenoise` | `NoBadBlockIsLost` | |
| `Denoise_wide.cfg` | `MCDenoise` | `BadBlocksAreCounted` | a picture of 17 x 9 blocks |

Why the bounds are enough.  Four slots let the indices of the queue wrap with the
table neither full nor empty, and three threads let a woken thread lose the race
for its slot or item to another.  A ring of five is the smallest `initVideoIn`
admits (`MIN_FRAMEBUFFER` 10, halved), and eight frames go round it more than
once.  With one card at most three frames are in flight (`ChildMsgQ` holds one,
`main` or the child one, the video thread one), fewer than the ring has slots,
which is why a single card is safe even while `headIn` is -1.  With two cards the
program is only sure to finish when the film fits the ring with two slots to
spare (section 4); `pipeline_two` has such a film and asks what the other runs
cannot, that the turn taking, the order and the shared end marker are right.  `IpcCap` is
exactly `Needed` (section 4) in the passing runs that log, so that nothing is
dropped.  The real queue holds 16384 bytes by default, some fifty log lines, which
is less: `Pipeline_flood.cfg`.  Four children are two more than it takes for a
signal to stand for several exits with others still alive; the proofs cover the
rest.  Four lines are two more than the table of the model has cards.  Four list
items give a first, a last and two inner ones; two blocks for debug files let a
new file get the block of the old or another.  Three frames let a scene last for
one, two or three of them and begin after another; the names of the textures are
permuted differently by a frame with and without contrast.  The three grids of
blocks take four halvings, through odd and even sizes, square and not.  Which
sets of bad blocks are tried is the constant `BadSets`: for TLC none, a corner, a
block near the middle and one in the last row, every row and column, two opposite
corners, three of every four neighbours, and all (`SomeBad`).
The theorem about the count holds for whatever sets are chosen.

Fairness.  `Queue!FairSpec`: every thread inside the queue is run (weak fairness
of its steps), a thread that finds the mutex free again and again gets it (strong
fairness of the two wakes; pthread mutexes promise no more than progress, but a
scheduler that starves a thread for ever is not what the property is about), a
deadline passes (strong fairness of `DequeueTimeout`: false signals may end the
wait again and again, but the deadline is an absolute time, computed once before
the loop, and stays in the past), and
the reader returns for another item, as `LoggingThread` and `main` do in their
loops.  `Pipeline!FairSpec`: weak fairness for the video thread, for `main` and
for every child, which an operating system's scheduler gives to each process.
`Supervisor!FairSpec`: weak fairness for the main thread, in and out of its
handler, and for the delivery of a pending signal; nothing makes a child end.
`Logging!FairSpec`: weak fairness for `LoggingThread` alone.  `IpcBuffer!Spec`: weak
fairness for `main`, for the video thread once it has begun to log, and for every
child; nothing makes a frame bad.

## 4. Proofs

Every invariant and both refinements of the passing runs are proved, for every
value of the constants unless an assumption is named; only liveness is not.
`ProofLemmas` holds what the proofs share.  Its `LeastNumber` (a set of numbers
that is not empty has a least element) is how the proofs do induction: by looking
at the least counterexample.

### Queue

`QueueProofs`, for any number of threads, items and slots (at least two):

* `TypeCorrect`: `Spec => []TypeOK`.
* `QueueInvariant`: `Spec => []QueueInv`.  `QueueInv` is inductive relative to
  `TypeOK`.  Its parts: the flags match the indices (`FlagsMatchIndices`); the
  slots from `tail` to `head` hold items (`OccupiedSlotsHoldItems`), which needs
  that a thread inside `QueueEnqueueItem` has an item (`EnqueuersCarryItems`) and
  that the flags are right; a thread owns the mutex exactly at the places between
  its lock and unlock (`MutexOwner`); sleepers are inside their wait
  (`SleepersAreWaiting`).
* `DequeuedItemsAreReal`: `Spec => []DequeuedItemIsReal`, a consequence.
* `NoLostWakeup`: `Spec => []NobodyStranded` when there is at most one writer and
  one reader.  The strengthening says that a writer asleep, or about to sleep,
  has `full` true, and a reader `empty`; it holds because one signal empties a
  wait set of one.  Without the assumption it is false (`Queue_stranded.cfg`).
* `Refinement`: `Spec => ImplementsBoundedQueue`.  The sequence is the slots from
  `tail` on.  A store appends to it, a take drops its head, a clear empties it, and
  every other step leaves it alone.  The flags decide between the full and the
  empty table, so it rests on `QueueInv`.

The assumptions are `QueueAssumption` (at least two slots, the null pointer is
neither an item nor a thread) and, for `NoLostWakeup`, the number of callers.
The lemmas are arithmetic of the circular table: what adding one to `head` or
`tail` does to the number of occupied slots.

### Pipeline

`PipelineProofs`, for any number of children, frames and slots:

* `PipelineTypes`: `Spec => []TypeOK`, also when messages are lost.  The
  strengthening `TypeInv` says what the messages of each type are (a `RENDER_FRAME`
  names a frame and a slot, a `FRAME_DONE` a child as well) and what `main` and a
  child carry while they work.
* `OneTurnForEach`, if `IpcCap >= Needed`: `Spec => []OneTurnEach`.
* `FramesGoOutInOrder`, if `IpcCap >= Needed`: `Spec => []DispatchedInOrder`.
* `OneOwnerPerSlot`, `UsedIsExact`, `LoadsTheFrameItWasGiven` and `FilesAreRight`,
  if there is one card and `IpcCap >= Needed`: the four invariants of `pipeline_one`.
* `EachFrameOnce`: `Spec => []OnceInv`, no frame is handed out twice, also when
  messages are lost.
* `FirstLapLoads`, `FirstLapFiles` and `FirstLapOwners`, and `FirstLapUsed` if
  `IpcCap >= Needed`: the same four invariants for any number of cards, in the form
  `Spec => [](FirstLap => ...)`.  `FirstLap` says that no more frames have been
  decoded than the ring has slots (`frameNum <= frameCountIn`).

`Needed` is the room the protocol relies on: `MostLines + numChildren + 2` messages,
where `MostLines` is the number of log lines that can be sent before `main` must
read one, `LogLines["video"]` and for each child `PerChild`, the sum of all other
phases (`exit`, `frame`, `marker`, `renderReady`, `mode`, `ready`, `init`).  With the
lines of section 2 that is 60 messages for one card and 49 more for each further
card, and `numChildren + 2` if nobody logs.  A default System V queue has room for
about fifty lines, so that the program relies on `main` keeping up, or on a larger
queue; the theorems say how large is surely enough.  The bound is an invariant too.  `TurnInv` puts every child's turn in exactly one
of six places (with the child, with `main`, in a message to the child, in one of
the three kinds of its answers), so that one message per child is outside
`LOG`.  `LogInv` bounds the log lines: `main` takes a `FRAME_DONE` only when no line
is left, and the messages it takes before a line come once per child.  `Left(c)`
counts down the handlers that child `c`, and `main` for it, can still run before
`main` must come to the lines, and `Weight(Left(c))` adds up the lines these may
send.  Together with those of the video thread they give `Room`: the next send,
after its handler's log lines, finds the queue not full.

The order of the frames is `OrderInv`: the frames saved so far are `1 .. g`, and
`ChildMsgQ` holds those that follow `g`, as far as the video thread has come, with
the end marker last.  `InputFilled` and `OutputFilled` say that a slot that is
passed on holds a picture, since "saved" is "the file is not blank".  `HeldInv`
gives every frame that has been sent out and not saved a child that has it, and
`TurnInv` gives a child one frame, so there are at most as many as children.

With one card `ChildMsgQ` has one place.  `RingInv` says that frame `f` lies in
slot `(f - 1) % frameCountIn`, that of the frames only the last one given out
(`a`), the one queued (`a + 1`) and the one the video thread is decoding are alive,
and that `used[]` is 1 in exactly those slots.  Three consecutive slots of at
least five do not meet, whatever `videoFinished` makes of `headIn`: the invariant
does not mention it.  With two cards the same statements are false
(`pipeline_race`, `Pipeline_startup.cfg`), but not before the ring wraps:

* `OnceInv` needs no room for messages and no first lap.  The numbers in
  `ChildMsgQ` increase, a frame that a child has (in a message, at work, or with
  `main` for release: `Has`) comes before all of them, and no other child has it.
  It is inductive because each way a frame can move (`HasMoves`) is out of the
  queue's front or from one hand to the next; a lost message or a dead child
  only takes a frame away.
* `LapInv` says that in the first lap frame `f` is decoded into slot `f - 1` and
  nowhere else, so that whatever names frame `f` also names its slot.  Nothing
  said about `headIn` or `used[]` is needed: the tail meets no slot twice.
* Slots and frames are then the same thing, and "one owner per slot" is "one
  place per frame" (`LapHolders`).
* `BusyInv` says that `used[]` is 1 exactly where the frame is queued, with a child
  or about to be queued.  A frame whose message is dropped stays marked for ever,
  which is why `FirstLapUsed` alone needs the room.

So what these runs find takes a film of more frames than the ring has slots.

Whether the program can come to stand still is a question about a state, so half
of `Completes` can be proved.  `AllWait` says that a child is left and nobody can
take a step: every child waits for a message, `main` for a message, a frame or a
place in `ChildMsgQ`, and `VideoInThread` for a slot or a place, or it has ended.

* `StopsAtTheRing`, if `IpcCap >= Needed`: `Spec => []StopsOnlyAtTheRing`.  If
  everyone waits, `main` is in `getNextFrame` with `ChildMsgQ` empty and the video
  thread finds the ring full.
* `ShortFilmGoesOn`, if `IpcCap >= Needed` and `NumFrames + 2 <= frameCountIn`, and
  `OneCardGoesOn`, if there is one card and `IpcCap >= Needed`:
  `Spec => []NeverAllWait`.

`StopStep` goes through the places `main` may wait at.  In the receive loop with no
message it cannot be that a child waits too, for then the child's turn would be
nowhere (`TurnInv`).  Before the loop the video thread owes it `VIDEO_READY`
(`BirthInv`).  It cannot wait to put the end marker back, because the queue it
took it from is empty (`OrderInv`).  So it waits for a frame, and the video thread
has not ended, since from then on the marker is in `ChildMsgQ` or in `main`'s hand
(`MarkerInv`).  What is left is the ring, and it does happen
(`Pipeline_stall.cfg`): a card that is ready takes `main` into `getNextFrame` while
the answer that would free a slot is not yet read.  With a film that leaves two
slots free the tail never comes round and the head is never in front of it
(`ShortInv`).  With one card the head, once set, is the slot of a frame that `main`
gave out last or has not given out yet, and that the video thread has reached
(`HeadInv`).  When `main` waits for a frame there is none left to give, so the head
is at most one slot from the tail, and the ring is not full.  That `headIn` is set
late, and scanned for while slots are marked, does no harm here, because with
one card only the video thread works during the scan.
`StopsAtTheRing` and `ShortFilmGoesOn` are stated for `numChildren * 2 <= 2^30`:
`QueueCreate` rounds up to a power of two by shifting an `int`, and above that the
model gives `QueueCap` no value.

The assumptions on the constants are `PipelineAssumption` and `ClientTypes`, that
no child's message type is one of the server's: they begin at
`Q_MSG_CLIENT_START` (`include/ipc_queue.h:46`, `src/render_child.c:144`).

### Supervisor

`SupervisorProofs`, for any number of children and any setting of the constants
unless said otherwise:

* `SupervisorTypes`: `Spec => []TypeOK`.
* `ChildCountIsExact`: `Spec => []CountIsExact`.
* `NoOrphans`, if `~Quick`: `Spec => []AllChildrenExited`.
* `ZombiesAreCollected`, if `~Overlap`: `Spec => []NoneLeftWaiting`.

The inductive invariant `SupervisorInv` adds to these that children are born in
the order of the loop index (`BornInOrder`), that the index says how far `main`
has got (`PlaceMatchesIndex`), and that, if children are not quick, the handler
does not run before the receive loop (`QuietBeforeLoop`).  The type of
`childCount` needs the count to be exact: it is bounded only because the number
of reaped children is.  `NoOrphans` follows because an exact count of zero with
every child born leaves no child that is not reaped.  `Supervisor_early.cfg`
shows why it needs its assumption.  The last theorem needs
`ZombiesAreNoticed`: a zombie has a signal pending or a handler that has not yet
found `waitpid` empty, and no signal is pending while a handler runs.
`Supervisor_lost.cfg` is the counterexample with overlapping exits.

### ConfigFile

`ConfigProofs`, for files of any length and tables of any size: `ConfigTypes`
(`Spec => []TypeOK`) and `CardsAreRead` (`Spec => []ListedCardsAreRead`).
`ReadInv`: until the end of the file is seen there are exactly `Rank(pos)` cards,
afterwards at least that many, and each line read that names a display is in its
place.  `RankFacts` are the lemmas on counting: `Rank` grows by one at a line that
names a display and nowhere else.

### Linked list and logging

`LinkedListProofs`, for any items and threads, if an item has one owner
(`OneOwner`; false without it, `List_shared.cfg`):

* `ListLinksAgree`: `Spec => []LinksAgree`.  The strengthening is `ChecksStand`: an
  item between check and unlink is still on the list and no two threads have
  checked the same one.
* `ListRefinement`: `Spec => ImplementsOrderedList`.  `LinksAgree` does not exclude
  a cycle cut off from the head; `CanWalk` does.  It says that some sequence without
  repetition starts at the head, follows `next`, ends at the tail and meets every
  item, and that sequence is the abstract list.  Adding at either end extends
  it, removing takes one element out (`WithoutElement`).

`LoggingProofs` uses these lemmas for the list of outputs (whose adds and removes
are single steps under the list's mutex) and proves, for any number of debug files,
togglers, lines and failures:

* `NoOutputUsedAfterFree`: `NoUseAfterFree`, from `MemoryInv`: the list can be walked, what is on it is not
  freed, the mutex is held during a walk, and the walk's pointer is on the list.
  `next` is saved before an output is written, and it survives because only the
  output just visited can be dropped while the mutex is held.
* `LoggingTypes`: `TypeOK`.  That the lines stay within their bound needs
  `Accounted`: every failure is an output still on the list, a message under way,
  or one that was logged.
* `EveryOutputGetsEveryLine`: `NothingSkipped`.  `WalkProgress` places the walk in
  the list: the outputs before it have this line, those after it the lines before.

### Denoise

`DenoiseProofs`, for any number of frames, both settings of the contrast and, but
for the last, every picture size:

* `TexturesStayApart`: `Spec => []NamesDistinct`.
* `OutputIsTheScene`: `Spec => []OutputBlendsScene`: the output is made of all the
  frames of the scene and no others, and of nothing else but `Margin`.
* `DenoiseTypes`: `Spec => []TypeOK`.
* `EveryBadBlockCounts`, if `SquareEnough`: `Spec => []BadBlocksAreCounted`: the number
  read is at most `Lost(i, factor)` less than the number of bad blocks, after `i`
  halvings that divide by `factor`.  That is 2 blocks at 720 x 480 and 720 x 576
  (7 halvings, 16384), and 1 on the grids of the run.

The inductive invariant `Inv` has two halves.  `CardInv`: `tex` takes names to
textures and is injective, and textures hold frames; a `Swapped` map is injective
if the old one was, and every pass either leaves `tex` alone or swaps.
`PictureInv` says, at each place of `denoiseFrame`, of which frames the frame,
`ref`, `avg` and `avg2` are made: before `loadFrame` the averages hold the scene so
far (unless a new scene is due), after `CopyInput` `ref` holds this frame, after
`average_frame` `avg` holds the scene with this frame, and so on to `unloadFrame`.
It needs the first half, because a draw into one texture leaves what another name
stands for alone only if the two differ, and because a pass over a texture it also
samples would give `Undefined`.  The motion search and the count of bad blocks
draw to no texture that shows a picture, so that their 5800 passes per frame
reduce to one lemma (`SearchKeeps`).

The count rests on what `Sample` computes (`Samples`): texel `i` of the decimated
row samples `2 i` and its right neighbour, or its left one in the far half of an
odd row; so no sample lies outside, and no texel is left out (`SamplesCover`).
`CountInv` follows the picture down.  Without bad blocks it stays zero.  With any
set of them there is a map from the bad blocks to the texels such that every texel,
times `factor`, is at least the number of blocks mapped to it, less the slack of the
roundings so far, three quarters of a 65535th at each (`Shows`, `Counts`).  Where the picture is
drawn a block is its own texel; at a decimation the map goes on to a texel that
samples the old one, and as a texel is the rounded average of the four it samples, it shows
the blocks of all four (`AverageShows`; `FibresAdd`, of any four functions, in
`ProofLemmas`; where a sampled texel is taken twice the number is larger).  When
both sides are one, the one texel that is read shows all bad blocks, and cutting it
to an `int` loses less than one more.  `BadSets` may
be any operator: its assumption says only that a bad block is a block.
`SquareEnough` says that both sides of the grid of blocks become one in the same
number of halvings.  `TelevisionSizes` proves it of 720 x 480 and 720 x 576;
`Denoise_wide.cfg` is the counterexample without it.

### Only model-checked

The liveness properties (`Completes` beyond what `NeverAllWait` says,
`SleepersReturn`, `TimeoutReturns`,
`WokenReadersHearAbort`, `EndsWithItsChildren`, `LinesReachSyslog`): fairness and
`ENABLED` are out of the prover's reach.  So is `Continuing` of `IpcBuffer`, which
holds on a small instance as long as no frame is bad (`Ipc_quiet.cfg`).

## 5. What the counterexamples show

Each configuration states what a comment, message, declaration or example of the
repository says, and is refuted by what the code does.

* `pipeline_race`: `videoFinished` scans `used[]` while slots are being marked
  behind it and frees slots in use.
* `ipc_badframe`: the video thread logs "Found bad frame, continuing"
  (`src/video_in.c:164`) through the buffer `main` is using.  If it writes its type
  between `main`'s `msgrcv` and the read of the type, a FRAME_DONE is taken for a
  log line; if it writes between `main`'s own type and `msgsnd`, the reply goes out
  as a log line.  Either way a child is never given another frame and does not
  continue.

Those to be run by hand:

* `Queue_stranded`: one signal per change of `full` leaves the second of two
  sleeping writers asleep beside a queue with room ("signal any thread waiting on
  them if they change", `src/queue.c:158`).  `LoggingQ` has two writers.
* `Queue_timeout`: a timeout is reported though an item is there ("The queue is
  still empty and we got a timeout", `src/queue.c:283`).
* `Queue_carry`: a deadline with no carry into the seconds makes the reader spin
  with the mutex held ("A negative timeout means block indefinitely",
  `src/queue.c:237`).
* `Queue_abort`: a broadcast without the mutex misses a thread about to sleep ("To
  allow all listeners to wake up and hear the GlobalAbort", `src/queue.c:472`).
* `Pipeline_stall`: the one standstill that `StopsAtTheRing` leaves.  `main` blocks in `getNextFrame` for a fast card while the
  message that would free the ring waits to be received ("No more frames, put
  this back for the next client", `src/main.c:217`).
* `Pipeline_startup`: the ring does not count as full while `headIn` is -1, and on
  the smallest ring two cards are enough to go round it.
* `Pipeline_flood`: the lines one card logs while it starts and works fill a System V
  queue of 49 messages, and a protocol message is dropped (`IPC_NOWAIT` and an
  ignored result, `src/ipc_queue.c:88`).
* `Supervisor_early`: a child killed before the next is counted brings
  `childCount` to 0, and the parent exits with children alive and
  `SoftExitParent` not registered ("All children exited, exiting",
  `src/main.c:310`).
* `Supervisor_leftover`: the same with a single child: the parent exits before
  `atexit( SoftExitParent )` (`src/main.c:151`), and the System V queue and the shared
  memory stay behind.
* `Supervisor_lost`: a child that ends between the handler's last `waitpid` and its
  return is never counted, and the parent never ends ("Ain't none left waiting to
  be de-zombified", `src/main.c:284`).
* `Supervisor_fork`: a fork that failed is counted as a child.
* `Supervisor_selflock`: the handler waits for a mutex the thread it interrupted
  holds.
* `List_shared`: two threads compare `item->list` with the list before either has
  locked it, and the second unlinks the item from neighbours it no longer has.
* `Logging_toggle`: two calls of `logging_toggle_debug` both find `Debug` off, and two
  debug files are on the list.
* `Config_example`: the loop tests `feof` before `fgets` and not its result, so a
  last line that ends in a newline is handled twice, and a file whose last line
  names a display has one card too many.  (`example/gputrans.conf.example`, "This
  example defines 5 cards", ends with an empty line and does give 5.)
* `Config_table`: `numChildren` is compared before it is incremented and may index
  one entry past `cardInfo[MAX_NUM_CARDS]`.
* `Ipc_slot`: `main` reads `indexIn` twice, and `videoFinished` may be given another
  slot than the one `videoOut` saved.
* `Denoise_vectors`: `SAD_pass2` and `SAD_halfpel` clear `vector3` ("Clear out
  vector3TexID", `src/cg_interface.c:1456` and `:1587`) and then exchange it with
  `vector2` before the first addition, which therefore starts from the sums of the
  candidate before, in the end from memory nothing was drawn to.  `SAD` clears the
  right one.
* `Denoise_margin`: where a scene begins ("Copy input frame to avg",
  `src/cg_interface.c:2434`) the averages take the frame with its margin, and the
  decimations, `move_frame` and `sharpen_frame` bring some of that into the rim of the
  output, which is therefore not made of the scene only.
* `Denoise_count`: with 16 x 16 blocks and three of every four bad, the texels are
  rounded down to just below 3/4 and 191 is read for 192.
* `Denoise_wide`: "Decimate the bad_vector data down to a single number"
  (`src/cg_interface.c:1960`) stops when the shorter side is one, and the texels
  beside the corner are not read.

## 6. Not modelled

* FFmpeg, OpenGL and the fragment programs: libraries and floating-point image
  arithmetic.  `Denoise` takes from the shaders which textures they sample.
* `save_ppm` (file output), the dump functions of `cg_interface.c` (compiled out),
  `test_decode.c` (a sequential loop), the vendor's OpenCL sample.
* Code without a caller: `queueSendText`, `LinkedListDestroy`, `QueueDestroy`,
  `vector_scale`, `scale_buffer`, `unloadRaw`, and `QueueRemoveItem`.  The last
  takes `head` for the oldest item and `tail` for the newest, the opposite of what
  the rest of `queue.c` does, so that no use of it would fit the model.
* SIGINT, and children that outlive the parent: the handler calls `exit` from
  whatever thread it runs on, and a child left without the queue spins in its
  receive loop (`src/render_child.c:143`).
* The cut to `int` of `shmmax / frameSize` (`src/video_in.c:261`): the numbers are
  beyond TLC's integers.

## 7. Plan

To come: that `Logging` and `Pipeline` may take the queue of `Queue` for a
sequence, as one composed theorem; and `NeverAllWait` for two cards and a longer
film on a ring large enough that it may hold there too, for which TLC has first
to say how large.
