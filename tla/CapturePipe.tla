----------------------------- MODULE CapturePipe -----------------------------
(***************************************************************************)
(* src/thread_sharing.c: the capture thread, the render loop that polls it *)
(* for frames, and the start and stop of the pipe, over the triple buffer  *)
(* of FrameExchange. One step is one shared access or one call: a call     *)
(* into the frame exchange (atomic, see FrameExchangeLocked), a camera     *)
(* call, or a read or write of `stop`, `failed`, the thread id or the slab.*)
(*                                                                         *)
(* The camera is its return codes: webcam_wait_frame times out or not,     *)
(* webcam_capture_frame succeeds, drops a corrupt frame (1) or fails (-1), *)
(* webcam_requeue_buffer succeeds or fails. V4L2Capture models the driver. *)
(***************************************************************************)
EXTENDS FrameExchange, FiniteSets

CONSTANT Polls   \* polls of one acquire (timeout_ms in the code)

ASSUME PipeAssumption == Polls \in Nat

VARIABLES
  tpc,      \* capture thread: next step
  cpc,      \* render loop: next step
  waited,   \* capture_pipe_acquire: polls made
  stop, failed, started,   \* fields of capture_pipe_t
  tid,      \* nl_thread_t.tid is not 0: the kernel has not ended the thread
  slab,     \* the slot memory is mapped
  camera,   \* the camera is open
  taken     \* history: frames capture_pipe_acquire returned

exchange == <<ready, reading, writing, published, dropped, content, produced>>
flags == <<stop, failed, started>>
resources == <<tid, slab, camera>>
pipeVars == <<ready, reading, writing, published, dropped, content, produced, tpc, cpc,
              waited, stop, failed, started, tid, slab, camera, taken>>

PipeInit ==
  /\ Init
  /\ tpc = "none" /\ cpc = "start" /\ waited = 0
  /\ stop = FALSE /\ failed = FALSE /\ started = FALSE
  /\ tid = FALSE /\ slab = FALSE /\ camera = TRUE
  /\ taken = {}

-----------------------------------------------------------------------------
\* The capture thread moves from one step to another.
Thread(from, to) == tpc = from /\ tpc' = to

\* while (!p->stop)
\* Mutant: `stop` is never looked at.
CheckStop_Deaf ==
  /\ Thread("while", "wait")
  /\ UNCHANGED <<exchange, cpc, waited, flags, resources, taken>>

CheckStop ==
  /\ Thread("while", IF stop THEN "exit" ELSE "wait")
  /\ UNCHANGED <<exchange, cpc, waited, flags, resources, taken>>

\* webcam_wait_frame: a frame is there, or 50 ms went by without one.
WaitFrame ==
  /\ \/ Thread("wait", "while")
     \/ Thread("wait", "begin") /\ produced < MaxFrames
  /\ UNCHANGED <<exchange, cpc, waited, flags, resources, taken>>

WriteBegin ==
  /\ Thread("begin", "capture")
  /\ fx_write_begin
  /\ produced' = produced + 1
  /\ UNCHANGED <<content, cpc, waited, flags, resources, taken>>

\* webcam_capture_frame with rc < 0 or rc > 0 leaves the slot as it was.
CaptureBad ==
  /\ Thread("capture", "abort") \/ Thread("capture", "abort_fail")
  /\ UNCHANGED <<exchange, cpc, waited, flags, resources, taken>>

\* Mutant: the frame is published before its bytes are all there.
CaptureFrame_Early ==
  /\ Thread("capture", "publish")
  /\ FillStart
  /\ UNCHANGED <<cpc, waited, flags, resources, taken>>

\* rc = 0: luma goes into the slot, then the raw frame is copied beside it.
CaptureFrame ==
  /\ Thread("capture", "copy")
  /\ FillStart
  /\ UNCHANGED <<cpc, waited, flags, resources, taken>>

CopyRaw ==
  /\ Thread("copy", "requeue")
  /\ FillEnd
  /\ UNCHANGED <<cpc, waited, flags, resources, taken>>

RequeueBuffer ==
  /\ Thread("requeue", "publish") \/ Thread("requeue", "abort_fail")
  /\ UNCHANGED <<exchange, cpc, waited, flags, resources, taken>>

WritePublish ==
  /\ Thread("publish", "while")
  /\ fx_write_publish
  /\ UNCHANGED <<content, produced, cpc, waited, flags, resources, taken>>

WriteAbort ==
  /\ Thread("abort", "while") \/ Thread("abort_fail", "fail")
  /\ fx_write_abort
  /\ UNCHANGED <<content, produced, cpc, waited, flags, resources, taken>>

\* Mutant: the loop is not left.
SetFailed_NoBreak ==
  /\ Thread("fail", "while")
  /\ failed' = TRUE
  /\ UNCHANGED <<exchange, cpc, waited, stop, started, resources, taken>>

SetFailed ==
  /\ Thread("fail", "exit")
  /\ failed' = TRUE
  /\ UNCHANGED <<exchange, cpc, waited, stop, started, resources, taken>>

\* The thread returns; the kernel clears tid and wakes the joiner.
ThreadExit ==
  /\ Thread("exit", "gone")
  /\ tid' = FALSE
  /\ UNCHANGED <<exchange, cpc, waited, flags, slab, camera, taken>>

ThreadNext ==
  \/ CheckStop \/ WaitFrame \/ WriteBegin \/ CaptureBad \/ CaptureFrame \/ CopyRaw
  \/ RequeueBuffer \/ WritePublish \/ WriteAbort \/ SetFailed \/ ThreadExit

-----------------------------------------------------------------------------
\* The render loop moves from one step to another.
Loop(from, to) == cpc = from /\ cpc' = to

(***************************************************************************)
(* capture_pipe_start: the slab or the thread cannot be had (the caller    *)
(* captures inline and never polls), or the thread runs.                   *)
(***************************************************************************)
StartFails ==
  /\ Loop("start", "inline")
  /\ UNCHANGED <<exchange, tpc, waited, flags, resources, taken>>

Start ==
  /\ Loop("start", "top")
  /\ slab' = TRUE
  /\ tid' = TRUE
  /\ started' = TRUE
  /\ tpc' = "while"
  /\ UNCHANGED <<exchange, waited, stop, failed, camera, taken>>

\* The loop goes round, or keep_running was cleared (SIGINT, the q key).
Iterate ==
  /\ Loop("top", "poll")
  /\ waited' = 0
  /\ UNCHANGED <<exchange, tpc, flags, resources, taken>>

Quit ==
  /\ Loop("top", "stop") \/ Loop("inline", "stop")
  /\ UNCHANGED <<exchange, tpc, waited, flags, resources, taken>>

(***************************************************************************)
(* capture_pipe_acquire: ask the exchange; if it has nothing, look at      *)
(* `failed` (a later step: the thread may publish and fail in between),    *)
(* then at the timeout, then sleep 1 ms and ask again.                     *)
(***************************************************************************)
PollFrame ==
  /\ Loop("poll", "use")
  /\ \E idx \in Slots : fx_read_acquire(idx)
  /\ taken' = taken \cup {content[ready]}
  /\ UNCHANGED <<content, produced, tpc, waited, flags, resources>>

PollNothing ==
  /\ Loop("poll", "check")
  /\ fx_read_acquire(None)
  /\ UNCHANGED <<content, produced, tpc, waited, flags, resources, taken>>

\* Mutant: -1 is taken for "nothing new yet".
AcquireFailed_Retry ==
  /\ Loop("check", "top")
  /\ failed
  /\ UNCHANGED <<exchange, tpc, waited, flags, resources, taken>>

\* Returns -1: the loop reports it and breaks.
AcquireFailed ==
  /\ Loop("check", "stop")
  /\ failed
  /\ UNCHANGED <<exchange, tpc, waited, flags, resources, taken>>

\* Returns 0: nothing new yet.
AcquireTimeout ==
  /\ Loop("check", "top")
  /\ ~failed
  /\ waited >= Polls
  /\ UNCHANGED <<exchange, tpc, waited, flags, resources, taken>>

\* Mutant: one sleep too many.
AcquireSleep_OneMore ==
  /\ Loop("check", "poll")
  /\ ~failed
  /\ waited <= Polls
  /\ waited' = waited + 1
  /\ UNCHANGED <<exchange, tpc, flags, resources, taken>>

\* Mutant: the sleeps are not counted.
AcquireSleep_NoCount ==
  /\ Loop("check", "poll")
  /\ ~failed
  /\ waited < Polls
  /\ UNCHANGED <<exchange, tpc, waited, flags, resources, taken>>

AcquireSleep ==
  /\ Loop("check", "poll")
  /\ ~failed
  /\ waited < Polls
  /\ waited' = waited + 1
  /\ UNCHANGED <<exchange, tpc, flags, resources, taken>>

\* Mirror, plugins, render: the frame is read (and its luma changed) in place.
UseFrame ==
  /\ Loop("use", "top")
  /\ UNCHANGED <<exchange, tpc, waited, flags, resources, taken>>

\* capture_pipe_stop: stop = 1, join, started = 0, free the slab if there is one.
StopThread ==
  /\ Loop("stop", "join")
  /\ stop' = IF started THEN TRUE ELSE stop
  /\ UNCHANGED <<exchange, tpc, waited, failed, started, resources, taken>>

\* Mutant: stop does not wait for the thread.
Join_NoWait ==
  /\ Loop("join", "free")
  /\ started' = FALSE
  /\ UNCHANGED <<exchange, tpc, waited, stop, failed, resources, taken>>

Join ==
  /\ Loop("join", "free")
  /\ started => ~tid
  /\ started' = FALSE
  /\ UNCHANGED <<exchange, tpc, waited, stop, failed, resources, taken>>

FreeSlab ==
  /\ Loop("free", "close")
  /\ slab' = FALSE
  /\ UNCHANGED <<exchange, tpc, waited, flags, tid, camera, taken>>

\* webcam_cleanup, the last call of main.
CloseCamera ==
  /\ Loop("close", "done")
  /\ camera' = FALSE
  /\ UNCHANGED <<exchange, tpc, waited, flags, tid, slab, taken>>

Polling == Iterate \/ PollFrame \/ PollNothing \/ AcquireFailed \/ AcquireTimeout
             \/ AcquireSleep \/ UseFrame
Stopping == StopThread \/ Join \/ FreeSlab \/ CloseCamera
LoopNext == StartFails \/ Start \/ Quit \/ Polling \/ Stopping

\* The process ended: nothing happens any more.
Ended ==
  /\ cpc = "done"
  /\ UNCHANGED pipeVars

PipeNext == ThreadNext \/ LoopNext \/ Ended

(***************************************************************************)
(* The kernel runs both threads, and every call they make returns: the     *)
(* waits are bounded (50 ms and 1 ms) and the camera calls do not block on *)
(* a descriptor opened O_NONBLOCK. The camera need not deliver anything,   *)
(* and the user need not quit.                                             *)
(***************************************************************************)
Fairness == WF_pipeVars(ThreadNext) /\ WF_pipeVars(Polling) /\ WF_pipeVars(Stopping)

PipeSpec == PipeInit /\ [][PipeNext]_pipeVars /\ Fairness

-----------------------------------------------------------------------------
ThreadSteps == {"none", "while", "wait", "begin", "capture", "copy", "requeue",
                "publish", "abort", "abort_fail", "fail", "exit", "gone"}
InLoop == {"top", "poll", "check", "use"}
LoopSteps == InLoop \cup {"start", "inline", "stop", "join", "free", "close", "done"}

\* The values of the variables; an acquire polls at most Polls + 1 times.
PipeTypeOK ==
  /\ tpc \in ThreadSteps
  /\ cpc \in LoopSteps
  /\ waited \in 0 .. Polls
  /\ {stop, failed, started, tid, slab, camera} \subseteq BOOLEAN
  /\ taken \subseteq 1 .. MaxFrames

(***************************************************************************)
(* Whoever may touch the slab finds it mapped, and the thread finds its    *)
(* camera open: capture_pipe_stop joins before it frees, main stops the    *)
(* pipe "before camera it reads from is closed" (main.c:2446).             *)
(***************************************************************************)
MemorySafe ==
  /\ tid => slab /\ camera
  /\ tpc \in {"capture", "copy", "requeue"} => slab /\ camera
  /\ cpc = "use" => slab

(***************************************************************************)
(* The frame main works on is "exclusively ours until next acquire"        *)
(* (main.c:2157): complete, the newest frame taken, and in no slot the     *)
(* thread is writing or may choose.                                        *)
(***************************************************************************)
FrameInUseIsWhole ==
  cpc = "use" => /\ content[reading] \in taken /\ content[reading] > 0
                 /\ \A f \in taken : f <= content[reading]
                 /\ reading \notin {ready, writing}

(***************************************************************************)
(* Every published frame is accounted for: delivered to the render loop    *)
(* once, counted in `dropped`, or still on offer.                          *)
(***************************************************************************)
FramesAccounted ==
  published = Cardinality(taken) + dropped + (IF ready # None THEN 1 ELSE 0)

(***************************************************************************)
(* "Wait up to timeout_ms for a frame newer than last one returned"        *)
(* (thread_sharing.h:45): frames are delivered in the order of the camera. *)
(***************************************************************************)
FramesInOrder ==
  [][\A f \in taken' \ taken : \A g \in taken : g < f]_pipeVars

(***************************************************************************)
(* Thread and loop use the exchange as its header asks: a slot is begun    *)
(* only after the last one was published or aborted, and published only    *)
(* when the whole frame is in it. All that FrameExchange guarantees of its *)
(* slots therefore holds in the pipe.                                      *)
(***************************************************************************)
FollowsProtocol == Spec

(***************************************************************************)
(* Once the thread reported a failure it publishes nothing more, and only  *)
(* the end of the process is left to happen to it.                         *)
(***************************************************************************)
NothingAfterFailure ==
  [][failed => failed' /\ published' = published /\ content' = content]_pipeVars

(***************************************************************************)
(* A stop comes to its end: the thread sees the flag at its next look, the *)
(* join returns, and memory and camera are released.                       *)
(***************************************************************************)
StopCompletes == cpc = "stop" ~> cpc = "done" /\ ~tid /\ ~slab /\ ~camera

(***************************************************************************)
(* "a stalled camera no longer blocks keyboard/mouse handling"             *)
(* (thread_sharing.h:7): whatever the thread does or does not do, every    *)
(* acquire returns and the render loop gets back to its keys, or is over.  *)
(***************************************************************************)
KeysKeepWorking == cpc \in InLoop ~> cpc \in {"top", "done"}

(***************************************************************************)
(* A published frame is taken, or replaced by a newer one, or the loop has *)
(* ended: none is left lying in the exchange.                              *)
(***************************************************************************)
FreshFrameTaken ==
  \A f \in 1 .. MaxFrames :
    (cpc \in InLoop /\ FrameIn(ready) = f)
       ~> (FrameIn(ready) # f \/ cpc \notin InLoop)

(***************************************************************************)
(* A failure of the thread ends the render loop: it does not poll a dead   *)
(* thread for ever.                                                        *)
(***************************************************************************)
FailureEndsLoop == failed ~> cpc \notin InLoop

(***************************************************************************)
(* "frames published before failure were delivered above"                  *)
(* (thread_sharing.c:139), said where an acquire returns -1: by then no    *)
(* published frame is left in the exchange.                                *)
(***************************************************************************)
DeliveredBeforeFailure ==
  [][cpc = "check" /\ cpc' = "stop" => ready = None]_pipeVars

(***************************************************************************)
(* In every order of the two threads' steps: the types, each slot "in at most *)
(* one role" (frame_exchange.h:8), and only whole frames on offer and in   *)
(* use, newer than those before.                                           *)
(***************************************************************************)
PipeSound ==
  /\ TypeOK /\ PipeTypeOK
  /\ OneRole
  /\ WholeFrames

(***************************************************************************)
(* What no step does: deliver an older frame, change the one in the loop's *)
(* hands, or publish after a failure.                                      *)
(***************************************************************************)
PipeSteps ==
  /\ FramesInOrder
  /\ HeldFrameStable
  /\ NothingAfterFailure

(***************************************************************************)
(* The pipe keeps to the protocol of the exchange, and the slots behave as *)
(* the box of one frame in it.                                             *)
(***************************************************************************)
PipeImplements ==
  /\ FollowsProtocol
  /\ ImplementsLatestFrame

(***************************************************************************)
(* What must come, whatever the camera does: stops end, the keys are looked *)
(* at, published frames are taken or replaced, a failure ends the loop.    *)
(***************************************************************************)
PipeProgress ==
  /\ StopCompletes
  /\ KeysKeepWorking
  /\ FreshFrameTaken
  /\ FailureEndsLoop
=============================================================================
