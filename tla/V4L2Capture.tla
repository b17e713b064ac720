----------------------------- MODULE V4L2Capture -----------------------------
(***************************************************************************)
(* src/capture_linux.c with a real camera: opening the device, the buffers *)
(* that travel between driver and program, and the clean-up; together with *)
(* its inline caller in main.c, which the capture thread repeats call for  *)
(* call (CapturePipe). One step is one ioctl, or one mmap, and what the    *)
(* code does with its result; the driver fills buffers in between, and the *)
(* camera may be pulled out at any time, after which every ioctl fails.    *)
(*                                                                         *)
(* The picture is one row high, a frame is its number, its ERROR flag and  *)
(* bytesused. A select that times out changes nothing and is no step.      *)
(***************************************************************************)
EXTENDS Integers, Sequences

CONSTANTS
  NBUFS,        \* buffers asked for
  MaxCount,     \* most buffers a driver grants
  RowBytes,     \* width * 2
  Lines,        \* bytesperline values a driver answers
  Sizes,        \* bytesused values a driver reports
  MaxFrames     \* bound on the frames of a run

ASSUME CaptureAssumption ==
  /\ NBUFS \in Nat \ {0} /\ MaxCount \in Nat \ {0} /\ RowBytes \in Nat \ {0}
  /\ Lines \subseteq Nat /\ Sizes \subseteq Nat
  /\ MaxFrames \in Nat

VARIABLES
  pc,         \* next step of the program
  count,      \* req.count: buffers the driver granted
  nbufs,      \* impl->nbufs
  mapped,     \* buffers mapped into the process
  owner,      \* who has each buffer: "none", "driver", "done" or "app"
  outgoing,   \* filled buffers in the order DQBUF returns them
  frame,      \* what the driver put into each buffer
  produced,
  buf, newer, held,       \* locals of webcam_capture_frame, impl->buf_info
  bytesperline, width2,   \* the driver's answer; cam->width * 2
  stride,
  open, streaming, gone,  \* the device; gone: it was pulled out
  priority, saved         \* AUTO_PRIORITY of the camera; ae_prio_saved, 0 if unchanged

driver == <<count, owner, outgoing, frame, produced>>
format == <<bytesperline, width2, stride>>
locals == <<buf, newer, held>>
device == <<open, streaming, priority, saved>>
memory == <<nbufs, mapped>>
vars == <<pc, count, nbufs, mapped, owner, outgoing, frame, produced, buf, newer, held,
          bytesperline, width2, stride, open, streaming, gone, priority, saved>>

None == -1
Buffers == 0 .. MaxCount - 1
NoFrame == [n |-> 0, error |-> FALSE, used |-> 0]
\* Mutant: the driver's count is not cut to NBUFS.
want_All == count

want == IF count > NBUFS THEN NBUFS ELSE count

Step(from, to) == pc = from /\ pc' = to

\* An ioctl that succeeds: the camera is there, and still is.
Works == ~gone /\ UNCHANGED gone

Init ==
  /\ pc = "open"
  /\ count = 0 /\ nbufs = 0 /\ mapped = {}
  /\ owner = [i \in Buffers |-> "none"]
  /\ outgoing = <<>>
  /\ frame = [i \in Buffers |-> NoFrame]
  /\ produced = 0
  /\ buf = None /\ newer = None /\ held = None
  /\ bytesperline = 0 /\ width2 = 0 /\ stride = 0
  /\ open = FALSE /\ streaming = FALSE /\ gone = FALSE
  /\ priority = 1 /\ saved = 0

-----------------------------------------------------------------------------
(***************************************************************************)
(* webcam_init                                                             *)
(***************************************************************************)
Open ==
  /\ \/ Step("open", "format") /\ open' = TRUE
     \/ Step("open", "closed") /\ open' = FALSE
  /\ Works
  /\ UNCHANGED <<driver, memory, format, locals, streaming, priority, saved>>

\* S_FMT granted YUYV. The stride is checked before cam->width is set.
SetFormat ==
  /\ Step("format", "request")
  /\ Works
  /\ bytesperline' \in Lines
  /\ stride' = IF bytesperline' < width2 THEN width2 ELSE bytesperline'
  /\ width2' = RowBytes
  /\ UNCHANGED <<driver, memory, locals, device>>

RequestBuffers ==
  /\ Step("request", "map")
  /\ Works
  /\ count' \in 1 .. MaxCount
  /\ UNCHANGED <<memory, owner, outgoing, frame, produced, format, locals, device>>

\* QUERYBUF, mmap, and nbufs grows: from here on unmap_all finds the buffer.
MapBuffer ==
  /\ Step("map", "queue")
  /\ Works
  /\ mapped' = mapped \cup {nbufs}
  /\ nbufs' = nbufs + 1
  /\ UNCHANGED <<driver, format, locals, device>>

\* QBUF gives a buffer to the driver.
Queue(i) == owner' = [owner EXCEPT ![i] = "driver"]

QueueBuffer ==
  /\ Step("queue", IF nbufs < want THEN "map" ELSE "streamon")
  /\ Works
  /\ Queue(nbufs - 1)
  /\ UNCHANGED <<memory, count, outgoing, frame, produced, format, locals, device>>

StreamOn ==
  /\ Step("streamon", "priority")
  /\ Works
  /\ streaming' = TRUE
  /\ UNCHANGED <<driver, memory, format, locals, open, priority, saved>>

\* The camera has no such control, or refuses, or it is cleared and kept.
ClearPriority ==
  /\ Step("priority", "top")
  /\ \/ ~gone /\ saved' = priority /\ priority' = 0
     \/ UNCHANGED <<priority, saved>>
  /\ UNCHANGED <<driver, memory, format, locals, open, streaming, gone>>

\* close() releases what the kernel holds for this descriptor.
Close ==
  /\ pc' = "closed"
  /\ open' = FALSE /\ streaming' = FALSE
  /\ owner' = [i \in Buffers |-> "none"]
  /\ outgoing' = <<>>

unmap_all ==
  /\ mapped' = mapped \ (0 .. nbufs - 1)
  /\ nbufs' = 0

\* Mutant: nothing is unmapped.
init_fail_NoUnmap ==
  /\ pc \in {"format", "request", "map", "queue", "streamon"}
  /\ nbufs' = 0
  /\ Close
  /\ UNCHANGED <<mapped, count, frame, produced, format, locals, gone, priority, saved>>

\* Any failure before the stream runs; pixels other than YUYV count as one.
init_fail ==
  /\ pc \in {"format", "request", "map", "queue", "streamon"}
  /\ unmap_all
  /\ Close
  /\ UNCHANGED <<count, frame, produced, format, locals, gone, priority, saved>>

-----------------------------------------------------------------------------
(***************************************************************************)
(* The driver, and the user's hand on the cable.                           *)
(***************************************************************************)
Fill(i) ==
  /\ streaming /\ ~gone
  /\ produced < MaxFrames
  /\ produced' = produced + 1
  /\ \E e \in BOOLEAN, u \in Sizes :
       frame' = [frame EXCEPT ![i] = [n |-> produced', error |-> e, used |-> u]]
  /\ owner' = [owner EXCEPT ![i] = "done"]
  /\ outgoing' = Append(outgoing, i)
  /\ UNCHANGED <<pc, count, memory, format, locals, device, gone>>

FillQueued == \E i \in Buffers : owner[i] = "driver" /\ Fill(i)

\* A driver that returns a buffer it was never given.
FillStray == \E i \in nbufs .. count - 1 : owner[i] = "none" /\ Fill(i)

Unplug ==
  /\ open /\ ~gone
  /\ gone' = TRUE
  /\ UNCHANGED <<pc, driver, memory, format, locals, device>>

-----------------------------------------------------------------------------
(***************************************************************************)
(* webcam_wait_frame, webcam_capture_frame, webcam_requeue_buffer, and the *)
(* render loop that calls them.                                            *)
(***************************************************************************)
\* select reports a frame, or the error of a camera that is gone.
WaitFrame ==
  /\ Step("top", "first")
  /\ outgoing # <<>> \/ gone
  /\ UNCHANGED <<driver, memory, format, locals, device, gone>>

\* DQBUF takes the oldest filled buffer.
Dequeue ==
  /\ outgoing # <<>>
  /\ owner' = [owner EXCEPT ![Head(outgoing)] = "app"]
  /\ outgoing' = Tail(outgoing)
  /\ UNCHANGED <<count, frame, produced>>

FirstFrame ==
  /\ Step("first", "drain")
  /\ Works
  /\ Dequeue
  /\ buf' = Head(outgoing)
  /\ UNCHANGED <<memory, format, newer, held, device>>

\* Mutant: a DQBUF that fails is taken for a dropped frame.
FirstFails_Retry ==
  /\ Step("first", "top")
  /\ gone
  /\ UNCHANGED <<driver, memory, format, locals, device, gone>>

FirstFails ==
  /\ Step("first", "cleanup")
  /\ gone
  /\ UNCHANGED <<driver, memory, format, locals, device, gone>>

Newer ==
  /\ Step("drain", "swap")
  /\ Works
  /\ Dequeue
  /\ newer' = Head(outgoing)
  /\ UNCHANGED <<memory, format, buf, held, device>>

\* Mutant: the newer frame goes back, the older one is kept.
Swap_KeepOld ==
  /\ Step("swap", "drain")
  /\ IF gone THEN UNCHANGED owner ELSE Queue(newer)
  /\ newer' = None
  /\ UNCHANGED <<memory, count, outgoing, frame, produced, format, buf, held, device, gone>>

\* Mutant: the older buffer is overtaken, not queued.
Swap_NoQueue ==
  /\ Step("swap", "drain")
  /\ buf' = newer
  /\ newer' = None
  /\ UNCHANGED <<driver, memory, format, held, device, gone>>

\* The older frame goes back to the driver; the result of QBUF is not looked at.
Swap ==
  /\ Step("swap", "drain")
  /\ IF gone THEN UNCHANGED owner ELSE Queue(buf)
  /\ buf' = newer
  /\ newer' = None
  /\ UNCHANGED <<memory, count, outgoing, frame, produced, format, held, device, gone>>

\* DQBUF says EAGAIN, or fails.
Drained ==
  /\ Step("drain", "check")
  /\ outgoing = <<>> \/ gone
  /\ UNCHANGED <<driver, memory, format, locals, device, gone>>

\* The buffer is given back and its frame forgotten.
Discard ==
  /\ IF gone THEN UNCHANGED owner ELSE Queue(buf)
  /\ buf' = None
  /\ UNCHANGED <<memory, count, outgoing, frame, produced, format, newer, held, device,
                 gone>>

BadIndex ==
  /\ Step("check", "cleanup")
  /\ buf >= nbufs
  /\ Discard

Corrupt == frame[buf].error \/ (frame[buf].used # 0 /\ frame[buf].used < stride)

\* Returns 1: the loop takes the next frame.
DropCorrupt ==
  /\ Step("check", "top")
  /\ buf < nbufs
  /\ Corrupt
  /\ Discard

\* Mutant: the index is not looked at.
Deliver_AnyIndex ==
  /\ Step("check", "use")
  /\ ~Corrupt
  /\ held' = buf
  /\ buf' = None
  /\ UNCHANGED <<driver, memory, format, newer, device, gone>>

\* Returns 0: luma is converted from the mapping, colour is read from it later.
Deliver ==
  /\ Step("check", "use")
  /\ buf < nbufs
  /\ ~Corrupt
  /\ held' = buf
  /\ buf' = None
  /\ UNCHANGED <<driver, memory, format, newer, device, gone>>

\* webcam_requeue_buffer, or its failure, which ends the loop.
Requeue ==
  /\ Step("use", IF gone THEN "cleanup" ELSE "top")
  /\ IF gone THEN UNCHANGED owner ELSE Queue(held)
  /\ held' = None
  /\ UNCHANGED <<memory, count, outgoing, frame, produced, format, buf, newer, device, gone>>

Quit ==
  /\ Step("top", "cleanup")
  /\ UNCHANGED <<driver, memory, format, locals, device, gone>>

webcam_cleanup ==
  /\ pc = "cleanup"
  /\ priority' = IF saved # 0 /\ ~gone THEN saved ELSE priority
  /\ unmap_all
  /\ Close
  /\ UNCHANGED <<count, frame, produced, format, locals, gone, saved>>

Closed == pc = "closed" /\ UNCHANGED vars

Opening == Open \/ SetFormat \/ RequestBuffers \/ MapBuffer \/ QueueBuffer \/ StreamOn
             \/ ClearPriority \/ init_fail
Capturing == WaitFrame \/ FirstFrame \/ FirstFails \/ Newer \/ Swap \/ Drained \/ BadIndex
               \/ DropCorrupt \/ Deliver \/ Requeue
Environment == FillQueued \/ FillStray \/ Unplug
Next == Opening \/ Capturing \/ Quit \/ webcam_cleanup \/ Environment \/ Closed

(***************************************************************************)
(* The program keeps running: the descriptor is O_NONBLOCK and select has  *)
(* a timeout. Nothing is asked of the driver or the user.                  *)
(***************************************************************************)
Spec == Init /\ [][Next]_vars
          /\ WF_vars(Opening) /\ WF_vars(Capturing) /\ WF_vars(webcam_cleanup)

-----------------------------------------------------------------------------
Steps == {"open", "format", "request", "map", "queue", "streamon", "priority", "top",
          "first", "drain", "swap", "check", "use", "cleanup", "closed"}

\* The variables have the values the code and the driver can give them.
TypeOK ==
  /\ pc \in Steps
  /\ count \in 0 .. MaxCount /\ nbufs \in 0 .. NBUFS
  /\ mapped \subseteq Buffers
  /\ owner \in [Buffers -> {"none", "driver", "done", "app"}]
  /\ outgoing \in Seq(Buffers)
  /\ frame \in [Buffers -> [n : 0 .. MaxFrames, error : BOOLEAN, used : Sizes \cup {0}]]
  /\ produced \in 0 .. MaxFrames
  /\ {buf, newer, held} \subseteq Buffers \cup {None}
  /\ {bytesperline, stride} \subseteq Lines \cup {0, RowBytes}
  /\ width2 \in {0, RowBytes}
  /\ {open, streaming, gone} \subseteq BOOLEAN
  /\ priority \in {0, 1} /\ saved \in {0, 1}

(***************************************************************************)
(* The program reads a frame only from memory it mapped and from a buffer  *)
(* the driver gave up: not queued, and not waiting to be dequeued again.   *)
(***************************************************************************)
ReadsOwnBuffer ==
  pc = "use" => /\ held \in mapped
                /\ owner[held] = "app"
                /\ \A k \in DOMAIN outgoing : outgoing[k] # held

(***************************************************************************)
(* No buffer is lost on any path of webcam_capture_frame and its callers:  *)
(* as long as the camera answers, the program owns just the buffers its    *)
(* locals name, and every other one can carry a frame.                     *)
(***************************************************************************)
BuffersAccounted ==
  ~gone => \A i \in Buffers : owner[i] = "app" <=> i \in {buf, newer, held}

(***************************************************************************)
(* "capture_frame drains to newest" (capture_linux.c:17): when DQBUF has   *)
(* nothing more, the frame kept is the last one the driver finished.       *)
(***************************************************************************)
DrainsToNewest ==
  [][pc = "drain" /\ pc' = "check" => gone \/ frame[buf].n = produced]_vars

(***************************************************************************)
(* However it ended, a closed camera left nothing mapped, open or running; *)
(* the AUTO_PRIORITY of a camera still there is what it was, "put back in  *)
(* webcam_cleanup so other apps are not affected" (capture_linux.c:177).   *)
(***************************************************************************)
ClosedIsClean ==
  pc = "closed" => /\ mapped = {} /\ ~open /\ ~streaming
                   /\ gone \/ priority = 1

\* A camera that is pulled out while it streams ends the program's loop.
UnpluggedEnds == gone /\ streaming ~> pc = "closed"

(***************************************************************************)
(* The types; frames are read from buffers the program has, and it has just *)
(* those its locals name, whatever ioctl fails.                            *)
(***************************************************************************)
BuffersSound ==
  /\ TypeOK
  /\ ReadsOwnBuffer
  /\ BuffersAccounted

(***************************************************************************)
(* The newest frame is the one that is used, and a camera that went away is *)
(* noticed.                                                                *)
(***************************************************************************)
CaptureProgress ==
  /\ DrainsToNewest
  /\ UnpluggedEnds
=============================================================================
