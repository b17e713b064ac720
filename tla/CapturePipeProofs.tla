-------------------------- MODULE CapturePipeProofs --------------------------
(***************************************************************************)
(* Proofs about the triple buffer and the capture pipe, for every number   *)
(* of slots from three on, every number of frames and every length of an   *)
(* acquire. What the slots guarantee is proved once, of FrameExchange: the *)
(* pipe follows its protocol, so it holds of the pipe.                     *)
(***************************************************************************)
EXTENDS CapturePipe, FiniteSetTheorems, TLAPS

-----------------------------------------------------------------------------
(* The triple buffer *)

(***************************************************************************)
(* The scan of fx_write_begin ends at a slot that exists and that is in    *)
(* neither of the two roles it looks at.                                   *)
(***************************************************************************)
LEMMA FirstFreeIsFree ==
  /\ FirstFree \in Slots
  /\ FirstFree \notin {ready, reading}
<1> DEFINE P(i) == /\ i \notin {ready, reading}
                   /\ \A j \in 0 .. i - 1 : j \in {ready, reading}
<1>1. \E i \in 0 .. 2 : P(i)
  <2>1. CASE 0 \notin {ready, reading}
    <3>1. P(0)
      BY <2>1
    <3> QED BY <3>1
  <2>2. CASE 0 \in {ready, reading} /\ 1 \notin {ready, reading}
    <3>1. \A j \in 0 .. 1 - 1 : j = 0
      OBVIOUS
    <3>2. P(1)
      BY <2>2, <3>1
    <3> QED BY <3>2
  <2>3. CASE 0 \in {ready, reading} /\ 1 \in {ready, reading}
    <3>1. \A j \in 0 .. 2 - 1 : j = 0 \/ j = 1
      OBVIOUS
    <3>2. P(2)
      BY <2>3, <3>1
    <3> QED BY <3>2
  <2> QED BY <2>1, <2>2, <2>3
<1>2. FirstFree \in 0 .. 2 /\ P(FirstFree)
  BY <1>1 DEF FirstFree
<1>3. 0 .. 2 \subseteq Slots
  BY SlotsAssumption DEF Slots
<1> QED BY <1>2, <1>3

-----------------------------------------------------------------------------
(***************************************************************************)
(* The inductive invariant. What has to be added to the checked parts: the *)
(* frame being filled is newer than anything a reader can see, so that     *)
(* publishing it keeps the order of WholeFrames.                           *)
(***************************************************************************)
FillingIsNewest ==
  writing # None =>
    /\ produced >= 1
    /\ ready # None => content[ready] < produced
    /\ reading # None => content[reading] < produced

IInv == TypeOK /\ OneRole /\ WholeFrames /\ FillingIsNewest

LEMMA InitIInv == Init => IInv
  BY SlotsAssumption, FramesAssumption
  DEF Init, fx_init, IInv, TypeOK, OneRole, WholeFrames, FillingIsNewest, Role, Slots,
      None, Torn, Blank

LEMMA BeginIInv == ASSUME IInv, Begin PROVE IInv'
<1> USE DEF IInv, Begin, fx_write_begin
<1>1. FirstFree \in Slots /\ FirstFree \notin {ready, reading}
  BY FirstFreeIsFree
<1>2. FirstFree # None
  BY <1>1, SlotsAssumption DEF Slots, None
<1>3. TypeOK'
  BY <1>1, FramesAssumption DEF TypeOK, Role
<1>4. OneRole'
  BY <1>1, <1>2 DEF OneRole
<1>5. WholeFrames' /\ FillingIsNewest'
  BY FramesAssumption DEF TypeOK, WholeFrames, FillingIsNewest, Role, Slots, None, Torn
<1> QED BY <1>3, <1>4, <1>5

(***************************************************************************)
(* The two writes of the copy reach only the slot being filled, which is   *)
(* neither on offer nor in the consumer's hands.                           *)
(***************************************************************************)
LEMMA FillIInv == ASSUME IInv, StartFill \/ EndFill PROVE IInv'
<1> USE DEF IInv
<1>1. PICK v \in {Torn, produced} :
        /\ writing # None
        /\ content' = [content EXCEPT ![writing] = v]
        /\ UNCHANGED <<ready, reading, writing, published, dropped, produced>>
  BY DEF StartFill, EndFill, FillStart, FillEnd
<1>2. writing \in Slots
  BY <1>1 DEF TypeOK, Role
<1>3. TypeOK'
  BY <1>1, <1>2, FramesAssumption DEF TypeOK, Role
<1>4. OneRole'
  BY <1>1 DEF OneRole
<1>5. \A s \in Slots : s # writing => content'[s] = content[s]
  BY <1>1 DEF TypeOK
<1>6. ready # None => ready \in Slots /\ ready # writing
  BY <1>1 DEF TypeOK, Role, OneRole
<1>7. reading # None => reading \in Slots /\ reading # writing
  BY <1>1 DEF TypeOK, Role, OneRole
<1>8. WholeFrames' /\ FillingIsNewest'
  BY <1>1, <1>5, <1>6, <1>7 DEF WholeFrames, FillingIsNewest
<1> QED BY <1>3, <1>4, <1>8

LEMMA PublishIInv == ASSUME IInv, Publish PROVE IInv'
  BY DEF IInv, Publish, fx_write_publish, TypeOK, OneRole, WholeFrames, FillingIsNewest,
         Role, Slots, None, Torn

LEMMA AbortIInv == ASSUME IInv, Abort PROVE IInv'
  BY DEF IInv, Abort, fx_write_abort, TypeOK, OneRole, WholeFrames, FillingIsNewest,
         Role, Slots, None, Torn

LEMMA AcquireIInv == ASSUME IInv, Acquire PROVE IInv'
  BY DEF IInv, Acquire, fx_read_acquire, TypeOK, OneRole, WholeFrames, FillingIsNewest,
         Role, Slots, None, Torn

LEMMA StutterIInv == ASSUME IInv, UNCHANGED vars PROVE IInv'
  BY DEF IInv, vars, TypeOK, OneRole, WholeFrames, FillingIsNewest, Role

LEMMA NextIInv == IInv /\ [Next]_vars => IInv'
  BY BeginIInv, FillIInv, PublishIInv, AbortIInv, AcquireIInv, StutterIInv
  DEF Next, Producer

\* IInv holds in every reachable state.
LEMMA Invariance == Spec => []IInv
  BY InitIInv, NextIInv, PTL DEF Spec

-----------------------------------------------------------------------------
\* Type correctness: in particular no scan ever leaves the slab.
THEOREM TypeCorrect == Spec => []TypeOK
<1>1. IInv => TypeOK
  BY DEF IInv
<1> QED BY <1>1, Invariance, PTL

\* "at any time each is in at most one role" (frame_exchange.h:8)
THEOREM RolesAreExclusive == Spec => []OneRole
<1>1. IInv => OneRole
  BY DEF IInv
<1> QED BY <1>1, Invariance, PTL

\* "consumer never sees a half-written frame" (frame_exchange.h:15)
THEOREM NoHalfWrittenFrame == Spec => []WholeFrames
<1>1. IInv => WholeFrames
  BY DEF IInv
<1> QED BY <1>1, Invariance, PTL

(***************************************************************************)
(* The consumer's slot keeps its pixels until the next successful acquire  *)
(* (frame_exchange.h:83).                                                  *)
(***************************************************************************)
THEOREM HeldFrameIsStable == Spec => HeldFrameStable
<1> DEFINE Stable == reading # None =>
                       \/ reading' = reading /\ content'[reading] = content[reading]
                       \/ reading' = ready /\ content' = content
<1>1. IInv /\ [Next]_vars => [Stable]_vars
  <2> SUFFICES ASSUME IInv, Next, reading # None
               PROVE  Stable
    OBVIOUS
  <2>1. CASE Begin
    BY <2>1 DEF Begin, fx_write_begin
  <2>2. CASE StartFill \/ EndFill
    BY <2>2 DEF StartFill, EndFill, FillStart, FillEnd, IInv, TypeOK, OneRole, Role
  <2>3. CASE Publish
    BY <2>3 DEF Publish, fx_write_publish
  <2>4. CASE Abort
    BY <2>4 DEF Abort, fx_write_abort
  <2>5. CASE Acquire
    BY <2>5 DEF Acquire, fx_read_acquire
  <2> QED BY <2>1, <2>2, <2>3, <2>4, <2>5 DEF Next, Producer
<1>2. Spec => [][Stable]_vars
  BY <1>1, Invariance, PTL DEF Spec
<1> QED BY <1>2 DEF HeldFrameStable

-----------------------------------------------------------------------------
\* What LatestFrame sees of a step that leaves the offered and the held slot alone.
LEMMA FramesUnchanged ==
  ASSUME IInv, UNCHANGED <<ready, reading>>,
         \A s \in Slots : s # writing => content'[s] = content[s]
  PROVE  FrameIn(ready)' = FrameIn(ready) /\ FrameIn(reading)' = FrameIn(reading)
  BY DEF IInv, TypeOK, OneRole, Role, FrameIn

(***************************************************************************)
(* The triple buffer is the one-frame box of LatestFrame: every acquire    *)
(* takes the newest published frame, every publish replaces an unread one, *)
(* and `dropped` counts exactly those.                                     *)
(***************************************************************************)
THEOREM IsLatestFrame == Spec => ImplementsLatestFrame
<1>1. Init => Latest!Init
  BY DEF Init, fx_init, Latest!Init, Latest!NoFrame, FrameIn, None
<1>2. IInv /\ [Next]_vars => [Latest!Next]_(Latest!vars)
  <2> SUFFICES ASSUME IInv, [Next]_vars
               PROVE  [Latest!Next]_(Latest!vars)
    OBVIOUS
  <2> USE DEF Latest!Next, Latest!vars, Latest!NoFrame
  <2>1. CASE Begin
    <3>1. FirstFree # None
      BY FirstFreeIsFree, SlotsAssumption DEF Slots, None
    <3>2. FrameIn(ready)' = FrameIn(ready) /\ FrameIn(reading)' = FrameIn(reading)
      BY <2>1, FramesUnchanged DEF Begin, fx_write_begin
    <3>3. Latest!Begin
      BY <2>1, <3>1, <3>2 DEF Begin, fx_write_begin, Latest!Begin
    <3> QED BY <3>3
  <2>2. CASE StartFill \/ EndFill
    <3>1. FrameIn(ready)' = FrameIn(ready) /\ FrameIn(reading)' = FrameIn(reading)
      BY <2>2, FramesUnchanged
      DEF StartFill, EndFill, FillStart, FillEnd, IInv, TypeOK
    <3>2. UNCHANGED <<writing, produced, published, dropped>>
      BY <2>2 DEF StartFill, EndFill, FillStart, FillEnd
    <3> QED BY <3>1, <3>2
  <2>3. CASE Publish
    <3>1. FrameIn(reading)' = FrameIn(reading) /\ FrameIn(ready)' = produced
      BY <2>3 DEF Publish, fx_write_publish, FrameIn
    <3>2. ready >= 0 <=> FrameIn(ready) # 0
      BY DEF IInv, TypeOK, WholeFrames, Role, Slots, None, FrameIn
    <3>3. writing # None /\ produced # 0
      BY <2>3 DEF Publish, IInv, FillingIsNewest
    <3>4. Latest!Publish
      BY <2>3, <3>1, <3>2, <3>3 DEF Publish, fx_write_publish, Latest!Publish
    <3> QED BY <3>4
  <2>4. CASE Abort
    <3>1. FrameIn(ready)' = FrameIn(ready) /\ FrameIn(reading)' = FrameIn(reading)
      BY <2>4, FramesUnchanged DEF Abort, fx_write_abort
    <3>2. writing # None /\ produced # 0
      BY <2>4 DEF Abort, IInv, FillingIsNewest
    <3>3. Latest!Abort
      BY <2>4, <3>1, <3>2 DEF Abort, fx_write_abort, Latest!Abort
    <3> QED BY <3>3
  <2>5. CASE Acquire
    <3>1. CASE ready = None
      <4>1. UNCHANGED <<ready, reading, writing, published, dropped, content, produced>>
        BY <2>5, <3>1 DEF Acquire, fx_read_acquire, None
      <4> QED BY <4>1 DEF FrameIn
    <3>2. CASE ready # None
      <4>1. ready \in Slots /\ ready >= 0
        BY <3>2 DEF IInv, TypeOK, Role, Slots
      <4>2. /\ FrameIn(reading)' = FrameIn(ready)
            /\ FrameIn(ready)' = 0
        BY <2>5, <3>2, <4>1 DEF Acquire, fx_read_acquire, FrameIn, None
      <4>3. FrameIn(ready) # 0
        BY <3>2 DEF IInv, WholeFrames, FrameIn
      <4>4. Latest!Take
        BY <2>5, <4>2, <4>3 DEF Acquire, fx_read_acquire, Latest!Take
      <4> QED BY <4>4
    <3> QED BY <3>1, <3>2
  <2>6. CASE UNCHANGED vars
    BY <2>6 DEF vars, FrameIn
  <2> QED BY <2>1, <2>2, <2>3, <2>4, <2>5, <2>6 DEF Next, Producer
<1>3. QED
  BY <1>1, <1>2, Invariance, PTL DEF Spec, ImplementsLatestFrame, Latest!Spec

-----------------------------------------------------------------------------
(***************************************************************************)
(* Memory safety. `started` covers the life of the thread, the slab covers *)
(* `started`, and the loop passes the join before it frees anything.       *)
(***************************************************************************)
Control ==
  /\ tpc \in ThreadSteps
  /\ cpc \in LoopSteps
  /\ stop \in BOOLEAN /\ failed \in BOOLEAN /\ started \in BOOLEAN
  /\ tid \in BOOLEAN /\ slab \in BOOLEAN /\ camera \in BOOLEAN
  /\ tid <=> tpc \notin {"none", "gone"}
  /\ tid => started
  /\ started => slab
  /\ cpc \in InLoop => started
  /\ cpc \in {"start", "inline"} => tpc = "none" /\ ~started
  /\ cpc \in {"free", "close", "done"} => ~started
  /\ cpc # "done" => camera
  /\ failed => tpc \in {"exit", "gone"}

LEMMA InitControl == PipeInit => Control
  BY DEF PipeInit, Control, ThreadSteps, LoopSteps, InLoop

LEMMA ThreadControl == ASSUME Control, ThreadNext PROVE Control'
<1> USE DEF Control, Thread, ThreadSteps, flags, resources
<1>1. CASE CheckStop
  BY <1>1 DEF CheckStop
<1>2. CASE WaitFrame \/ CaptureBad \/ RequeueBuffer
  BY <1>2 DEF WaitFrame, CaptureBad, RequeueBuffer
<1>3. CASE WriteBegin \/ CaptureFrame \/ CopyRaw \/ WritePublish \/ WriteAbort
  BY <1>3 DEF WriteBegin, CaptureFrame, CopyRaw, WritePublish, WriteAbort
<1>4. CASE SetFailed
  BY <1>4 DEF SetFailed
<1>5. CASE ThreadExit
  BY <1>5 DEF ThreadExit
<1> QED BY <1>1, <1>2, <1>3, <1>4, <1>5 DEF ThreadNext

LEMMA LoopControl == ASSUME Control, LoopNext PROVE Control'
<1> USE DEF Control, Loop, ThreadSteps, LoopSteps, InLoop, flags, resources
<1>1. CASE StartFails \/ Quit
  BY <1>1 DEF StartFails, Quit
<1>2. CASE Start
  BY <1>2 DEF Start
<1>3. CASE Polling
  BY <1>3 DEF Polling, Iterate, PollFrame, PollNothing, AcquireFailed, AcquireTimeout,
              AcquireSleep, UseFrame
<1>4. CASE StopThread
  BY <1>4 DEF StopThread
<1>5. CASE Join
  BY <1>5 DEF Join
<1>6. CASE FreeSlab
  BY <1>6 DEF FreeSlab
<1>7. CASE CloseCamera
  BY <1>7 DEF CloseCamera
<1> QED BY <1>1, <1>2, <1>3, <1>4, <1>5, <1>6, <1>7 DEF LoopNext, Stopping

LEMMA NextControl == Control /\ [PipeNext]_pipeVars => Control'
<1>1. Control /\ UNCHANGED pipeVars => Control'
  BY DEF Control, pipeVars
<1> QED BY <1>1, ThreadControl, LoopControl DEF PipeNext, Ended

LEMMA ControlInvariant == PipeSpec => []Control
  BY InitControl, NextControl, PTL DEF PipeSpec

(***************************************************************************)
(* The slab is mapped and the camera open whenever the capture thread may  *)
(* use them, and the slab is mapped while the loop renders from it.        *)
(***************************************************************************)
THEOREM PipeIsMemorySafe == PipeSpec => []MemorySafe
<1>1. Control => MemorySafe
  BY DEF Control, MemorySafe, ThreadSteps, LoopSteps, InLoop
<1> QED BY <1>1, ControlInvariant, PTL

(***************************************************************************)
(* A thread that reported a failure publishes and writes nothing more.     *)
(***************************************************************************)
THEOREM FailureIsFinal == PipeSpec => NothingAfterFailure
<1> DEFINE Final == failed => failed' /\ published' = published /\ content' = content
<1>1. Control /\ [PipeNext]_pipeVars => [Final]_pipeVars
  <2> SUFFICES ASSUME Control, PipeNext, failed
               PROVE  Final
    OBVIOUS
  <2>1. CASE ThreadNext
    BY <2>1
    DEF Control, ThreadNext, Thread, CheckStop, WaitFrame, WriteBegin, CaptureBad,
        CaptureFrame, CopyRaw, RequeueBuffer, WritePublish, WriteAbort, SetFailed,
        ThreadExit, exchange, flags
  <2>2. CASE LoopNext
    BY <2>2
    DEF LoopNext, StartFails, Start, Quit, Polling, Iterate, PollFrame, PollNothing,
        AcquireFailed, AcquireTimeout, AcquireSleep, UseFrame, Stopping, StopThread,
        Join, FreeSlab, CloseCamera, fx_read_acquire, exchange, flags
  <2>3. CASE Ended
    BY <2>3 DEF Ended, pipeVars
  <2> QED BY <2>1, <2>2, <2>3 DEF PipeNext
<1>2. PipeSpec => [][Final]_pipeVars
  BY <1>1, ControlInvariant, PTL DEF PipeSpec
<1> QED BY <1>2 DEF NothingAfterFailure

-----------------------------------------------------------------------------
(***************************************************************************)
(* The protocol of the exchange. Where the thread is says which slot it    *)
(* fills and how far the copy is; a slot is torn only in mid-copy.         *)
(***************************************************************************)
Filling == {"capture", "copy", "requeue", "publish", "abort", "abort_fail"}

Protocol ==
  /\ tpc \in ThreadSteps
  /\ content \in [Slots -> Int]
  /\ produced \in Nat
  /\ IF tpc \in Filling THEN writing \in Slots ELSE writing = None
  /\ tpc = "begin" => produced < MaxFrames
  /\ tpc = "copy" => content[writing] = -1
  /\ tpc \in {"requeue", "publish"} => content[writing] = produced
  /\ \A s \in Slots : /\ content[s] <= produced
                      /\ content[s] = -1 => tpc = "copy" /\ s = writing
                      /\ tpc = "capture" => content[s] < produced

LEMMA InitProtocol == PipeInit => Protocol /\ Init
  BY PipeAssumption
  DEF PipeInit, Protocol, Init, fx_init, Slots, None, Blank, ThreadSteps,
        Filling

LEMMA ThreadProtocol ==
  ASSUME Protocol, ThreadNext
  PROVE  Protocol' /\ [Next]_vars
<1> USE DEF Protocol, Thread, ThreadSteps, Filling, exchange, Next, Producer
<1>1. CASE CheckStop \/ WaitFrame \/ CaptureBad \/ RequeueBuffer \/ SetFailed
             \/ ThreadExit
  BY <1>1 DEF CheckStop, WaitFrame, CaptureBad, RequeueBuffer, SetFailed, ThreadExit,
              vars
<1>2. CASE WriteBegin
  <2>1. FirstFree \in Slots
    BY FirstFreeIsFree
  <2>2. Begin
    BY <1>2 DEF WriteBegin, Begin, None
  <2>3. Protocol'
    BY <1>2, <2>1 DEF WriteBegin, fx_write_begin
  <2> QED BY <2>2, <2>3
<1>3. CASE CaptureFrame
  <2>1. StartFill
    BY <1>3 DEF CaptureFrame, StartFill, None, Torn, Slots
  <2>2. Protocol'
    BY <1>3 DEF CaptureFrame, FillStart, Torn
  <2> QED BY <2>1, <2>2
<1>4. CASE CopyRaw
  <2>1. EndFill
    BY <1>4 DEF CopyRaw, EndFill, None, Torn, Slots
  <2>2. Protocol'
    BY <1>4 DEF CopyRaw, FillEnd
  <2> QED BY <2>1, <2>2
<1>5. CASE WritePublish
  <2>1. Publish
    BY <1>5 DEF WritePublish, Publish, None, Slots
  <2>2. Protocol'
    BY <1>5 DEF WritePublish, fx_write_publish, None
  <2> QED BY <2>1, <2>2
<1>6. CASE WriteAbort
  <2>1. Abort
    BY <1>6 DEF WriteAbort, Abort, None, Slots
  <2>2. Protocol'
    BY <1>6 DEF WriteAbort, fx_write_abort, None
  <2> QED BY <2>1, <2>2
<1> QED BY <1>1, <1>2, <1>3, <1>4, <1>5, <1>6 DEF ThreadNext

LEMMA LoopProtocol ==
  ASSUME Control, Protocol, LoopNext \/ Ended
  PROVE  Protocol' /\ [Next]_vars
<1> USE DEF Protocol, exchange
<1>1. CASE Start
  BY <1>1 DEF Control, Start, Loop, ThreadSteps, Filling, vars
<1>2. CASE PollFrame \/ PollNothing
  <2>1. Acquire
    BY <1>2 DEF PollFrame, PollNothing, Acquire, None, Slots
  <2>2. UNCHANGED <<content, produced, tpc, writing>>
    BY <1>2 DEF PollFrame, PollNothing, fx_read_acquire
  <2> QED BY <2>1, <2>2 DEF Next
<1>3. CASE UNCHANGED <<exchange, tpc>>
  BY <1>3 DEF vars
<1>4. LoopNext \/ Ended => Start \/ PollFrame \/ PollNothing \/ UNCHANGED <<exchange, tpc>>
  BY DEF LoopNext, StartFails, Quit, Polling, Iterate, AcquireFailed, AcquireTimeout,
         AcquireSleep, UseFrame, Stopping, StopThread, Join, FreeSlab, CloseCamera,
         Ended, pipeVars
<1> QED BY <1>1, <1>2, <1>3, <1>4

(***************************************************************************)
(* The capture thread and the render loop follow the protocol of the frame *)
(* exchange: begin, fill, then publish or abort; one slot at a time.       *)
(***************************************************************************)
THEOREM PipeFollowsProtocol == PipeSpec => FollowsProtocol
<1>1. Control /\ Protocol /\ [PipeNext]_pipeVars => Protocol' /\ [Next]_vars
  <2>1. ASSUME Protocol, UNCHANGED pipeVars
        PROVE  Protocol' /\ [Next]_vars
    BY <2>1 DEF Protocol, pipeVars, vars
  <2> QED BY <2>1, ThreadProtocol, LoopProtocol DEF PipeNext
<1> QED BY <1>1, InitProtocol, ControlInvariant, PTL DEF PipeSpec, FollowsProtocol, Spec

-----------------------------------------------------------------------------
(***************************************************************************)
(* What was shown of the slots, carried over to the pipe.                  *)
(***************************************************************************)
LEMMA SlotsInvariant == PipeSpec => []IInv
  BY PipeFollowsProtocol, Invariance, PTL DEF FollowsProtocol

(***************************************************************************)
(* The history of delivered frames: the one in hand is the newest of them, *)
(* and each publication was delivered, replaced or is on offer.            *)
(***************************************************************************)
OnOffer == IF ready # None THEN 1 ELSE 0

Delivery ==
  /\ taken \subseteq 1 .. MaxFrames /\ IsFiniteSet(taken)
  /\ reading = None => taken = {}
  /\ reading # None => content[reading] \in taken
  /\ \A f \in taken : reading # None /\ f <= content[reading]
  /\ cpc = "use" => reading # None
  /\ published = Cardinality(taken) + dropped + OnOffer

\* What IInv says, spelled out.
LEMMA SlotFacts ==
  ASSUME IInv
  PROVE  /\ ready \in Slots \cup {None} /\ reading \in Slots \cup {None}
         /\ writing \in Slots \cup {None}
         /\ published \in Nat /\ dropped \in Nat
         /\ content \in [Slots -> Int]
         /\ ready # None => content[ready] \in 1 .. MaxFrames
         /\ ready # None => ready \notin {reading, writing}
         /\ reading # None => reading # writing /\ content[reading] > 0
         /\ ready # None /\ reading # None => content[ready] > content[reading]
  BY FramesAssumption, SlotsAssumption
  DEF IInv, TypeOK, OneRole, WholeFrames, Role, Slots, None, Torn

LEMMA InitDelivery == PipeInit => Delivery
  BY FS_EmptySet
  DEF PipeInit, Delivery, OnOffer, Init, fx_init, None, LoopSteps, InLoop

\* Taking a frame: it is newer than all taken before, so it is one more.
LEMMA TakeDelivery ==
  ASSUME IInv, Delivery, PollFrame
  PROVE  /\ Delivery'
         /\ \A f \in taken' \ taken : \A g \in taken : g < f
<1> USE SlotFacts DEF Delivery
<1>1. /\ ready \in Slots /\ ready # None /\ reading' = ready /\ ready' = None
      /\ taken' = taken \cup {content[ready]}
      /\ UNCHANGED <<published, dropped, content>>
      /\ cpc' = "use"
  BY DEF PollFrame, Loop, fx_read_acquire, Slots, None
<1>2. \A g \in taken : g < content[ready]
  BY <1>1
<1>3. content[ready] \in 1 .. MaxFrames /\ content[ready] \notin taken
  BY <1>1, <1>2
<1>4. IsFiniteSet(taken') /\ Cardinality(taken') = Cardinality(taken) + 1
  BY <1>1, <1>3, FS_AddElement
<1>5. Cardinality(taken) \in Nat
  BY FS_CardinalityType
<1>6. published' = Cardinality(taken') + dropped' + OnOffer'
  BY <1>1, <1>4, <1>5 DEF OnOffer
<1>7. /\ taken' \subseteq 1 .. MaxFrames
      /\ reading' # None
      /\ content'[reading'] \in taken'
      /\ \A f \in taken' : f <= content'[reading']
  <2>1. content'[reading'] = content[ready]
    BY <1>1
  <2>2. \A f \in taken' : f \in 1 .. MaxFrames /\ f <= content[ready]
    BY <1>1, <1>2, <1>3
  <2> QED BY <1>1, <2>1, <2>2
<1>8. Delivery'
  BY <1>4, <1>6, <1>7
<1> QED BY <1>1, <1>2, <1>8

LEMMA ThreadDelivery ==
  ASSUME IInv, Protocol, Delivery, ThreadNext
  PROVE  Delivery' /\ taken' = taken
<1> USE DEF Thread, exchange
<1>1. taken' = taken /\ reading' = reading /\ cpc' = cpc
  BY DEF ThreadNext, CheckStop, WaitFrame, WriteBegin, CaptureBad, CaptureFrame, CopyRaw,
         RequeueBuffer, WritePublish, WriteAbort, SetFailed, ThreadExit, fx_write_begin,
         FillStart, FillEnd, fx_write_publish, fx_write_abort
<1>2. reading # None => content'[reading] = content[reading]
  <2>1. CASE CaptureFrame \/ CopyRaw
    BY <2>1, SlotFacts DEF CaptureFrame, CopyRaw, FillStart, FillEnd, Slots
  <2>2. CASE ~(CaptureFrame \/ CopyRaw)
    BY <2>2 DEF ThreadNext, CheckStop, WaitFrame, WriteBegin, CaptureBad, RequeueBuffer,
                WritePublish, WriteAbort, SetFailed, ThreadExit
  <2> QED BY <2>1, <2>2
<1>3. Cardinality(taken) \in Nat
  BY FS_CardinalityType DEF Delivery
<1>4. published' = Cardinality(taken') + dropped' + OnOffer'
  <2>1. CASE WritePublish
    <3>1. writing \in Slots
      BY <2>1 DEF WritePublish, Protocol, Filling
    <3>2. /\ dropped' = IF ready >= 0 THEN dropped + 1 ELSE dropped
          /\ ready' = writing
          /\ published' = published + 1
      BY <2>1 DEF WritePublish, fx_write_publish
    <3> QED BY <1>1, <1>3, <3>1, <3>2, SlotFacts DEF Delivery, OnOffer, Slots, None
  <2>2. CASE ~WritePublish
    <3>1. UNCHANGED <<ready, published, dropped>>
      BY <2>2 DEF ThreadNext, CheckStop, WaitFrame, WriteBegin, CaptureBad, CaptureFrame,
                  CopyRaw, RequeueBuffer, WriteAbort, SetFailed, ThreadExit,
                  fx_write_begin, FillStart, FillEnd, fx_write_abort
    <3> QED BY <1>1, <3>1 DEF Delivery, OnOffer
  <2> QED BY <2>1, <2>2
<1> QED BY <1>1, <1>2, <1>4 DEF Delivery

LEMMA LoopDelivery ==
  ASSUME IInv, Delivery, LoopNext \/ Ended, ~PollFrame
  PROVE  Delivery' /\ taken' = taken
<1>1. UNCHANGED <<ready, reading, published, dropped, content, taken>>
  <2>1. CASE PollNothing
    BY <2>1, SlotFacts DEF PollNothing, fx_read_acquire, None
  <2>2. CASE ~PollNothing
    BY <2>2
    DEF LoopNext, StartFails, Start, Quit, Polling, Iterate, AcquireFailed, AcquireTimeout,
        AcquireSleep, UseFrame, Stopping, StopThread, Join, FreeSlab, CloseCamera, Ended,
        pipeVars, exchange
  <2> QED BY <2>1, <2>2
<1>2. cpc' # "use" \/ cpc' = cpc
  BY DEF LoopNext, Loop, StartFails, Start, Quit, Polling, Iterate, PollNothing,
         AcquireFailed, AcquireTimeout, AcquireSleep, UseFrame, Stopping, StopThread, Join,
         FreeSlab, CloseCamera, Ended, pipeVars
<1> QED BY <1>1, <1>2 DEF Delivery, OnOffer

LEMMA DeliveryStep ==
  IInv /\ Protocol /\ Delivery /\ [PipeNext]_pipeVars
    => Delivery' /\ [\A f \in taken' \ taken : \A g \in taken : g < f]_pipeVars
<1> SUFFICES ASSUME IInv, Protocol, Delivery, [PipeNext]_pipeVars
             PROVE  Delivery' /\ [\A f \in taken' \ taken : \A g \in taken : g < f]_pipeVars
  OBVIOUS
<1>1. CASE ThreadNext
  BY <1>1, ThreadDelivery
<1>2. CASE PollFrame
  BY <1>2, TakeDelivery
<1>3. CASE (LoopNext \/ Ended) /\ ~PollFrame
  BY <1>3, LoopDelivery
<1>4. CASE UNCHANGED pipeVars
  BY <1>4 DEF pipeVars, Delivery, OnOffer
<1> QED BY <1>1, <1>2, <1>3, <1>4 DEF PipeNext

LEMMA ProtocolInvariant == PipeSpec => []Protocol
<1>1. Control /\ Protocol /\ [PipeNext]_pipeVars => Protocol'
  <2>1. Protocol /\ UNCHANGED pipeVars => Protocol'
    BY DEF Protocol, pipeVars
  <2> QED BY <2>1, ThreadProtocol, LoopProtocol DEF PipeNext
<1> QED BY <1>1, InitProtocol, ControlInvariant, PTL DEF PipeSpec

LEMMA DeliveryInvariant == PipeSpec => []Delivery
  BY InitDelivery, DeliveryStep, SlotsInvariant, ProtocolInvariant, PTL DEF PipeSpec

(***************************************************************************)
(* The frame main renders is whole, the newest one delivered, and in no    *)
(* slot the thread writes or may choose.                                   *)
(***************************************************************************)
THEOREM FrameInUse == PipeSpec => []FrameInUseIsWhole
<1>1. IInv /\ Delivery => FrameInUseIsWhole
  BY SlotFacts DEF Delivery, FrameInUseIsWhole
<1> QED BY <1>1, SlotsInvariant, DeliveryInvariant, PTL

\* No published frame is lost without being counted.
THEOREM EveryFrameAccounted == PipeSpec => []FramesAccounted
<1>1. Delivery => FramesAccounted
  BY DEF Delivery, OnOffer, FramesAccounted
<1> QED BY <1>1, DeliveryInvariant, PTL

\* Frames are delivered in the order the camera gave them.
THEOREM DeliveredInOrder == PipeSpec => FramesInOrder
<1> DEFINE InOrder == \A f \in taken' \ taken : \A g \in taken : g < f
<1>1. IInv /\ Protocol /\ Delivery /\ [PipeNext]_pipeVars => [InOrder]_pipeVars
  BY DeliveryStep
<1>2. PipeSpec => [][InOrder]_pipeVars
  BY <1>1, SlotsInvariant, ProtocolInvariant, DeliveryInvariant, PTL DEF PipeSpec
<1> QED BY <1>2 DEF FramesInOrder

-----------------------------------------------------------------------------
(***************************************************************************)
(* The properties of the run, each for every value of the constants.       *)
(***************************************************************************)

\* An acquire sleeps at most Polls times.
PollsBounded == waited \in 0 .. Polls

LEMMA PollsInvariant == PipeSpec => []PollsBounded
<1>1. PipeInit => PollsBounded
  BY PipeAssumption DEF PipeInit, PollsBounded
<1>2. PollsBounded /\ [PipeNext]_pipeVars => PollsBounded'
  <2> SUFFICES ASSUME PollsBounded, [PipeNext]_pipeVars
               PROVE  PollsBounded'
    OBVIOUS
  <2> USE DEF PollsBounded
  <2>1. CASE Iterate
    BY <2>1, PipeAssumption DEF Iterate
  <2>2. CASE AcquireSleep
    BY <2>2, PipeAssumption DEF AcquireSleep
  <2>3. CASE ~Iterate /\ ~AcquireSleep
    <3>1. waited' = waited
      BY <2>3
      DEF PipeNext, ThreadNext, CheckStop, WaitFrame, WriteBegin, CaptureBad, CaptureFrame,
          CopyRaw, RequeueBuffer, WritePublish, WriteAbort, SetFailed, ThreadExit, LoopNext,
          StartFails, Start, Quit, Polling, PollFrame, PollNothing, AcquireFailed,
          AcquireTimeout, UseFrame, Stopping, StopThread, Join, FreeSlab, CloseCamera,
          Ended, pipeVars
    <3> QED BY <3>1
  <2> QED BY <2>1, <2>2, <2>3
<1> QED BY <1>1, <1>2, PTL DEF PipeSpec

\* The types, the roles of the slots and the frames in them.
THEOREM PipeIsSound == PipeSpec => []PipeSound
<1>1. Control /\ Delivery /\ PollsBounded => PipeTypeOK
  BY DEF Control, Delivery, PollsBounded, PipeTypeOK
<1>2. IInv /\ PipeTypeOK => PipeSound
  BY DEF IInv, PipeSound
<1> QED BY <1>1, <1>2, SlotsInvariant, ControlInvariant, DeliveryInvariant,
           PollsInvariant, PTL

(***************************************************************************)
(* No step delivers an older frame, changes the frame in the loop's hands  *)
(* or publishes after a failure.                                           *)
(***************************************************************************)
THEOREM PipeStepsHold == PipeSpec => PipeSteps
<1>1. PipeSpec => HeldFrameStable
  BY PipeFollowsProtocol, HeldFrameIsStable DEF FollowsProtocol
<1> QED BY <1>1, DeliveredInOrder, FailureIsFinal DEF PipeSteps

\* The pipe keeps to the protocol, so its slots are the one-frame box.
THEOREM PipeIsLatestFrame == PipeSpec => PipeImplements
<1>1. PipeSpec => ImplementsLatestFrame
  BY PipeFollowsProtocol, IsLatestFrame DEF FollowsProtocol
<1> QED BY <1>1, PipeFollowsProtocol DEF PipeImplements
=============================================================================
