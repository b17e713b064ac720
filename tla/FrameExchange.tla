---------------------------- MODULE FrameExchange ----------------------------
(***************************************************************************)
(* include/frame_exchange.h: the latest-wins triple buffer between the     *)
(* capture thread (producer) and the render loop (consumer), at the        *)
(* granularity of its critical sections. FrameExchangeLocked opens the     *)
(* sections up and shows that the mutex makes them atomic; CapturePipe     *)
(* composes these actions with the thread that calls them.                 *)
(*                                                                         *)
(* The header moves slot INDICES under the lock, "pixel data is copied     *)
(* outside it": `content` is that data, a frame number, or Torn from the   *)
(* first byte the producer writes into the slot to the last.               *)
(***************************************************************************)
EXTENDS Integers

CONSTANTS
  FX_SLOTS,   \* slots of the slab (3 in the header)
  MaxFrames   \* bound on the frames the camera delivers

ASSUME SlotsAssumption == FX_SLOTS \in Nat /\ FX_SLOTS >= 3
ASSUME FramesAssumption == MaxFrames \in Nat

VARIABLES
  ready,      \* newest published slot, not yet taken; None if none
  reading,    \* slot the consumer holds; None if none
  writing,    \* slot the producer fills; None if none
  published,
  dropped,
  content,    \* what each slot's pixels are
  produced    \* frames the producer started to fill

fx == <<ready, reading, writing, published, dropped>>
vars == <<ready, reading, writing, published, dropped, content, produced>>

None == -1
Torn == -1
Blank == 0
Slots == 0 .. FX_SLOTS - 1

\* Mutant: the scan does not look at the slot the consumer holds.
FirstFree_NotReading == CHOOSE i \in 0 .. 2 :
               /\ i # ready
               /\ \A j \in 0 .. i - 1 : j = ready

\* Mutant: the scan starts at 1.
FirstFree_FromOne == CHOOSE i \in 1 .. 3 :
               /\ i \notin {ready, reading}
               /\ \A j \in 1 .. i - 1 : j \in {ready, reading}

(***************************************************************************)
(* The lowest index that is neither `ready` nor `reading`: where the scan  *)
(* of fx_write_begin stops. Two indices are excluded, so it is at most 2;  *)
(* that it is also an index of a slot is a property, not a guard.          *)
(***************************************************************************)
FirstFree == CHOOSE i \in 0 .. 2 :
               /\ i \notin {ready, reading}
               /\ \A j \in 0 .. i - 1 : j \in {ready, reading}

fx_init ==
  /\ ready = None
  /\ reading = None
  /\ writing = None
  /\ published = 0
  /\ dropped = 0

fx_write_begin ==
  /\ writing' = FirstFree
  /\ UNCHANGED <<ready, reading, published, dropped>>

\* Mutant: a replaced frame is not counted.
fx_write_publish_NoCount ==
  /\ ready' = writing
  /\ writing' = None
  /\ published' = published + 1
  /\ UNCHANGED <<reading, dropped>>

fx_write_publish ==
  /\ dropped' = IF ready >= 0 THEN dropped + 1 ELSE dropped
  /\ ready' = writing
  /\ writing' = None
  /\ published' = published + 1
  /\ UNCHANGED reading

\* Mutant: the slot of a bad frame is offered.
fx_write_abort_Offers ==
  /\ ready' = writing
  /\ writing' = None
  /\ UNCHANGED <<reading, published, dropped>>

fx_write_abort ==
  /\ writing' = None
  /\ UNCHANGED <<ready, reading, published, dropped>>

\* Mutant: a frame is only taken when none is held, and none is ever let go.
fx_read_acquire_Once(idx) ==
  /\ idx = IF reading = None THEN ready ELSE None
  /\ reading' = IF idx >= 0 THEN idx ELSE reading
  /\ ready' = IF idx >= 0 THEN None ELSE ready
  /\ UNCHANGED <<writing, published, dropped>>

\* idx is what the call returns: a slot, or None with the state unchanged.
fx_read_acquire(idx) ==
  /\ idx = ready
  /\ reading' = IF idx >= 0 THEN idx ELSE reading
  /\ ready' = None
  /\ UNCHANGED <<writing, published, dropped>>

(***************************************************************************)
(* The producer between begin and publish or abort: the first byte makes   *)
(* the slot torn, the last one makes it the frame.                         *)
(***************************************************************************)
FillStart ==
  /\ content' = [content EXCEPT ![writing] = Torn]
  /\ UNCHANGED <<ready, reading, writing, published, dropped, produced>>

FillEnd ==
  /\ content' = [content EXCEPT ![writing] = produced]
  /\ UNCHANGED <<ready, reading, writing, published, dropped, produced>>

-----------------------------------------------------------------------------
(***************************************************************************)
(* The protocol the two callers follow: begin, fill, then publish; or      *)
(* begin and abort, before or in the middle of the fill.                   *)
(***************************************************************************)
Init ==
  /\ fx_init
  /\ content = [s \in Slots |-> Blank]
  /\ produced = 0

Begin ==
  /\ writing = None
  /\ produced < MaxFrames
  /\ fx_write_begin
  /\ produced' = produced + 1
  /\ UNCHANGED content

StartFill ==
  /\ writing # None
  /\ content[writing] # Torn
  /\ content[writing] # produced
  /\ FillStart

EndFill ==
  /\ writing # None
  /\ content[writing] = Torn
  /\ FillEnd

Publish ==
  /\ writing # None
  /\ content[writing] = produced
  /\ fx_write_publish
  /\ UNCHANGED <<content, produced>>

Abort ==
  /\ writing # None
  /\ fx_write_abort
  /\ UNCHANGED <<content, produced>>

Acquire ==
  /\ \E idx \in Slots \cup {None} : fx_read_acquire(idx)
  /\ UNCHANGED <<content, produced>>

Producer == Begin \/ StartFill \/ EndFill \/ Publish \/ Abort
Next == Producer \/ Acquire

Spec == Init /\ [][Next]_vars

-----------------------------------------------------------------------------
Role == Slots \cup {None}

\* Every variable has the values the code can give it; an index the scan of
\* fx_write_begin returns is always one of the slab's slots.
TypeOK ==
  /\ ready \in Role
  /\ reading \in Role
  /\ writing \in Role
  /\ published \in Nat
  /\ dropped \in Nat
  /\ content \in [Slots -> 0 .. MaxFrames \cup {Torn}]
  /\ produced \in 0 .. MaxFrames

(***************************************************************************)
(* "Three slots, and at any time each is in at most one role"              *)
(* (frame_exchange.h:8): no slot is offered, held and filled at once.      *)
(***************************************************************************)
OneRole ==
  /\ ready # None => ready \notin {reading, writing}
  /\ reading # None => reading # writing

(***************************************************************************)
(* "consumer never sees a half-written frame" (frame_exchange.h:15): the   *)
(* slot on offer and the slot in the consumer's hands are whole frames,    *)
(* and the one on offer is newer than the one in hand.                     *)
(***************************************************************************)
WholeFrames ==
  /\ ready # None => content[ready] \in 1 .. produced
  /\ reading # None => content[reading] \in 1 .. produced
  /\ ready # None /\ reading # None => content[ready] > content[reading]

(***************************************************************************)
(* The slot an acquire returned "stays valid until next successful call"   *)
(* (frame_exchange.h:83): whatever the producer does meanwhile, its pixels *)
(* do not change, and only an acquire makes the consumer let go of it.     *)
(***************************************************************************)
HeldFrameStable ==
  [][reading # None =>
       \/ reading' = reading /\ content'[reading] = content[reading]
       \/ reading' = ready /\ content' = content]_vars

\* What LatestFrame calls the frame in a slot.
FrameIn(slot) == IF slot = None THEN 0 ELSE content[slot]

Latest == INSTANCE LatestFrame WITH
            filling <- IF writing = None THEN 0 ELSE produced,
            box <- FrameIn(ready),
            held <- FrameIn(reading)

(***************************************************************************)
(* The three slots behave as the one-frame box of LatestFrame: an acquire  *)
(* takes the newest published frame, and `dropped` counts exactly the      *)
(* frames that were replaced unread.                                       *)
(***************************************************************************)
ImplementsLatestFrame == Latest!Spec
=============================================================================
