------------------------------- MODULE Camera -------------------------------
(***************************************************************************)
(* The camera of V4L2Capture through a session: opened, its pixel buffers  *)
(* allocated and its controls read (main.c), re-opened in another mode     *)
(* (src/capture_reinit.c, by a caller that goes back to the mode before,   *)
(* as tests/test_capture_reinit.c does), and its hardware controls turned  *)
(* (the end of src/capture_linux.c).                                       *)
(*                                                                         *)
(* A mode is the pixels of a picture; the driver picks one, whatever is    *)
(* asked for. The allocator (NlAlloc) gives what fits its arena.           *)
(***************************************************************************)
EXTENDS V4L2Capture

CONSTANTS
  Modes,         \* pixels of the pictures the driver offers
  Color,         \* colour is on: rgb is wanted too
  ARENA,         \* what the allocator holds
  Ranges,        \* mode |-> values of the control, lo .. hi
  Delta,         \* what one key adds to the control or takes away
  MaxReinits, MaxTurns  \* bounds on modes asked for, controls turned

ASSUME CameraAssumption ==
  /\ Modes \subseteq Nat \ {0} /\ Color \in BOOLEAN /\ ARENA \in Nat
  /\ Ranges \in [Modes -> [lo : Nat, hi : Nat]]
  /\ \A m \in Modes : Ranges[m].lo <= Ranges[m].hi
  /\ Delta \in Nat /\ MaxReinits \in Nat /\ MaxTurns \in Nat

VARIABLES
  task,          \* what the program is at: "run", or a step of a re-opening
  mode,          \* cam->width * cam->height, 0 when *cam is reset
  gray, rgb,     \* pixels the buffers hold, 0 for NULL
  control, auto, \* the camera's exposure, and whether the camera sets it
  disabled,      \* impl->auto_exposure_disabled
  hw_exposure,   \* what the panel shows, None when unknown
  told,          \* history: what the camera was told since it was opened, or None
  refused,       \* history: since then it would not leave the exposure to the program
  reinits, turns

pixels == <<gray, rgb>>
knobs == <<control, auto, disabled, hw_exposure, told, refused>>
session == <<task, mode, pixels, knobs, reinits, turns>>
cameraVars == <<vars, session>>

RgbSize(m) == IF Color THEN 3 * m ELSE 0
Need(m) == m + RgbSize(m)

CameraInit ==
  /\ Init
  /\ task = "opening" /\ mode = 0
  /\ gray = 0 /\ rgb = 0
  /\ control = 1 /\ auto = TRUE /\ disabled = FALSE /\ hw_exposure = None /\ told = None
  /\ refused = FALSE /\ reinits = 0 /\ turns = 0

-----------------------------------------------------------------------------
\* A step of V4L2Capture; the program captures and ends only when it is ready.
\* Bound: where controls are turned the driver fills no buffer, and with a
\* re-opening only one.
Capture ==
  /\ Next
  /\ turns > 0 => produced' = produced
  /\ reinits > 0 => produced' <= 1
  /\ pc = "top" /\ pc' # pc => task = "run"
  /\ IF pc = "format" /\ pc' = "request" THEN mode' \in Modes ELSE UNCHANGED mode
  /\ UNCHANGED <<task, pixels, knobs, reinits, turns>>

\* The device cannot be opened: it is not there.
OpenGone ==
  /\ Step("open", "closed") /\ gone
  /\ UNCHANGED <<driver, memory, format, locals, device, gone, session>>

\* Mutant: webcam_cleanup is left out.
Reinit_StillOpen ==
  /\ (pc = "top" /\ task = "run") \/ (pc = "closed" /\ task = "failed")
  /\ produced < 2 /\ reinits < MaxReinits /\ reinits' = reinits + 1
  /\ task' = "closing" /\ pc' = "closed"
  /\ UNCHANGED <<driver, memory, format, locals, device, gone, mode, pixels, knobs, turns>>

(***************************************************************************)
(* capture_reinit, for another mode between two frames or for the mode     *)
(* before after a failure: webcam_cleanup, which a closed camera skips.    *)
(* Bound: at most one frame was filled before.                             *)
(***************************************************************************)
Reinit ==
  /\ (pc = "top" /\ task = "run") \/ (pc = "closed" /\ task = "failed")
  /\ produced < 2 /\ reinits < MaxReinits /\ reinits' = reinits + 1
  /\ task' = "closing" /\ pc' = IF pc = "top" THEN "cleanup" ELSE "closed"
  /\ UNCHANGED <<driver, memory, format, locals, device, gone, mode, pixels, knobs, turns>>

\* Mutant: _impl_storage is not reset.
Reopen_KeepsFlag ==
  /\ task = "closing" /\ task' = "opening"
  /\ Step("closed", "open")
  /\ mode' = 0 /\ bytesperline' = 0 /\ width2' = 0 /\ stride' = 0
  /\ saved' = 0 /\ told' = None /\ refused' = FALSE
  /\ UNCHANGED <<driver, memory, locals, open, streaming, priority, gone,
                 pixels, control, auto, disabled, hw_exposure, reinits, turns>>

\* *cam and _impl_storage are reset, and webcam_init begins.
Reopen ==
  /\ task = "closing" /\ task' = "opening"
  /\ Step("closed", "open")
  /\ mode' = 0 /\ bytesperline' = 0 /\ width2' = 0 /\ stride' = 0
  /\ saved' = 0 /\ disabled' = FALSE /\ told' = None /\ refused' = FALSE
  /\ UNCHANGED <<driver, memory, locals, open, streaming, priority, gone,
                 pixels, control, auto, hw_exposure, reinits, turns>>

\* webcam_init failed: the buffers are the old ones.
InitFailed ==
  /\ task = "opening" /\ pc = "closed"
  /\ task' = "failed" /\ mode' = 0
  /\ UNCHANGED <<vars, pixels, knobs, reinits, turns>>

\* Mutant: the old buffers are kept until the new ones are there.
FreeOld_Later ==
  /\ task = "opening" /\ pc = "top" /\ task' = "alloc"
  /\ UNCHANGED <<vars, mode, pixels, knobs, reinits, turns>>

\* Old buffers are freed before new ones are allocated.
FreeOld ==
  /\ task = "opening" /\ pc = "top" /\ task' = "alloc"
  /\ gray' = 0 /\ rgb' = 0
  /\ UNCHANGED <<vars, mode, knobs, reinits, turns>>

\* The camera's range differs per mode.
InRange(v, m) == IF v < Ranges[m].lo THEN Ranges[m].lo
                 ELSE IF v > Ranges[m].hi THEN Ranges[m].hi ELSE v

\* webcam_get_exposure: the camera answers, or *value stays what it was, -1.
Answer(v) == {None} \cup (IF gone THEN {} ELSE {v})

\* webcam_set_auto_exposure(cam, 0), tried once: whether it failed is not looked at.
AutoOff ==
  /\ disabled' = TRUE
  /\ IF disabled THEN UNCHANGED <<auto, refused>>
     ELSE \E done \in (IF gone THEN {FALSE} ELSE BOOLEAN) :
            auto' = (auto /\ ~done) /\ refused' = ~done

\* Both buffers are there: the controls are read again.
Allocated ==
  /\ task = "alloc" /\ gray + rgb + Need(mode) <= ARENA
  /\ task' = "run"
  /\ gray' = mode /\ rgb' = RgbSize(mode)
  /\ control' = InRange(control, mode)
  /\ hw_exposure' \in Answer(control')
  /\ UNCHANGED <<vars, mode, auto, disabled, told, refused, reinits, turns>>

\* Mutant: what was allocated first is left.
NoRoom_Half ==
  /\ task = "alloc" /\ gray + rgb + Need(mode) > ARENA
  /\ task' = "undo" /\ pc' = "cleanup"
  /\ gray' = IF gray + rgb + mode <= ARENA THEN mode ELSE 0
  /\ rgb' = 0
  /\ UNCHANGED <<driver, memory, format, locals, device, gone, mode, knobs, reinits, turns>>

\* Or one is not: neither is kept, and the camera is closed again.
NoRoom ==
  /\ task = "alloc" /\ gray + rgb + Need(mode) > ARENA
  /\ task' = "undo" /\ pc' = "cleanup"
  /\ gray' = 0 /\ rgb' = 0
  /\ UNCHANGED <<driver, memory, format, locals, device, gone, mode, knobs, reinits, turns>>

Undone ==
  /\ task = "undo" /\ pc = "closed"
  /\ task' = "failed" /\ mode' = 0
  /\ UNCHANGED <<vars, pixels, knobs, reinits, turns>>

-----------------------------------------------------------------------------
\* Mutant: what the key asks for is shown.
Adjust_Unclamped(delta) ==
  LET cur == control IN
  /\ AutoOff
  /\ control' = InRange(cur + delta, mode)
  /\ hw_exposure' = cur + delta /\ told' = control'

(***************************************************************************)
(* webcam_adjust_exposure: the automatic is to be switched off, once, even *)
(* when the rest fails; a value that cannot be read counts as the least.   *)
(* (White balance is the same, contrast has no automatic.)                 *)
(***************************************************************************)
Adjust(delta) ==
  \E known \in BOOLEAN :
    LET cur == IF known THEN control ELSE Ranges[mode].lo
        next == InRange(cur + delta, mode)
    IN  \/ /\ AutoOff
           /\ control' = next /\ hw_exposure' = next /\ told' = next
        \/ /\ AutoOff
           /\ UNCHANGED <<control, hw_exposure, told>>

\* The keys of main.c, between two frames. Bound: before the first one.
Turn ==
  /\ pc = "top" /\ task = "run" /\ produced = 0 /\ turns < MaxTurns
  /\ turns' = turns + 1
  /\ IF gone THEN AutoOff /\ UNCHANGED <<control, hw_exposure, told>>
             ELSE Adjust(Delta) \/ Adjust(-Delta)
  /\ UNCHANGED <<vars, task, mode, pixels, reinits>>

\* The camera sets its exposure itself. Bound: before the first frame.
AutoExposure ==
  /\ auto /\ ~gone /\ task = "run" /\ pc = "top" /\ produced = 0 /\ turns < MaxTurns
  /\ turns' = turns + 1
  /\ control' \in Ranges[mode].lo .. Ranges[mode].hi
  /\ UNCHANGED <<vars, task, mode, pixels, auto, disabled, hw_exposure, told, refused, reinits>>

Reopening == Reopen \/ OpenGone \/ InitFailed \/ FreeOld \/ Allocated \/ NoRoom \/ Undone

CameraNext == Capture \/ Reinit \/ Reopening \/ Turn \/ AutoExposure

CapturesOn == (Opening \/ Capturing \/ webcam_cleanup) /\ Capture

CameraSpec == CameraInit /\ [][CameraNext]_cameraVars
                /\ WF_cameraVars(CapturesOn) /\ WF_cameraVars(Reopening)

-----------------------------------------------------------------------------
(***************************************************************************)
(* While pictures are taken, each fits its buffers: they are of the mode   *)
(* the driver picked, however re-openings failed and followed each other.  *)
(***************************************************************************)
BuffersFit == task = "run" /\ open => gray = mode /\ rgb = RgbSize(mode)

(***************************************************************************)
(* "On failure camera is left closed ... and *gray / *rgb are either still *)
(* old buffers ... or NULL" (capture_reinit.c:8): never one of the two, so *)
(* that the same call restores the mode before.                            *)
(***************************************************************************)
FailureIsClean ==
  task = "failed" => /\ pc = "closed" /\ ~open /\ mapped = {}
                     /\ mode = 0 /\ rgb = RgbSize(gray)

\* "holding old and new frames at once ... exhausts it" (capture_reinit.c:13):
\* a mode that fits the arena is never refused for the one before.
RefusedDoesNotFit == task = "undo" => Need(mode) > ARENA

(***************************************************************************)
(* What the panel shows of a control the user has set is what the camera   *)
(* was told last, in the range of the mode. It is also what the camera     *)
(* uses, unless it refused to leave the exposure to the program: then it   *)
(* goes on to change what the panel shows as set.                          *)
(***************************************************************************)
ShownIsSet ==
  task = "run" /\ open /\ told # None =>
    /\ hw_exposure = told /\ told \in Ranges[mode].lo .. Ranges[mode].hi
    /\ ~refused => control = told /\ ~auto

(***************************************************************************)
(* A camera that is re-opened, fails, or is turned at its controls stays   *)
(* in step with the program.                                               *)
(***************************************************************************)
CameraSound ==
  /\ BuffersFit
  /\ FailureIsClean
  /\ RefusedDoesNotFit
  /\ ShownIsSet

(***************************************************************************)
(* The types; frames come from buffers the program has, and a camera that  *)
(* is closed is clean.                                                     *)
(***************************************************************************)
CaptureSound ==
  /\ BuffersSound
  /\ ClosedIsClean
=============================================================================
