----------------------------- MODULE LatestFrame -----------------------------
(***************************************************************************)
(* What frame_exchange.h promises its two users, with no slot and no lock: *)
(* a box for ONE finished frame, filled by the capture thread and emptied  *)
(* by the render loop. A frame is its number in the order the camera       *)
(* delivered it (1, 2, ...); 0 stands for "no frame". Publishing never     *)
(* waits: an untaken frame in the box is replaced, and counted as dropped. *)
(***************************************************************************)
EXTENDS Naturals

CONSTANT MaxFrames          \* bound on the frames the camera delivers

VARIABLES
  produced,   \* number of the newest frame the producer started to fill
  filling,    \* frame being filled, 0 if none
  box,        \* newest published frame nobody has taken, 0 if none
  held,       \* frame the consumer took last, 0 if none yet
  published,  \* frames published so far
  dropped     \* published frames replaced before they were taken

vars == <<produced, filling, box, held, published, dropped>>

NoFrame == 0

Init ==
  /\ produced = 0
  /\ filling = NoFrame
  /\ box = NoFrame
  /\ held = NoFrame
  /\ published = 0
  /\ dropped = 0

Begin ==
  /\ filling = NoFrame
  /\ produced < MaxFrames
  /\ produced' = produced + 1
  /\ filling' = produced + 1
  /\ UNCHANGED <<box, held, published, dropped>>

Publish ==
  /\ filling # NoFrame
  /\ box' = filling
  /\ filling' = NoFrame
  /\ published' = published + 1
  /\ dropped' = IF box # NoFrame THEN dropped + 1 ELSE dropped
  /\ UNCHANGED <<produced, held>>

Abort ==
  /\ filling # NoFrame
  /\ filling' = NoFrame
  /\ UNCHANGED <<produced, box, held, published, dropped>>

Take ==
  /\ box # NoFrame
  /\ held' = box
  /\ box' = NoFrame
  /\ UNCHANGED <<produced, filling, published, dropped>>

Next == Begin \/ Publish \/ Abort \/ Take

Spec == Init /\ [][Next]_vars
=============================================================================
