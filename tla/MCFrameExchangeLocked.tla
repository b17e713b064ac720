------------------------ MODULE MCFrameExchangeLocked ------------------------
(***************************************************************************)
(* TLC instance of FrameExchangeLocked: three slots, and enough frames for *)
(* the producer to scan past a ready and a held slot and to replace an     *)
(* unread frame while the consumer sleeps on the mutex or is inside.       *)
(***************************************************************************)
EXTENDS FrameExchangeLocked

CONSTANTS capture, render

Both == {capture, render}
=============================================================================
