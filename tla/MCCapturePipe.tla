---------------------------- MODULE MCCapturePipe ----------------------------
(***************************************************************************)
(* TLC instance of CapturePipe: enough frames for the three slots to be    *)
(* recycled while one is in use and one unread, an acquire of two polls.   *)
(***************************************************************************)
EXTENDS CapturePipe
=============================================================================
