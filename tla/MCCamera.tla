------------------------------ MODULE MCCamera ------------------------------
(***************************************************************************)
(* Two buffers asked for, up to three granted (one more than is used) and  *)
(* three frames: enough for a drain of two, a frame in hand while another  *)
(* one is filled, and a stray buffer. The middle mode fits the arena but   *)
(* not beside itself, the large one does not fit at all; two re-openings   *)
(* are a failure and the way back.                                         *)
(***************************************************************************)
EXTENDS Camera

MCLines == {0, 3}
MCSizes == {1, 3}
MCModes == {1, 2, 3}
MCRanges == [m \in MCModes |-> IF m = 1 THEN [lo |-> 0, hi |-> 2] ELSE [lo |-> 1, hi |-> 3]]
=============================================================================
