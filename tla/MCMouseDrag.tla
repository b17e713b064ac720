----------------------------- MODULE MCMouseDrag -----------------------------
(***************************************************************************)
(* A terminal that has room to move and to size the frame, one that leaves *)
(* the smallest frame no play, one too small for it, and one of unknown    *)
(* size; frames to start with inside, outside and below the least size.    *)
(***************************************************************************)
EXTENDS Window

At(w, h) == [x |-> 1, y |-> 1, w |-> w, h |-> h]

MCSizes == {<<0, 0>>, <<4, 4>>, <<2, 4>>, <<1, 2>>}
MCFrames == {At(2, 2), At(5, 4), At(1, 3)}
MCPointer == (1..4) \X (1..4)

\* What an ended drag leaves behind is never read again.
Live == <<term, known, resized, frame, manual, fitted, outline, mode, out_size, shown,
          IF drag.mode = "NONE" THEN Idle ELSE drag>>
=============================================================================
