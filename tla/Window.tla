-------------------------------- MODULE Window --------------------------------
(***************************************************************************)
(* What is drawn in the frame that MouseDrag moves and sizes: the renderer *)
(* of src/ascii.c writes the picture into a buffer the main loop allocated *)
(* for another render mode and maybe another size, and drops whatever does *)
(* not fit without a word; the terminal keeps what was drawn until it is   *)
(* cleared.                                                                *)
(*                                                                         *)
(* The glyphs are abstracted to the bytes they take: the fewest or the     *)
(* most of their mode.  Braille, blocks, ramp and dots are one mode here,  *)
(* for they share sizes and loops; half blocks are the other.              *)
(***************************************************************************)
EXTENDS MouseDrag

CONSTANT COLOR  \* opts.color; the program never changes it

ASSUME ColorAssumption == COLOR \in BOOLEAN

Modes == {"CELLS", "HALF_BLOCK"}

VARIABLES
    mode,      \* opts.render_mode
    out_size,  \* the size of out_buf
    shown      \* what of older and newer pictures is on the terminal: rectangles

window == <<mode, out_size, shown>>

ROW_END_MAX == 24  \* ASCII_ROW_END_MAX

--------------------------------------------------------------------------
(* Sizes of the buffer *)

\* The bytes of a cell that the buffer is made for.
PerCell(m) == IF COLOR THEN (IF m = "CELLS" THEN 22 ELSE 41) ELSE 3

\* ascii_out_size_for_mode, in pixels of the finest mode.
OutSizeForMode(dst_w, dst_h, m) ==
    LET tw == IF m = "CELLS" THEN dst_w \div 2 ELSE dst_w
        th == IF m = "CELLS" THEN dst_h \div 4 ELSE dst_h \div 2
    IN  ROW_END_MAX + th * (tw * PerCell(m) + ROW_END_MAX) + 1

\* Mutant: the size of the frame in cells is taken for its size in pixels.
Need_Cells(w, h) ==
    Greatest(OutSizeForMode(w, h, "CELLS"), OutSizeForMode(w, h, "HALF_BLOCK"))

\* The largest over all modes.
Need(w, h) ==
    Greatest(OutSizeForMode(2 * w, 4 * h, "CELLS"), OutSizeForMode(2 * w, 4 * h, "HALF_BLOCK"))

--------------------------------------------------------------------------
(* The picture *)

\* The cells grayscale_to_ascii writes: half blocks come in an even number.
PictureOf(r, m) ==
    [r EXCEPT !.w = IF m = "CELLS" THEN r.w ELSE r.w - (r.w % 2)]

\* Bytes of a cell: a space or 256 colours of one digit, and the worst case.
CellBytes(m) ==
    IF COLOR THEN {IF m = "CELLS" THEN 11 ELSE 23, PerCell(m)}
    ELSE {1, PerCell(m)}

\* Digits of a coordinate.  The kernel counts rows and columns in 16 bits, so
\* no row of a frame has a number of more than six.
Digits(n) ==
    IF n < 10 THEN 1 ELSE IF n < 100 THEN 2 ELSE IF n < 1000 THEN 3
    ELSE IF n < 10000 THEN 4 ELSE IF n < 100000 THEN 5 ELSE 6

\* ESC [ row ; column H
GotoBytes(r, row) == 4 + Digits(row) + Digits(r.x)

\* The end of row number i: colours off, then a newline or the next place.
RowEndBytes(r, i) ==
    (IF COLOR THEN 4 ELSE 0) + (IF r.x > 1 THEN GotoBytes(r, r.y + i) ELSE 1)

HomeBytes(r) == IF r.x > 1 \/ r.y > 1 THEN GotoBytes(r, r.y) ELSE 3

\* grayscale_to_ascii: the bytes of a picture of which nothing is left out.
PictureLength(r, bytes) ==
    LET upTo[i \in 0 .. r.h] ==
            IF i = 0 THEN HomeBytes(r)
            ELSE upTo[i - 1] + r.w * bytes + RowEndBytes(r, i)
    IN  upTo[r.h]

\* emit_glyph, emit_row_end: a piece that would end at or behind the end of
\* the buffer is left out.
LeavesOut(length) == length >= out_size

WindowInit ==
    /\ Init
    /\ mode \in Modes
    /\ out_size = Need(frame.w, frame.h)
    /\ shown = {}

\* Without memory for the subpixels nothing is drawn.
Draw ==
    /\ PictureOf(frame, mode).w > 0
    /\ shown' = shown \union {PictureOf(frame, mode)}
    /\ UNCHANGED <<mode, out_size>>

\* m, M: the five modes in a circle.
KeyMode ==
    /\ mode' \in IF mode = "HALF_BLOCK" THEN {"CELLS"} ELSE Modes
    /\ UNCHANGED <<out_size, shown>>

\* Mutant: a buffer of the new size for the mode of the moment.
Resized_ThisMode ==
    out_size' = IF <<frame'.w, frame'.h>> = <<frame.w, frame.h>> THEN out_size
                ELSE OutSizeForMode(2 * frame'.w, 4 * frame'.h, mode)

\* The rest of apply_ascii_size: a new size has a new buffer.
Resized ==
    out_size' = IF <<frame'.w, frame'.h>> = <<frame.w, frame.h>> THEN out_size
                ELSE Need(frame'.w, frame'.h)

\* Mutant: a frame that was dragged leaves its picture behind.
Released_NotCleared ==
    /\ Resized
    /\ UNCHANGED <<mode, shown>>

\* MOUSE_APPLY clears the terminal, a release of an unmoved frame does not.
Released ==
    /\ Resized
    /\ shown' = IF drag.pv = drag.base THEN shown ELSE {}
    /\ UNCHANGED mode

Refitted ==
    /\ Resized
    /\ shown' = {}
    /\ UNCHANGED mode

WindowNext ==
    \/ \E p \in Pointer : (Press(p) \/ Motion(p)) /\ UNCHANGED window
    \/ Release /\ Released
    \/ Winch /\ UNCHANGED window
    \/ KeyAuto /\ UNCHANGED window
    \/ Refit /\ Refitted
    \/ Draw /\ UNCHANGED vars
    \/ KeyMode /\ UNCHANGED vars

WindowSpec == WindowInit /\ [][WindowNext]_<<vars, window>>

--------------------------------------------------------------------------
(* Properties *)

\* Whatever size the frame was dragged to, whatever mode was chosen since and
\* whichever allocations failed, the picture fits the buffer to its last
\* glyph: nothing is left out.
PictureFits ==
    \A m \in Modes : \A bytes \in CellBytes(m) :
        ~LeavesOut(PictureLength(PictureOf(frame, m), bytes))

\* No rectangle that was drawn as a picture lies outside the frame.
NothingStale ==
    \A r \in shown : r.x = frame.x /\ r.y = frame.y /\ r.h = frame.h
                     /\ Right(r) <= Right(frame)

(***************************************************************************)
(* Of a frame that may have been moved, sized and redrawn in other modes   *)
(* the whole picture is drawn, and no rectangle of an older picture is     *)
(* left outside it. Nothing is said of an outline, which a press after a   *)
(* lost release leaves, nor of what an older mode has left inside the      *)
(* frame: half blocks do not draw the last column of an odd width.         *)
(***************************************************************************)
WindowSound ==
    /\ mode \in Modes
    /\ PictureFits
    /\ NothingStale
=============================================================================
