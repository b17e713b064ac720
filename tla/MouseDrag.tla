------------------------------ MODULE MouseDrag ------------------------------
(***************************************************************************)
(* Placing and sizing the frame with the mouse: the drag state machine of  *)
(* src/mouse.c and the part of the main loop (src/main.c) that feeds it,   *)
(* draws the outline, adopts the result, and fits the frame to a terminal  *)
(* whose size changes under it.                                            *)
(*                                                                         *)
(* Only the left button matters: the wheel and the other buttons return    *)
(* MOUSE_NONE without touching anything.  A release may be lost (the focus *)
(* went elsewhere), so a press may follow a press.                         *)
(***************************************************************************)
EXTENDS Integers

CONSTANTS
    MIN_W, MIN_H, MAX_W, MAX_H,  \* MIN_ASCII_W, ..., DRAG_MAX_ASCII_H
    PANEL_ROWS,                  \* rows of the status panel
    MARGIN,                      \* CORNER_DRAG_MARGIN
    FAR,                         \* the limit when the size is unknown (1 << 20)
    Sizes,                       \* sizes the terminal may have: <<w, h>>
    Frames,                      \* frames the program may start with
    Pointer                      \* where the pointer may be: <<x, y>>

\* The terminal's size is readable, or it is <<0, 0>> and never is.
ASSUME LimitsAssumption ==
    /\ MIN_W \in Nat /\ MIN_H \in Nat /\ MAX_W \in Nat /\ MAX_H \in Nat
    /\ 0 < MIN_W /\ MIN_W <= MAX_W /\ 0 < MIN_H /\ MIN_H <= MAX_H
    /\ PANEL_ROWS \in Nat /\ MARGIN \in Nat
    /\ FAR \in Nat /\ MAX_W < FAR /\ MAX_H < FAR

ASSUME SizesAssumption ==
    \A s \in Sizes : \/ s = <<0, 0>>
                     \/ /\ s \in Nat \X Nat
                        /\ 0 < s[1] /\ s[1] < FAR /\ 0 < s[2] /\ s[2] < FAR

Rect == [x : Int, y : Int, w : Int, h : Int]

ASSUME FramesAssumption ==
    /\ \A f \in Frames : f \in Rect /\ f.x = 1 /\ f.y = 1 /\ f.w > 0 /\ f.h > 0
    /\ Pointer \subseteq Int \X Int

VARIABLES
    term,     \* the terminal's real size
    known,    \* term_w, term_h
    resized,  \* term_resized
    frame,    \* frame_x, frame_y, ascii_w, ascii_h
    drag,     \* mouse_drag: mode (dragging), start, base, pv
    outline,  \* outline while outline_on, else NoRect
    manual,   \* ascii_size_manual
    fitted    \* the frame was fitted to this size of the terminal

vars == <<term, known, resized, frame, drag, outline, manual, fitted>>

NoRect == [x |-> 0, y |-> 0, w |-> 0, h |-> 0]
Corners == {"TL", "TR", "BL", "BR"}
Grabs == Corners \union {"MOVE"}

Least(a, b)  == IF a < b THEN a ELSE b
Greatest(a, b) == IF a > b THEN a ELSE b

\* Mutant: an empty range is its upper end.
Clamp_Inverted(v, lo, hi) == IF v < lo THEN lo ELSE IF v > hi THEN hi ELSE v

\* clamp_int: an empty range is its lower end.
Clamp(v, lo, hi) ==
    IF v < lo THEN lo ELSE IF v > Greatest(lo, hi) THEN Greatest(lo, hi) ELSE v

\* area_right, area_bottom: the last column and row the frame may use.
AreaRight  == IF known[1] > 0 THEN known[1] ELSE FAR
AreaBottom == IF known[2] > 0 THEN known[2] - PANEL_ROWS ELSE FAR

Right(r)  == r.x + r.w - 1
Bottom(r) == r.y + r.h - 1

\* hit_test: the part of the frame under the pointer, or "NONE".
HitTest(p, r) ==
    LET left   == p[1] - r.x <= MARGIN
        right  == Right(r) - p[1] <= MARGIN
        top    == p[2] - r.y <= MARGIN
        bottom == Bottom(r) - p[2] <= MARGIN
    IN  IF p[1] < r.x \/ p[1] > Right(r) \/ p[2] < r.y \/ p[2] > Bottom(r)
        THEN "NONE"
        ELSE IF bottom /\ right THEN "BR"
        ELSE IF bottom /\ left THEN "BL"
        ELSE IF top /\ right THEN "TR"
        ELSE IF top /\ left THEN "TL"
        ELSE "MOVE"

\* drag_rect: the pending frame for a pointer at p.
Moved(d, dx, dy) ==
    [d.base EXCEPT
        !.x = Clamp(d.base.x + dx, 1, AreaRight - d.base.w + 1),
        !.y = Clamp(d.base.y + dy, 1, AreaBottom - d.base.h + 1)]

\* Columns: a right corner keeps the left edge, a left corner the right one.
WidthOf(d, dx) ==
    IF d.mode \in {"TR", "BR"}
    THEN Clamp(d.base.w + dx, MIN_W, Least(MAX_W, AreaRight - d.base.x + 1))
    ELSE Clamp(d.base.w - dx, MIN_W, Least(MAX_W, Right(d.base)))

HeightOf(d, dy) ==
    IF d.mode \in {"BL", "BR"}
    THEN Clamp(d.base.h + dy, MIN_H, Least(MAX_H, AreaBottom - d.base.y + 1))
    ELSE Clamp(d.base.h - dy, MIN_H, Least(MAX_H, Bottom(d.base)))

\* Mutant: the left edge follows the pointer instead of the clamped width.
Sized_Unclamped(d, dx, dy) ==
    [x |-> IF d.mode \in {"TR", "BR"} THEN d.base.x ELSE Greatest(1, d.base.x + dx),
     y |-> IF d.mode \in {"BL", "BR"} THEN d.base.y
           ELSE Greatest(1, Bottom(d.base) - HeightOf(d, dy) + 1),
     w |-> WidthOf(d, dx),
     h |-> HeightOf(d, dy)]

Sized(d, dx, dy) ==
    [x |-> IF d.mode \in {"TR", "BR"} THEN d.base.x
           ELSE Greatest(1, Right(d.base) - WidthOf(d, dx) + 1),
     y |-> IF d.mode \in {"BL", "BR"} THEN d.base.y
           ELSE Greatest(1, Bottom(d.base) - HeightOf(d, dy) + 1),
     w |-> WidthOf(d, dx),
     h |-> HeightOf(d, dy)]

\* Mutant: the status panel's rows are forgotten.
DragRect_OverPanel(d, p) ==
    LET dx == p[1] - d.start[1]
        dy == p[2] - d.start[2]
    IN  IF d.mode = "MOVE"
        THEN [d.base EXCEPT
                !.x = Clamp(d.base.x + dx, 1, AreaRight - d.base.w + 1),
                !.y = Clamp(d.base.y + dy, 1, AreaBottom + PANEL_ROWS - d.base.h + 1)]
        ELSE Sized(d, dx, dy)

DragRect(d, p) ==
    LET dx == p[1] - d.start[1]
        dy == p[2] - d.start[2]
    IN  IF d.mode = "MOVE" THEN Moved(d, dx, dy) ELSE Sized(d, dx, dy)

--------------------------------------------------------------------------

Idle == [mode |-> "NONE", start |-> <<0, 0>>, base |-> NoRect, pv |-> NoRect]

Init ==
    /\ term \in Sizes
    /\ known = term
    /\ resized = FALSE
    /\ frame \in Frames
    /\ drag = Idle
    /\ outline = NoRect
    /\ manual = FALSE
    /\ fitted = FALSE

\* A press on the frame starts a drag; elsewhere it only ends a stale one.
Press(p) ==
    /\ drag' = IF HitTest(p, frame) = "NONE" THEN [drag EXCEPT !.mode = "NONE"]
               ELSE [mode |-> HitTest(p, frame), start |-> p, base |-> frame, pv |-> frame]
    /\ UNCHANGED <<term, known, resized, frame, outline, manual, fitted>>

\* Mutant: an outline that is there already is not moved.
Motion_OutlineStays(p) ==
    /\ drag.mode # "NONE"
    /\ DragRect(drag, p) # drag.pv
    /\ drag' = [drag EXCEPT !.pv = DragRect(drag, p)]
    /\ outline' = IF outline = NoRect THEN DragRect(drag, p) ELSE outline
    /\ UNCHANGED <<term, known, resized, frame, manual, fitted>>

\* The pointer moves with the button held: a new pending frame is outlined.
Motion(p) ==
    /\ drag.mode # "NONE"
    /\ DragRect(drag, p) # drag.pv
    /\ drag' = [drag EXCEPT !.pv = DragRect(drag, p)]
    /\ outline' = DragRect(drag, p)
    /\ UNCHANGED <<term, known, resized, frame, manual, fitted>>

\* apply_ascii_size: at least the minimum; without memory, or when nothing
\* changes, the old size stays.
Applied(w, h) ==
    LET new == [w |-> Greatest(w, MIN_W), h |-> Greatest(h, MIN_H)]
    IN  {new, [w |-> frame.w, h |-> frame.h]}

\* Mutant: the place is adopted although there was no memory for the size.
Release_PlaceAnyway ==
    /\ drag.mode # "NONE"
    /\ drag' = [drag EXCEPT !.mode = "NONE"]
    /\ outline' = NoRect
    /\ manual' = TRUE
    /\ \E s \in Applied(drag.pv.w, drag.pv.h) :
          frame' = [x |-> drag.pv.x, y |-> drag.pv.y, w |-> s.w, h |-> s.h]
    /\ UNCHANGED <<term, known, resized, fitted>>

\* MOUSE_RELEASE when the pending frame is the old one, else MOUSE_APPLY; the
\* place is adopted only with the size.
Release ==
    /\ drag.mode # "NONE"
    /\ drag' = [drag EXCEPT !.mode = "NONE"]
    /\ outline' = NoRect
    /\ \/ /\ drag.pv = drag.base
          /\ UNCHANGED <<frame, manual>>
       \/ /\ drag.pv # drag.base
          /\ manual' = TRUE
          /\ \E s \in Applied(drag.pv.w, drag.pv.h) :
               frame' = [x |-> IF s = [w |-> drag.pv.w, h |-> drag.pv.h]
                               THEN drag.pv.x ELSE frame.x,
                         y |-> IF s = [w |-> drag.pv.w, h |-> drag.pv.h]
                               THEN drag.pv.y ELSE frame.y,
                         w |-> s.w, h |-> s.h]
    /\ UNCHANGED <<term, known, resized, fitted>>

\* The window changes its size: SIGWINCH.
Winch ==
    /\ \E s \in Sizes \ {term, <<0, 0>>} : term # <<0, 0>> /\ term' = s
    /\ resized' = TRUE
    /\ fitted' = FALSE
    /\ UNCHANGED <<known, frame, drag, outline, manual>>

\* 'a': the frame follows the terminal again, from the next loop on.
KeyAuto ==
    /\ manual' = FALSE
    /\ resized' = TRUE
    /\ UNCHANGED <<term, known, frame, drag, outline, fitted>>

\* A frame the user has sized is kept, but not outside the terminal.
FitManual ==
    LET avail == term[2] - PANEL_ROWS
        fw == IF term[1] > 0 /\ frame.w > term[1] THEN term[1] ELSE frame.w
        fh == IF term[2] > 0 /\ frame.h > avail THEN avail ELSE frame.h
    IN  \E s \in Applied(fw, fh) :
          LET x == IF term[1] > 0 /\ frame.x + s.w - 1 > term[1]
                   THEN term[1] - s.w + 1 ELSE frame.x
              y == IF term[2] > 0 /\ frame.y + s.h - 1 > avail
                   THEN avail - s.h + 1 ELSE frame.y
          IN  /\ frame' = [x |-> Greatest(x, 1), y |-> Greatest(y, 1),
                           w |-> s.w, h |-> s.h]
              /\ fitted' = /\ term # <<0, 0>>
                            /\ s = [w |-> Greatest(fw, MIN_W), h |-> Greatest(fh, MIN_H)]

\* handle_term_resize: the frame takes the whole terminal above the panel.
FitAuto ==
    \/ /\ term = <<0, 0>>
       /\ frame' = [x |-> 1, y |-> 1, w |-> frame.w, h |-> frame.h]
       /\ UNCHANGED fitted
    \/ /\ term # <<0, 0>>
       /\ \E s \in Applied(term[1], term[2] - PANEL_ROWS) :
            /\ frame' = [x |-> 1, y |-> 1, w |-> s.w, h |-> s.h]
            /\ fitted' = (s = [w |-> Greatest(term[1], MIN_W),
                               h |-> Greatest(term[2] - PANEL_ROWS, MIN_H)])

\* Mutant: a drag goes on over a change of size.
Refit_KeepsDrag ==
    /\ resized
    /\ resized' = FALSE
    /\ known' = term
    /\ \/ manual /\ FitManual
       \/ ~manual /\ FitAuto
    /\ UNCHANGED <<term, manual, drag, outline>>

\* The top of the loop after a change of size: it ends a drag.
Refit ==
    /\ resized
    /\ resized' = FALSE
    /\ known' = term
    /\ drag' = [drag EXCEPT !.mode = "NONE"]
    /\ outline' = NoRect
    /\ \/ manual /\ FitManual
       \/ ~manual /\ FitAuto
    /\ UNCHANGED <<term, manual>>

Next ==
    \/ \E p \in Pointer : Press(p) \/ Motion(p)
    \/ Release
    \/ Winch
    \/ KeyAuto
    \/ Refit

Spec == Init /\ [][Next]_vars

--------------------------------------------------------------------------
(* Properties *)

\* Types; frames keep at least one cell.
TypeOK ==
    /\ term \in Sizes /\ known \in Sizes
    /\ resized \in BOOLEAN /\ manual \in BOOLEAN /\ fitted \in BOOLEAN
    /\ frame \in Rect /\ frame.w > 0 /\ frame.h > 0 /\ frame.x > 0 /\ frame.y > 0
    /\ drag \in [mode : Grabs \union {"NONE"}, start : Int \X Int, base : Rect, pv : Rect]
    /\ outline \in Rect

\* The frame is on the terminal and off the panel.
Inside(r) == r.x >= 1 /\ r.y >= 1 /\ Right(r) <= AreaRight /\ Bottom(r) <= AreaBottom

\* No smaller than the least frame.
Big(r) == r.w >= MIN_W /\ r.h >= MIN_H

\* Room for the smallest frame above the panel.
Roomy == AreaRight >= MIN_W /\ AreaBottom >= MIN_H

\* A drag's base is the frame as it is: nothing changes the frame under a
\* drag ("a mid-drag SIGWINCH would corrupt drag's frame-base snapshot").
DragBaseIsFrame == drag.mode # "NONE" => drag.base = frame

\* Once fitted to a terminal with room for it, the frame stays on it and off
\* the panel, wherever it is dragged and whatever memory there is; and so
\* does the frame that is pending.
FrameInside ==
    fitted /\ ~resized /\ Roomy =>
        Inside(frame) /\ (drag.mode # "NONE" => Inside(drag.pv))

\* The edges that meet in the corner opposite the grabbed one never move, for
\* a frame no smaller than the least one (mouse.h: "opposite corner stays put").
OppositeCornerStays ==
    drag.mode \in Corners /\ Big(drag.base) =>
        /\ IF drag.mode \in {"TR", "BR"} THEN drag.pv.x = drag.base.x
           ELSE Right(drag.pv) = Right(drag.base)
        /\ IF drag.mode \in {"BL", "BR"} THEN drag.pv.y = drag.base.y
           ELSE Bottom(drag.pv) = Bottom(drag.base)

\* While something is pending, the outline shows where the frame will go.
OutlineShowsPending ==
    drag.mode # "NONE" /\ drag.pv # drag.base => outline = drag.pv

\* Nothing changes until the release, and then a frame no smaller than the
\* least one becomes exactly what was pending, or stays when there is no
\* memory for the size.  Only a change of the terminal moves it otherwise.
ReleaseAdoptsPending ==
    [][frame' # frame /\ Big(frame) =>
          \/ resized /\ ~resized'
          \/ drag.mode # "NONE" /\ drag'.mode = "NONE" /\ frame' = drag.pv]_vars

(***************************************************************************)
(* The types, and a drag whose base, pending frame and outline are those of *)
(* the frame on the screen.                                                *)
(***************************************************************************)
DragSound ==
  /\ TypeOK
  /\ DragBaseIsFrame
  /\ OutlineShowsPending
=============================================================================
