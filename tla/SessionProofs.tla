---------------------------- MODULE SessionProofs ----------------------------
(***************************************************************************)
(* Proofs about what one user meets. First the drag, the frame and the     *)
(* window, for every terminal, every limit and every path of the pointer;  *)
(* then the image of a library, for every file; at last a session with its *)
(* keyboard, for all events, from the start of the program to its ends.    *)
(***************************************************************************)
EXTENDS Session, Window, FiniteSets, FiniteSetTheorems, SequenceTheorems, TLAPS

\* The window's other variables do not disturb a drag.
LEMMA WindowDrags == [WindowNext]_<<vars, window>> => [Next]_vars
  BY DEF WindowNext, Next, vars, window

\* A size of the terminal is two naturals, both 0 or neither.
LEMMA SizeOfTerminal ==
  ASSUME NEW s \in Sizes
  PROVE  /\ s[1] \in Nat /\ s[2] \in Nat
         /\ s = <<s[1], s[2]>>
         /\ s # <<0, 0>> => s[1] > 0 /\ s[2] > 0
  BY SizesAssumption

-----------------------------------------------------------------------------
(* The pending frame *)

\* The drag's rectangles are where the terminal begins or right of it; a size
\* that was not below the least one stays so.
DragOK ==
  drag.mode # "NONE" =>
    /\ drag.base = frame
    /\ drag.pv.x > 0 /\ drag.pv.y > 0 /\ drag.pv.w > 0 /\ drag.pv.h > 0
    /\ Big(drag.base) => Big(drag.pv)
    /\ drag.pv # drag.base => outline = drag.pv

DInv == TypeOK /\ DragOK /\ OppositeCornerStays

LEMMA ClampInt ==
  ASSUME NEW v \in Int, NEW lo \in Int, NEW hi \in Int
  PROVE  /\ Clamp(v, lo, hi) \in Int
         /\ Clamp(v, lo, hi) >= lo
         /\ lo <= hi => Clamp(v, lo, hi) <= hi
  BY DEF Clamp, Greatest

LEMMA AreaInt ==
  ASSUME TypeOK
  PROVE  AreaRight \in Int /\ AreaBottom \in Int
  BY SizeOfTerminal, LimitsAssumption DEF TypeOK, AreaRight, AreaBottom

(***************************************************************************)
(* What drag_rect makes of a base: a rectangle no smaller than the least   *)
(* size if the base was not, with the opposite corner in its place.        *)
(***************************************************************************)
LEMMA DragRectOK ==
  ASSUME TypeOK, DragOK, drag.mode # "NONE", NEW p \in Pointer
  PROVE  LET r == DragRect(drag, p) IN
         /\ r \in Rect /\ r.x > 0 /\ r.y > 0 /\ r.w > 0 /\ r.h > 0
         /\ Big(drag.base) => Big(r)
         /\ drag.mode \in Corners /\ Big(drag.base) =>
              /\ IF drag.mode \in {"TR", "BR"} THEN r.x = drag.base.x
                 ELSE Right(r) = Right(drag.base)
              /\ IF drag.mode \in {"BL", "BR"} THEN r.y = drag.base.y
                 ELSE Bottom(r) = Bottom(drag.base)
<1> DEFINE b == drag.base
           dx == p[1] - drag.start[1]
           dy == p[2] - drag.start[2]
           r == DragRect(drag, p)
<1>1. /\ dx \in Int /\ dy \in Int
      /\ b.x \in Int /\ b.y \in Int /\ b.w \in Int /\ b.h \in Int
      /\ b.x > 0 /\ b.y > 0 /\ b.w > 0 /\ b.h > 0
  BY FramesAssumption DEF TypeOK, DragOK, Rect
<1>2. AreaRight \in Int /\ AreaBottom \in Int
  BY AreaInt
<1>3. /\ MIN_W \in Nat /\ MIN_H \in Nat /\ MAX_W \in Nat /\ MAX_H \in Nat
      /\ 0 < MIN_W /\ MIN_W <= MAX_W /\ 0 < MIN_H /\ MIN_H <= MAX_H
  BY LimitsAssumption
<1> HIDE DEF b, dx, dy
<1>4. CASE drag.mode = "MOVE"
  <2> DEFINE x == Clamp(b.x + dx, 1, AreaRight - b.w + 1)
             y == Clamp(b.y + dy, 1, AreaBottom - b.h + 1)
  <2>1. x \in Int /\ y \in Int /\ x >= 1 /\ y >= 1
    BY <1>1, <1>2 DEF Clamp, Greatest
  <2> HIDE DEF x, y
  <2>2. b \in Rect
    BY DEF TypeOK, b
  <2>3. r = [b EXCEPT !.x = x, !.y = y]
    BY <1>4 DEF DragRect, Moved, b, dx, dy, x, y
  <2>4. r \in Rect /\ r.x = x /\ r.y = y /\ r.w = b.w /\ r.h = b.h
    BY <2>1, <2>2, <2>3 DEF Rect
  <2> HIDE DEF r
  <2>5. drag.mode \notin Corners
    BY <1>4 DEF Corners
  <2>6. Big(b) => Big(r)
    BY <2>4 DEF Big
  <2> QED BY <1>1, <2>1, <2>4, <2>5, <2>6 DEF r, b
<1>5. CASE drag.mode # "MOVE"
  <2> DEFINE w == WidthOf(drag, dx)
             h == HeightOf(drag, dy)
  <2>1. /\ w \in Int /\ w >= MIN_W
        /\ drag.mode \notin {"TR", "BR"} /\ b.w >= MIN_W => w <= b.x + b.w - 1
    BY <1>1, <1>2, <1>3 DEF WidthOf, Clamp, Greatest, Least, Right, b
  <2>2. /\ h \in Int /\ h >= MIN_H
        /\ drag.mode \notin {"BL", "BR"} /\ b.h >= MIN_H => h <= b.y + b.h - 1
    BY <1>1, <1>2, <1>3 DEF HeightOf, Clamp, Greatest, Least, Bottom, b
  <2> HIDE DEF w, h
  <2> DEFINE x == IF drag.mode \in {"TR", "BR"} THEN b.x
                  ELSE Greatest(1, b.x + b.w - 1 - w + 1)
             y == IF drag.mode \in {"BL", "BR"} THEN b.y
                  ELSE Greatest(1, b.y + b.h - 1 - h + 1)
  <2>3. r = [x |-> x, y |-> y, w |-> w, h |-> h]
    <3>1. r = Sized(drag, dx, dy)
      BY <1>5 DEF DragRect, dx, dy
    <3>2. x = Sized(drag, dx, dy).x
      BY <1>1, <2>1 DEF Sized, Right, Greatest, w, b
    <3>3. y = Sized(drag, dx, dy).y
      BY <1>1, <2>2 DEF Sized, Bottom, Greatest, h, b
    <3>4. w = Sized(drag, dx, dy).w /\ h = Sized(drag, dx, dy).h
      BY DEF Sized, w, h
    <3> HIDE DEF x, y
    <3> QED BY <3>1, <3>2, <3>3, <3>4 DEF Sized
  <2>4. /\ x \in Int /\ x > 0
        /\ drag.mode \notin {"TR", "BR"} /\ b.w >= MIN_W => x + w = b.x + b.w
    BY <1>1, <1>3, <2>1 DEF Greatest
  <2>5. /\ y \in Int /\ y > 0
        /\ drag.mode \notin {"BL", "BR"} /\ b.h >= MIN_H => y + h = b.y + b.h
    BY <1>1, <1>3, <2>2 DEF Greatest
  <2>6. drag.mode \in {"TR", "BR"} => x = b.x
    OBVIOUS
  <2>7. drag.mode \in {"BL", "BR"} => y = b.y
    OBVIOUS
  <2> HIDE DEF x, y
  <2>8. r \in Rect /\ r.x = x /\ r.y = y /\ r.w = w /\ r.h = h
    BY <2>1, <2>2, <2>3, <2>4, <2>5 DEF Rect
  <2> HIDE DEF r
  <2>9. r.x > 0 /\ r.y > 0 /\ r.w > 0 /\ r.h > 0 /\ Big(r)
    BY <1>3, <2>1, <2>2, <2>4, <2>5, <2>8 DEF Big
  <2>10. Big(b) /\ drag.mode \notin {"TR", "BR"} => Right(r) = Right(b)
    BY <1>1, <1>3, <2>1, <2>4, <2>8 DEF Big, Right
  <2>11. Big(b) /\ drag.mode \notin {"BL", "BR"} => Bottom(r) = Bottom(b)
    BY <1>1, <1>3, <2>2, <2>5, <2>8 DEF Big, Bottom
  <2> QED BY <2>6, <2>7, <2>8, <2>9, <2>10, <2>11 DEF r, b
<1> QED BY <1>4, <1>5

-----------------------------------------------------------------------------
(* The invariant *)

LEMMA InitDInv == Init => DInv
<1> SUFFICES ASSUME Init PROVE DInv
  OBVIOUS
<1>1. /\ frame \in Rect /\ frame.w > 0 /\ frame.h > 0
      /\ frame.x = 1 /\ frame.y = 1
  BY FramesAssumption DEF Init
<1>2. NoRect \in Rect
  BY DEF NoRect, Rect
<1>3. /\ Idle.mode = "NONE"
      /\ Idle \in [mode : Grabs \union {"NONE"}, start : Int \X Int, base : Rect, pv : Rect]
  BY <1>2 DEF Idle
<1>4. TypeOK
  <2>1. /\ term \in Sizes /\ known \in Sizes
        /\ resized \in BOOLEAN /\ manual \in BOOLEAN /\ fitted \in BOOLEAN
    BY DEF Init
  <2>2. frame.w > 0 /\ frame.h > 0 /\ frame.x > 0 /\ frame.y > 0
    BY <1>1
  <2>3. outline \in Rect /\ drag = Idle
    BY <1>2 DEF Init
  <2> QED BY <1>1, <1>3, <2>1, <2>2, <2>3, Zenon DEF TypeOK
<1>5. DragOK /\ OppositeCornerStays
  BY <1>3 DEF Init, DragOK, OppositeCornerStays, Corners
<1> QED BY <1>4, <1>5 DEF DInv

LEMMA PressDInv == ASSUME DInv, NEW p \in Pointer, Press(p) PROVE DInv'
<1> USE DEF DInv
<1>1. CASE HitTest(p, frame) = "NONE"
  <2>1. drag' = [drag EXCEPT !.mode = "NONE"]
    BY <1>1 DEF Press
  <2>2. drag'.mode = "NONE" /\ drag' \in [mode : Grabs \union {"NONE"}, start : Int \X Int, base : Rect, pv : Rect]
    BY <2>1 DEF TypeOK
  <2> QED BY <2>2 DEF Press, TypeOK, DragOK, OppositeCornerStays, Corners
<1>2. CASE HitTest(p, frame) # "NONE"
  <2> DEFINE m == HitTest(p, frame)
  <2>1. m \in Grabs
    BY <1>2 DEF HitTest, Grabs, Corners
  <2> HIDE DEF m
  <2>2. drag' = [mode |-> m, start |-> p, base |-> frame, pv |-> frame]
    BY <1>2 DEF Press, m
  <2>3. p \in Int \X Int
    BY FramesAssumption
  <2>4. TypeOK'
    BY <2>1, <2>2, <2>3 DEF Press, TypeOK
  <2>5. DragOK'
    BY <2>2 DEF Press, TypeOK, DragOK, Big
  <2>6. OppositeCornerStays'
    BY <2>2 DEF OppositeCornerStays
  <2> QED BY <2>4, <2>5, <2>6
<1> QED BY <1>1, <1>2

LEMMA MotionDInv == ASSUME DInv, NEW p \in Pointer, Motion(p) PROVE DInv'
<1> DEFINE r == DragRect(drag, p)
<1>1. /\ drag.mode # "NONE"
      /\ drag' = [drag EXCEPT !.pv = r]
      /\ outline' = r
      /\ UNCHANGED <<term, known, resized, frame, manual, fitted>>
  BY DEF Motion
<1>2. /\ r \in Rect /\ r.x > 0 /\ r.y > 0 /\ r.w > 0 /\ r.h > 0
      /\ Big(drag.base) => Big(r)
      /\ drag.mode \in Corners /\ Big(drag.base) =>
           /\ IF drag.mode \in {"TR", "BR"} THEN r.x = drag.base.x
              ELSE Right(r) = Right(drag.base)
           /\ IF drag.mode \in {"BL", "BR"} THEN r.y = drag.base.y
              ELSE Bottom(r) = Bottom(drag.base)
  BY <1>1, DragRectOK DEF DInv
<1> HIDE DEF r
<1>3. /\ drag'.mode = drag.mode /\ drag'.base = drag.base /\ drag'.pv = r
      /\ drag' \in [mode : Grabs \union {"NONE"}, start : Int \X Int, base : Rect, pv : Rect]
  BY <1>1, <1>2 DEF DInv, TypeOK
<1>4. TypeOK'
  BY <1>1, <1>2, <1>3 DEF DInv, TypeOK
<1>5. DragOK'
  BY <1>1, <1>2, <1>3 DEF DInv, DragOK
<1>6. OppositeCornerStays'
  BY <1>2, <1>3 DEF OppositeCornerStays
<1> QED BY <1>4, <1>5, <1>6 DEF DInv

\* A drag that is over promises nothing.
LEMMA OverDInv ==
  ASSUME DInv, drag' = [drag EXCEPT !.mode = "NONE"]
  PROVE  /\ drag' \in [mode : Grabs \union {"NONE"}, start : Int \X Int, base : Rect, pv : Rect]
         /\ DragOK' /\ OppositeCornerStays'
<1>1. drag'.mode = "NONE"
  BY DEF DInv, TypeOK
<1> QED BY <1>1 DEF DInv, TypeOK, DragOK, OppositeCornerStays, Corners

LEMMA AppliedOK ==
  ASSUME TypeOK, NEW w \in Int, NEW h \in Int, NEW s \in Applied(w, h)
  PROVE  /\ s = [w |-> s.w, h |-> s.h]
         /\ s.w \in Int /\ s.h \in Int /\ s.w > 0 /\ s.h > 0
         /\ \/ s.w >= w /\ s.w >= MIN_W /\ (s.w = w \/ s.w = MIN_W)
               /\ s.h >= h /\ s.h >= MIN_H /\ (s.h = h \/ s.h = MIN_H)
            \/ s.w = frame.w /\ s.h = frame.h
  BY LimitsAssumption DEF TypeOK, Rect, Applied, Greatest

LEMMA ReleaseDInv == ASSUME DInv, Release PROVE DInv'
<1>1. /\ drag' = [drag EXCEPT !.mode = "NONE"]
      /\ outline' = NoRect /\ NoRect \in Rect
      /\ UNCHANGED <<term, known, resized, fitted>>
  BY DEF Release, NoRect, Rect
<1>2. /\ frame' \in Rect /\ frame'.w > 0 /\ frame'.h > 0 /\ frame'.x > 0 /\ frame'.y > 0
      /\ manual' \in BOOLEAN
  <2>1. CASE drag.pv = drag.base
    BY <2>1 DEF Release, DInv, TypeOK
  <2>2. CASE drag.pv # drag.base
    <3>1. PICK s \in Applied(drag.pv.w, drag.pv.h) :
            frame' = [x |-> IF s = [w |-> drag.pv.w, h |-> drag.pv.h]
                            THEN drag.pv.x ELSE frame.x,
                      y |-> IF s = [w |-> drag.pv.w, h |-> drag.pv.h]
                            THEN drag.pv.y ELSE frame.y,
                      w |-> s.w, h |-> s.h]
      BY <2>2 DEF Release
    <3>2. s.w \in Int /\ s.h \in Int /\ s.w > 0 /\ s.h > 0
      BY AppliedOK DEF DInv, TypeOK, Rect
    <3>3. drag.pv.x \in Int /\ drag.pv.y \in Int /\ drag.pv.x > 0 /\ drag.pv.y > 0
      BY DEF Release, DInv, TypeOK, DragOK, Rect
    <3>4. frame.x \in Int /\ frame.y \in Int /\ frame.x > 0 /\ frame.y > 0
      BY DEF DInv, TypeOK, Rect
    <3>5. manual' \in BOOLEAN
      BY <2>2 DEF Release
    <3> QED BY <3>1, <3>2, <3>3, <3>4, <3>5 DEF Rect
  <2> QED BY <2>1, <2>2
<1> QED BY <1>1, <1>2, OverDInv DEF DInv, TypeOK

LEMMA RefitFrame ==
  ASSUME DInv, FitManual \/ FitAuto
  PROVE  /\ frame' \in Rect /\ frame'.w > 0 /\ frame'.h > 0 /\ frame'.x > 0 /\ frame'.y > 0
         /\ fitted' \in BOOLEAN
<1>1. /\ term[1] \in Nat /\ term[2] \in Nat /\ PANEL_ROWS \in Nat
      /\ frame.x \in Int /\ frame.y \in Int /\ frame.w \in Int /\ frame.h \in Int
      /\ frame.x > 0 /\ frame.y > 0 /\ frame.w > 0 /\ frame.h > 0
  BY SizeOfTerminal, LimitsAssumption DEF DInv, TypeOK, Rect
<1>2. CASE FitManual
  <2> DEFINE avail == term[2] - PANEL_ROWS
             fw == IF term[1] > 0 /\ frame.w > term[1] THEN term[1] ELSE frame.w
             fh == IF term[2] > 0 /\ frame.h > avail THEN avail ELSE frame.h
  <2>1. PICK s \in Applied(fw, fh) :
          LET x == IF term[1] > 0 /\ frame.x + s.w - 1 > term[1]
                   THEN term[1] - s.w + 1 ELSE frame.x
              y == IF term[2] > 0 /\ frame.y + s.h - 1 > avail
                   THEN avail - s.h + 1 ELSE frame.y
          IN  /\ frame' = [x |-> Greatest(x, 1), y |-> Greatest(y, 1),
                           w |-> s.w, h |-> s.h]
              /\ fitted' \in BOOLEAN
    BY <1>2 DEF FitManual
  <2>2. fw \in Int /\ fh \in Int /\ avail \in Int
    BY <1>1
  <2> HIDE DEF fw, fh, avail
  <2>3. s.w \in Int /\ s.h \in Int /\ s.w > 0 /\ s.h > 0
    BY <2>2, AppliedOK DEF DInv
  <2>4. PICK x \in Int, y \in Int :
          frame' = [x |-> Greatest(x, 1), y |-> Greatest(y, 1), w |-> s.w, h |-> s.h]
    <3>1. term[1] - s.w + 1 \in Int /\ avail - s.h + 1 \in Int
      BY <1>1, <2>2, <2>3
    <3> QED BY <1>1, <2>1, <3>1
  <2>5. Greatest(x, 1) \in Int /\ Greatest(x, 1) > 0 /\ Greatest(y, 1) \in Int /\ Greatest(y, 1) > 0
    BY DEF Greatest
  <2> QED BY <2>1, <2>3, <2>4, <2>5 DEF Rect
<1>3. CASE FitAuto
  <2>1. CASE term = <<0, 0>>
    <3>1. frame' = [x |-> 1, y |-> 1, w |-> frame.w, h |-> frame.h] /\ fitted' = fitted
      BY <1>3, <2>1 DEF FitAuto
    <3>2. frame \in Rect /\ fitted \in BOOLEAN
      BY DEF DInv, TypeOK
    <3>3. /\ frame' \in Rect
          /\ frame'.x = 1 /\ frame'.y = 1 /\ frame'.w = frame.w /\ frame'.h = frame.h
      BY <3>1, <3>2 DEF Rect
    <3> QED BY <1>1, <3>1, <3>2, <3>3
  <2>2. CASE term # <<0, 0>>
    <3>1. PICK s \in Applied(term[1], term[2] - PANEL_ROWS) :
            /\ frame' = [x |-> 1, y |-> 1, w |-> s.w, h |-> s.h]
            /\ fitted' \in BOOLEAN
      BY <1>3, <2>2 DEF FitAuto
    <3>2. term[1] \in Int /\ term[2] - PANEL_ROWS \in Int
      BY <1>1
    <3>3. s.w \in Int /\ s.h \in Int /\ s.w > 0 /\ s.h > 0
      BY <3>2, AppliedOK DEF DInv
    <3> QED BY <3>1, <3>3 DEF Rect
  <2> QED BY <2>1, <2>2
<1> QED BY <1>2, <1>3

LEMMA RefitDInv == ASSUME DInv, Refit PROVE DInv'
<1>1. /\ drag' = [drag EXCEPT !.mode = "NONE"]
      /\ outline' = NoRect /\ NoRect \in Rect
      /\ resized' = FALSE /\ known' = term
      /\ UNCHANGED <<term, manual>>
      /\ FitManual \/ FitAuto
  BY DEF Refit, NoRect, Rect
<1> QED BY <1>1, RefitFrame, OverDInv DEF DInv, TypeOK

LEMMA NextDInv == DInv /\ [Next]_vars => DInv'
<1> SUFFICES ASSUME DInv, [Next]_vars PROVE DInv'
  OBVIOUS
<1>1. CASE Winch
  BY <1>1 DEF Winch, DInv, TypeOK, DragOK, OppositeCornerStays
<1>2. CASE KeyAuto
  BY <1>2 DEF KeyAuto, DInv, TypeOK, DragOK, OppositeCornerStays
<1>3. CASE UNCHANGED vars
  BY <1>3 DEF vars, DInv, TypeOK, DragOK, OppositeCornerStays
<1> QED BY <1>1, <1>2, <1>3, PressDInv, MotionDInv, ReleaseDInv, RefitDInv DEF Next

\* The window starts with a frame that is not dragged.
LEMMA WindowStarts == WindowInit => Init
BY DEF WindowInit

LEMMA DragInvariance == WindowSpec => []DInv
<1>1. WindowSpec => Init /\ [][Next]_vars
  BY WindowDrags, WindowStarts, PTL DEF WindowSpec
<1> QED BY <1>1, InitDInv, NextDInv, PTL

(***************************************************************************)
(* A drag starts from the frame on the screen and its outline shows what   *)
(* is pending.                                                             *)
(***************************************************************************)
THEOREM DragIsSound == WindowSpec => []DragSound
<1>1. DInv => DragSound
  BY DEF DInv, DragOK, DragSound, DragBaseIsFrame, OutlineShowsPending
<1> QED BY <1>1, DragInvariance, PTL

\* "opposite corner stays put" (mouse.h)
THEOREM CornersStay == WindowSpec => []OppositeCornerStays
<1>1. DInv => OppositeCornerStays
  BY DEF DInv
<1> QED BY <1>1, DragInvariance, PTL

-----------------------------------------------------------------------------
(* What a release adopts *)

\* A frame no smaller than the least one becomes what was pending or stays.
LEMMA ReleaseFrame ==
  ASSUME DInv, Release, Big(frame)
  PROVE  frame' = frame \/ frame' = drag.pv
<1>1. CASE drag.pv = drag.base
  BY <1>1 DEF Release
<1>2. CASE drag.pv # drag.base
  <2> DEFINE pv == drag.pv
  <2>1. PICK s \in Applied(pv.w, pv.h) :
          frame' = [x |-> IF s = [w |-> pv.w, h |-> pv.h] THEN pv.x ELSE frame.x,
                    y |-> IF s = [w |-> pv.w, h |-> pv.h] THEN pv.y ELSE frame.y,
                    w |-> s.w, h |-> s.h]
    BY <1>2 DEF Release
  <2>2. /\ pv \in Rect /\ frame \in Rect
        /\ pv.w >= MIN_W /\ pv.h >= MIN_H
        /\ pv.w \in Int /\ pv.h \in Int
    BY DEF Release, DInv, DragOK, TypeOK, Big, Rect
  <2> HIDE DEF pv
  <2>3. Greatest(pv.w, MIN_W) = pv.w /\ Greatest(pv.h, MIN_H) = pv.h
    BY <2>2, LimitsAssumption DEF Greatest
  <2>4. s = [w |-> pv.w, h |-> pv.h] \/ s = [w |-> frame.w, h |-> frame.h]
    BY <2>3 DEF Applied
  <2>5. /\ pv = [x |-> pv.x, y |-> pv.y, w |-> pv.w, h |-> pv.h]
        /\ frame = [x |-> frame.x, y |-> frame.y, w |-> frame.w, h |-> frame.h]
    BY <2>2 DEF Rect
  <2>6. CASE s = [w |-> pv.w, h |-> pv.h]
    <3>1. frame' = [x |-> pv.x, y |-> pv.y, w |-> pv.w, h |-> pv.h]
      BY <2>1, <2>6
    <3> QED BY <3>1, <2>5, Zenon DEF pv
  <2>7. CASE s # [w |-> pv.w, h |-> pv.h]
    <3>1. frame' = [x |-> frame.x, y |-> frame.y, w |-> frame.w, h |-> frame.h]
      BY <2>1, <2>4, <2>7
    <3> QED BY <3>1, <2>5, Zenon
  <2> QED BY <2>6, <2>7
<1> QED BY <1>1, <1>2

(***************************************************************************)
(* The frame changes only with the terminal and at a release, and then it  *)
(* is the one that was outlined.                                           *)
(***************************************************************************)
THEOREM ReleaseIsExact == WindowSpec => ReleaseAdoptsPending
<1> DEFINE A == frame' # frame /\ Big(frame) =>
                  \/ resized /\ ~resized'
                  \/ drag.mode # "NONE" /\ drag'.mode = "NONE" /\ frame' = drag.pv
<1>1. DInv /\ [Next]_vars => [A]_vars
  <2> SUFFICES ASSUME DInv, Next, frame' # frame, Big(frame)
               PROVE  A
    OBVIOUS
  <2>1. CASE Release
    <3>1. drag.mode # "NONE" /\ drag'.mode = "NONE"
      BY <2>1 DEF Release, DInv, TypeOK
    <3> QED BY <2>1, <3>1, ReleaseFrame
  <2>2. CASE Refit
    BY <2>2 DEF Refit
  <2>3. \A p \in Pointer : ~Press(p) /\ ~Motion(p)
    BY DEF Press, Motion
  <2>4. ~Winch /\ ~KeyAuto
    BY DEF Winch, KeyAuto
  <2> QED BY <2>1, <2>2, <2>3, <2>4 DEF Next
<1>2. WindowSpec => [][Next]_vars
  BY WindowDrags, PTL DEF WindowSpec
<1> QED BY <1>1, <1>2, DragInvariance, PTL DEF ReleaseAdoptsPending

-----------------------------------------------------------------------------
(* The frame stays on the terminal *)

\* What a fit has made true until the terminal changes again.
FitOK ==
  fitted =>
    /\ known = term /\ term # <<0, 0>> /\ Big(frame)
    /\ Roomy => Inside(frame) /\ (drag.mode # "NONE" => Inside(drag.pv))

\* A drag that starts inside stays inside.
LEMMA DragRectInside ==
  ASSUME TypeOK, DragOK, drag.mode # "NONE", NEW p \in Pointer,
         Big(drag.base), Inside(drag.base)
  PROVE  Inside(DragRect(drag, p))
<1> DEFINE b == drag.base
           dx == p[1] - drag.start[1]
           dy == p[2] - drag.start[2]
           r == DragRect(drag, p)
<1>1. /\ dx \in Int /\ dy \in Int
      /\ b.x \in Int /\ b.y \in Int /\ b.w \in Int /\ b.h \in Int
      /\ b.x > 0 /\ b.y > 0 /\ b.w > 0 /\ b.h > 0
      /\ b.w >= MIN_W /\ b.h >= MIN_H
  BY FramesAssumption DEF TypeOK, DragOK, Rect, Big
<1>2. /\ AreaRight \in Int /\ AreaBottom \in Int
      /\ b.x + b.w - 1 <= AreaRight /\ b.y + b.h - 1 <= AreaBottom
  BY AreaInt DEF Inside, Right, Bottom
<1>3. /\ MIN_W \in Nat /\ MIN_H \in Nat /\ MAX_W \in Nat /\ MAX_H \in Nat
      /\ 0 < MIN_W /\ MIN_W <= MAX_W /\ 0 < MIN_H /\ MIN_H <= MAX_H
  BY LimitsAssumption
<1>4. /\ r \in Rect /\ r.x > 0 /\ r.y > 0
      /\ drag.mode \in Corners =>
           /\ drag.mode \notin {"TR", "BR"} => Right(r) = Right(b)
           /\ drag.mode \notin {"BL", "BR"} => Bottom(r) = Bottom(b)
  BY DragRectOK
<1> HIDE DEF b, dx, dy
<1>5. CASE drag.mode = "MOVE"
  <2> DEFINE x == Clamp(b.x + dx, 1, AreaRight - b.w + 1)
             y == Clamp(b.y + dy, 1, AreaBottom - b.h + 1)
  <2>1. /\ x \in Int /\ x + b.w - 1 <= AreaRight
        /\ y \in Int /\ y + b.h - 1 <= AreaBottom
    BY <1>1, <1>2 DEF Clamp, Greatest
  <2> HIDE DEF x, y
  <2>2. b \in Rect
    BY DEF TypeOK, b
  <2>3. r = [b EXCEPT !.x = x, !.y = y]
    BY <1>5 DEF DragRect, Moved, b, dx, dy, x, y
  <2>4. r.x = x /\ r.y = y /\ r.w = b.w /\ r.h = b.h
    BY <2>1, <2>2, <2>3 DEF Rect
  <2> HIDE DEF r
  <2>5. r.x >= 1 /\ r.y >= 1
    BY <1>4 DEF Rect
  <2> QED BY <2>1, <2>4, <2>5 DEF Inside, Right, Bottom, r
<1>6. CASE drag.mode # "MOVE"
  <2>1. drag.mode \in Corners
    BY <1>6 DEF TypeOK, Grabs
  <2>2. r.w = WidthOf(drag, dx) /\ r.h = HeightOf(drag, dy)
    BY <1>6 DEF DragRect, Sized, dx, dy
  <2> HIDE DEF r
  <2>3. r.x >= 1 /\ r.y >= 1
    BY <1>4 DEF Rect
  <2>4. Right(r) <= AreaRight
    <3>1. CASE drag.mode \in {"TR", "BR"}
      <4>1. r.x = b.x
        BY <2>1, <3>1, DragRectOK DEF r, b
      <4>2. WidthOf(drag, dx) = Clamp(b.w + dx, MIN_W, Least(MAX_W, AreaRight - b.x + 1))
        BY <3>1 DEF WidthOf, b
      <4>3. WidthOf(drag, dx) \in Int /\ WidthOf(drag, dx) <= AreaRight - b.x + 1
        BY <1>1, <1>2, <1>3, <4>2 DEF Clamp, Greatest, Least
      <4> QED BY <1>1, <1>2, <2>2, <4>1, <4>3 DEF Right
    <3>2. CASE drag.mode \notin {"TR", "BR"}
      BY <1>2, <1>4, <2>1, <3>2 DEF Right
    <3> QED BY <3>1, <3>2
  <2>5. Bottom(r) <= AreaBottom
    <3>1. CASE drag.mode \in {"BL", "BR"}
      <4>1. r.y = b.y
        BY <2>1, <3>1, DragRectOK DEF r, b
      <4>2. HeightOf(drag, dy) = Clamp(b.h + dy, MIN_H, Least(MAX_H, AreaBottom - b.y + 1))
        BY <3>1 DEF HeightOf, b
      <4>3. HeightOf(drag, dy) \in Int /\ HeightOf(drag, dy) <= AreaBottom - b.y + 1
        BY <1>1, <1>2, <1>3, <4>2 DEF Clamp, Greatest, Least
      <4> QED BY <1>1, <1>2, <2>2, <4>1, <4>3 DEF Bottom
    <3>2. CASE drag.mode \notin {"BL", "BR"}
      BY <1>2, <1>4, <2>1, <3>2 DEF Bottom
    <3> QED BY <3>1, <3>2
  <2> QED BY <2>3, <2>4, <2>5 DEF Inside, r
<1> QED BY <1>5, <1>6

LEMMA SameArea ==
  ASSUME UNCHANGED <<known, frame>>
  PROVE  /\ AreaRight' = AreaRight /\ AreaBottom' = AreaBottom
         /\ Roomy' = Roomy /\ Inside(frame)' = Inside(frame) /\ Big(frame)' = Big(frame)
  BY DEF AreaRight, AreaBottom, Roomy, Inside, Big, Right, Bottom

LEMMA PressFit == ASSUME DInv, FitOK, NEW p \in Pointer, Press(p) PROVE FitOK'
<1>1. UNCHANGED <<term, known, frame, fitted>>
  BY DEF Press
<1>2. drag'.mode # "NONE" => drag'.pv = frame
  BY DEF Press, DInv, TypeOK
<1>3. drag'.mode # "NONE" => Inside(drag.pv)' = Inside(frame)
  BY <1>1, <1>2 DEF Inside, Right, Bottom, AreaRight, AreaBottom
<1> QED BY <1>1, <1>3, SameArea DEF FitOK

LEMMA MotionFit == ASSUME DInv, FitOK, NEW p \in Pointer, Motion(p) PROVE FitOK'
<1>1. /\ UNCHANGED <<term, known, frame, fitted>> /\ drag.mode # "NONE"
      /\ drag' = [drag EXCEPT !.pv = DragRect(drag, p)]
  BY DEF Motion
<1>2. drag'.pv = DragRect(drag, p)
  BY <1>1 DEF DInv, TypeOK
<1>3. Inside(drag.pv)' = Inside(DragRect(drag, p))
  BY <1>1, <1>2 DEF Inside, Right, Bottom, AreaRight, AreaBottom
<1>4. fitted /\ Roomy => Inside(DragRect(drag, p))
  BY <1>1, DragRectInside DEF DInv, DragOK, FitOK
<1> QED BY <1>1, <1>3, <1>4, SameArea DEF FitOK

LEMMA ReleaseFit == ASSUME DInv, FitOK, Release PROVE FitOK'
<1>1. /\ UNCHANGED <<term, known, fitted>> /\ drag.mode # "NONE"
      /\ drag' = [drag EXCEPT !.mode = "NONE"]
  BY DEF Release
<1>2. drag'.mode = "NONE"
  BY <1>1 DEF DInv, TypeOK
<1>3. SUFFICES ASSUME fitted
               PROVE  Big(frame)' /\ (Roomy' => Inside(frame)')
  BY <1>1, <1>2 DEF FitOK
<1>4. /\ Big(frame) /\ Big(drag.pv)
      /\ Roomy => Inside(frame) /\ Inside(drag.pv)
  BY <1>1, <1>3 DEF FitOK, DInv, DragOK
<1>5. frame' = frame \/ frame' = drag.pv
  BY <1>4, ReleaseFrame
<1>6. Roomy' = Roomy
  BY <1>1 DEF Roomy, AreaRight, AreaBottom
<1>7. CASE frame' = frame
  BY <1>1, <1>4, <1>6, <1>7 DEF Inside, Right, Bottom, AreaRight, AreaBottom, Big
<1>8. CASE frame' = drag.pv
  BY <1>1, <1>4, <1>6, <1>8 DEF Inside, Right, Bottom, AreaRight, AreaBottom, Big
<1> QED BY <1>5, <1>7, <1>8

\* A fit that had memory for its size puts the frame on the terminal.
LEMMA RefitFit == ASSUME DInv, FitOK, Refit PROVE FitOK'
<1>1. /\ known' = term /\ term' = term
      /\ drag' = [drag EXCEPT !.mode = "NONE"]
      /\ FitManual \/ FitAuto
  BY DEF Refit
<1>2. drag'.mode = "NONE"
  BY <1>1 DEF DInv, TypeOK
<1>3. /\ term[1] \in Nat /\ term[2] \in Nat /\ PANEL_ROWS \in Nat
      /\ MIN_W \in Nat /\ MIN_H \in Nat
      /\ frame.x \in Int /\ frame.y \in Int /\ frame.w \in Int /\ frame.h \in Int
      /\ frame.x > 0 /\ frame.y > 0 /\ frame.w > 0 /\ frame.h > 0
      /\ term # <<0, 0>> => term[1] > 0 /\ term[2] > 0
  BY SizeOfTerminal, LimitsAssumption DEF DInv, TypeOK, Rect
<1>4. SUFFICES ASSUME fitted'
               PROVE  /\ term # <<0, 0>> /\ Big(frame)' /\ (Roomy' => Inside(frame)')
  BY <1>1, <1>2 DEF FitOK
<1>5. CASE FitManual
  <2> DEFINE avail == term[2] - PANEL_ROWS
             fw == IF term[1] > 0 /\ frame.w > term[1] THEN term[1] ELSE frame.w
             fh == IF term[2] > 0 /\ frame.h > avail THEN avail ELSE frame.h
             w == Greatest(fw, MIN_W)
             h == Greatest(fh, MIN_H)
             x == IF term[1] > 0 /\ frame.x + w - 1 > term[1]
                  THEN term[1] - w + 1 ELSE frame.x
             y == IF term[2] > 0 /\ frame.y + h - 1 > avail
                  THEN avail - h + 1 ELSE frame.y
  <2>1. /\ term # <<0, 0>>
        /\ frame' = [x |-> Greatest(x, 1), y |-> Greatest(y, 1), w |-> w, h |-> h]
    <3>1. PICK s \in Applied(fw, fh) :
            LET sx == IF term[1] > 0 /\ frame.x + s.w - 1 > term[1]
                      THEN term[1] - s.w + 1 ELSE frame.x
                sy == IF term[2] > 0 /\ frame.y + s.h - 1 > avail
                      THEN avail - s.h + 1 ELSE frame.y
            IN  /\ frame' = [x |-> Greatest(sx, 1), y |-> Greatest(sy, 1),
                             w |-> s.w, h |-> s.h]
                /\ fitted' = (term # <<0, 0>> /\ s = [w |-> w, h |-> h])
      BY <1>5, Zenon DEF FitManual
    <3>2. term # <<0, 0>> /\ s = [w |-> w, h |-> h]
      BY <1>4, <3>1, Zenon
    <3>3. s.w = w /\ s.h = h
      BY <3>2
    <3> QED BY <3>1, <3>2, <3>3, Zenon
  <2>2. /\ w \in Int /\ h \in Int /\ w >= MIN_W /\ h >= MIN_H
        /\ term[1] >= MIN_W => w <= term[1]
        /\ avail >= MIN_H => h <= avail
    BY <1>3, <2>1 DEF Greatest
  <2> HIDE DEF w, h
  <2>3. /\ Greatest(x, 1) \in Int /\ Greatest(x, 1) >= 1
        /\ Greatest(y, 1) \in Int /\ Greatest(y, 1) >= 1
        /\ term[1] >= MIN_W => Greatest(x, 1) + w - 1 <= term[1]
        /\ avail >= MIN_H => Greatest(y, 1) + h - 1 <= avail
    BY <1>3, <2>1, <2>2 DEF Greatest
  <2>4. AreaRight' = term[1] /\ AreaBottom' = avail
    BY <1>1, <1>3, <2>1 DEF AreaRight, AreaBottom
  <2> HIDE DEF x, y, avail
  <2> QED BY <2>1, <2>2, <2>3, <2>4 DEF Roomy, Inside, Right, Bottom, Big
<1>6. CASE FitAuto /\ ~FitManual
  <2>1. term # <<0, 0>>
    BY <1>4, <1>6 DEF FitAuto, FitOK
  <2> DEFINE w == Greatest(term[1], MIN_W)
             h == Greatest(term[2] - PANEL_ROWS, MIN_H)
  <2>2. frame' = [x |-> 1, y |-> 1, w |-> w, h |-> h]
    <3>1. PICK s \in Applied(term[1], term[2] - PANEL_ROWS) :
            /\ frame' = [x |-> 1, y |-> 1, w |-> s.w, h |-> s.h]
            /\ fitted' = (s = [w |-> w, h |-> h])
      BY <1>6, <2>1, Zenon DEF FitAuto
    <3>2. s = [w |-> w, h |-> h]
      BY <1>4, <3>1, Zenon
    <3>3. s.w = w /\ s.h = h
      BY <3>2
    <3> QED BY <3>1, <3>3, Zenon
  <2>3. /\ w \in Int /\ h \in Int /\ w >= MIN_W /\ h >= MIN_H
        /\ term[1] >= MIN_W => w <= term[1]
        /\ term[2] - PANEL_ROWS >= MIN_H => h <= term[2] - PANEL_ROWS
    BY <1>3 DEF Greatest
  <2> HIDE DEF w, h
  <2>4. AreaRight' = term[1] /\ AreaBottom' = term[2] - PANEL_ROWS
    BY <1>1, <1>3, <2>1 DEF AreaRight, AreaBottom
  <2> QED BY <1>3, <2>1, <2>2, <2>3, <2>4 DEF Roomy, Inside, Right, Bottom, Big
<1> QED BY <1>1, <1>5, <1>6

LEMMA NextFit == DInv /\ FitOK /\ [Next]_vars => FitOK'
<1> SUFFICES ASSUME DInv, FitOK, [Next]_vars PROVE FitOK'
  OBVIOUS
<1>1. CASE Winch
  BY <1>1 DEF Winch, FitOK
<1>2. CASE UNCHANGED <<term, known, frame, drag, fitted>>
  <2>1. Inside(drag.pv)' = Inside(drag.pv)
    BY <1>2 DEF Inside, Right, Bottom, AreaRight, AreaBottom
  <2> QED BY <1>2, <2>1, SameArea DEF FitOK
<1>3. KeyAuto \/ UNCHANGED vars => UNCHANGED <<term, known, frame, drag, fitted>>
  BY DEF KeyAuto, vars
<1> QED BY <1>1, <1>2, <1>3, PressFit, MotionFit, ReleaseFit, RefitFit DEF Next

(***************************************************************************)
(* Wherever it is dragged and however often memory is short, a frame that  *)
(* was fitted stays on the terminal and off the panel.                     *)
(***************************************************************************)
THEOREM FrameStaysInside == WindowSpec => []FrameInside
<1>1. Init => FitOK
  BY DEF Init, FitOK
<1>2. FitOK => FrameInside
  BY DEF FitOK, FrameInside
<1>3. WindowSpec => Init /\ [][Next]_vars
  BY WindowDrags, WindowStarts, PTL DEF WindowSpec
<1> QED BY <1>1, <1>2, <1>3, NextFit, DragInvariance, PTL

-----------------------------------------------------------------------------
(* What is on the terminal *)

LEMMA PictureInFrame ==
  ASSUME NEW r \in Rect, NEW m \in Modes
  PROVE  LET p == PictureOf(r, m)
         IN  p.x = r.x /\ p.y = r.y /\ p.h = r.h /\ Right(p) <= Right(r)
<1>1. CASE m = "CELLS"
  <2>1. PictureOf(r, m) = r
    BY <1>1 DEF PictureOf, Rect
  <2> QED BY <2>1 DEF Right, Rect
<1>2. CASE m # "CELLS"
  <2>1. PictureOf(r, m) = [r EXCEPT !.w = r.w - (r.w % 2)]
    BY <1>2 DEF PictureOf
  <2>2. r.w \in Int /\ r.x \in Int /\ r.w % 2 \in 0 .. 1
    BY DEF Rect
  <2> DEFINE p == PictureOf(r, m)
  <2>3. p.x = r.x /\ p.y = r.y /\ p.h = r.h /\ p.w = r.w - (r.w % 2)
    BY <2>1 DEF Rect
  <2> HIDE DEF p
  <2>4. r.x + (r.w - (r.w % 2)) - 1 <= r.x + r.w - 1
    BY <2>2
  <2> QED BY <2>3, <2>4 DEF Right, p
<1> QED BY <1>1, <1>2

\* No piece of an older picture outlives the frame it was drawn in.
ShownOK == mode \in Modes /\ NothingStale

LEMMA ShownInvariance == WindowSpec => []ShownOK
<1>1. WindowInit => ShownOK
  BY DEF WindowInit, NothingStale, ShownOK
<1>2. TypeOK /\ ShownOK /\ [WindowNext]_<<vars, window>> => ShownOK'
  <2> SUFFICES ASSUME TypeOK, ShownOK, [WindowNext]_<<vars, window>> PROVE ShownOK'
    OBVIOUS
  <2> USE DEF ShownOK
  <2>1. CASE UNCHANGED <<frame, window>>
    BY <2>1 DEF window, NothingStale, Right
  <2>2. CASE Release /\ Released
    <3>1. mode' = mode /\ (shown' = {} \/ (shown' = shown /\ frame' = frame))
      BY <2>2 DEF Release, Released
    <3> QED BY <3>1 DEF NothingStale, Right
  <2>3. CASE Refitted
    BY <2>3 DEF Refitted, NothingStale
  <2>4. CASE Draw /\ UNCHANGED vars
    <3> DEFINE p == PictureOf(frame, mode)
    <3>1. mode' = mode /\ frame' = frame /\ shown' = shown \union {p}
      BY <2>4 DEF Draw, vars
    <3>2. p.x = frame.x /\ p.y = frame.y /\ p.h = frame.h /\ Right(p) <= Right(frame)
      BY PictureInFrame DEF TypeOK
    <3> HIDE DEF p
    <3> QED BY <3>1, <3>2 DEF NothingStale, Right
  <2>5. CASE KeyMode /\ UNCHANGED vars
    <3>1. mode' \in Modes /\ shown' = shown /\ frame' = frame
      BY <2>5 DEF KeyMode, Modes, vars
    <3> QED BY <3>1 DEF NothingStale, Right
  <2>6. \/ UNCHANGED <<frame, window>>
        \/ (Release /\ Released)
        \/ Refitted
        \/ (Draw /\ UNCHANGED vars)
        \/ (KeyMode /\ UNCHANGED vars)
    BY DEF WindowNext, Press, Motion, Winch, KeyAuto, vars
  <2> QED BY <2>1, <2>2, <2>3, <2>4, <2>5, <2>6
<1>3. DInv => TypeOK
  BY DEF DInv
<1> QED BY <1>1, <1>2, <1>3, DragInvariance, PTL DEF WindowSpec


-----------------------------------------------------------------------------
(* The picture fits *)

(***************************************************************************)
(* Induction over the naturals.  Otherwise the members of T up to an n that*)
(* is none could be mapped, each to its successor, one to one into those   *)
(* other than 0, which are fewer.                                          *)
(***************************************************************************)
LEMMA Induction ==
  ASSUME NEW T, 0 \in T, \A n \in Nat : n \in T => n + 1 \in T
  PROVE  Nat \subseteq T
<1> SUFFICES ASSUME NEW n \in Nat, n \notin T PROVE FALSE
  OBVIOUS
<1> DEFINE S == {k \in 0 .. n : k \in T}
           f == [k \in S |-> k + 1]
<1>1. IsFiniteSet(S) /\ S \in SUBSET Nat
  <2>1. IsFiniteSet(0 .. n)
    BY FS_Interval
  <2>2. S \subseteq 0 .. n
    OBVIOUS
  <2> QED BY <2>1, <2>2, FS_Subset
<1>2. f \in Injection(S, S \ {0})
  <2>1. \A k \in S : k + 1 \in S \ {0}
    OBVIOUS
  <2>2. f \in [S -> S \ {0}]
    BY <2>1
  <2>3. \A k, m \in S : f[k] = f[m] => k = m
    BY <1>1
  <2> QED BY <2>2, <2>3 DEF Injection, IsInjective
<1>3. IsFiniteSet(S \ {0}) /\ Cardinality(S \ {0}) = Cardinality(S) - 1
  <2>1. 0 \in S
    OBVIOUS
  <2> QED BY <1>1, <2>1, FS_RemoveElement
<1>4. Cardinality(S) <= Cardinality(S \ {0})
  <2> HIDE DEF S, f
  <2> QED BY <1>1, <1>2, <1>3, FS_Injection, FS_CardinalityType, FS_PigeonHole
<1>5. Cardinality(S) \in Nat
  BY <1>1, FS_CardinalityType
<1> QED
  <2> HIDE DEF S
  <2> QED BY <1>3, <1>4, <1>5

LEMMA EndBytes ==
  ASSUME NEW r \in Rect, NEW i \in Int
  PROVE  /\ HomeBytes(r) \in Nat /\ HomeBytes(r) <= 16
         /\ RowEndBytes(r, i) \in Nat /\ RowEndBytes(r, i) <= 20
<1>1. \A n \in Int : Digits(n) \in 1 .. 6
  BY DEF Digits
<1>2. r.x \in Int /\ r.y \in Int /\ r.y + i \in Int
  BY DEF Rect
<1>3. \A n \in Int : GotoBytes(r, n) \in 6 .. 16
  BY <1>1, <1>2 DEF GotoBytes
<1> QED BY <1>2, <1>3 DEF HomeBytes, RowEndBytes

(***************************************************************************)
(* A picture takes no more than its cells, twenty bytes per row to end it  *)
(* and sixteen to start.                                                   *)
(***************************************************************************)
LEMMA LengthBound ==
  ASSUME NEW r \in Rect, r.h \in Nat, r.w \in Nat, NEW bytes \in Nat
  PROVE  /\ PictureLength(r, bytes) \in Int
         /\ PictureLength(r, bytes) <= 16 + r.h * (r.w * bytes + 20)
<1> DEFINE row == r.w * bytes
           home == HomeBytes(r)
           end(i) == RowEndBytes(r, i)
           Step(g, n) == [i \in 0 .. n |-> IF i = 0 THEN home
                                          ELSE g[i - 1] + row + end(i)]
           upTo[i \in 0 .. r.h] == IF i = 0 THEN HomeBytes(r)
                                   ELSE upTo[i - 1] + r.w * bytes + RowEndBytes(r, i)
<1>1. row \in Nat
  OBVIOUS
<1>2. home \in Nat /\ home <= 16 /\ \A i \in Int : end(i) \in Nat /\ end(i) <= 20
  BY EndBytes
<1>3. PictureLength(r, bytes) = upTo[r.h]
  BY DEF PictureLength
<1>4. upTo = CHOOSE g : g = Step(g, r.h)
  BY DEF upTo
<1> HIDE DEF row, home, end, upTo
<1>5. \E g : g = Step(g, r.h)
  <2> DEFINE T == {n \in Nat : \E g : g = Step(g, n)}
  <2>1. 0 \in T
    <3> DEFINE g == [i \in 0 .. 0 |-> home]
    <3>1. g = Step(g, 0)
      OBVIOUS
    <3> QED BY <3>1
  <2>2. ASSUME NEW n \in Nat, n \in T PROVE n + 1 \in T
    <3>1. PICK g : g = Step(g, n)
      BY <2>2
    <3> DEFINE k == [i \in 0 .. n + 1 |-> IF i <= n THEN g[i] ELSE g[n] + row + end(i)]
    <3>2. k = Step(k, n + 1)
      <4>1. \A i \in 0 .. n : k[i] = g[i]
        OBVIOUS
      <4>2. \A i \in 0 .. n : g[i] = IF i = 0 THEN home ELSE g[i - 1] + row + end(i)
        BY <3>1
      <4>3. ASSUME NEW i \in 0 .. n + 1
            PROVE  k[i] = IF i = 0 THEN home ELSE k[i - 1] + row + end(i)
        <5>1. CASE i <= n
          BY <4>1, <4>2, <5>1
        <5>2. CASE i = n + 1
          <6>1. k[i] = g[n] + row + end(i) /\ k[i - 1] = g[n]
            BY <5>2
          <6> QED BY <5>2, <6>1
        <5> QED BY <5>1, <5>2
      <4> HIDE DEF k
      <4>4. k = [i \in 0 .. n + 1 |-> k[i]]
        BY DEF k
      <4> QED BY <4>3, <4>4
    <3> HIDE DEF k
    <3>3. \E q : q = Step(q, n + 1)
      BY <3>2
    <3> QED BY <3>3
  <2> HIDE DEF T
  <2>3. Nat \subseteq T
    BY <2>1, <2>2, Induction
  <2>4. r.h \in T
    BY <2>3
  <2> QED BY <2>4 DEF T
<1>6. upTo = Step(upTo, r.h)
  BY <1>4, <1>5
<1>7. /\ upTo[0] = home
      /\ \A i \in 1 .. r.h : upTo[i] = upTo[i - 1] + row + end(i)
  BY <1>6
<1> DEFINE T == {n \in Nat : n <= r.h => upTo[n] \in Int /\ upTo[n] <= 16 + n * (row + 20)}
<1>8. 0 \in T
  BY <1>1, <1>2, <1>7
<1>9. ASSUME NEW n \in Nat, n \in T PROVE n + 1 \in T
  <2> SUFFICES ASSUME n + 1 <= r.h
               PROVE  upTo[n + 1] \in Int /\ upTo[n + 1] <= 16 + (n + 1) * (row + 20)
    OBVIOUS
  <2>1. upTo[n] \in Int /\ upTo[n] <= 16 + n * (row + 20)
    BY <1>9
  <2>2. upTo[n + 1] = upTo[n] + row + end(n + 1)
    BY <1>7
  <2>3. (n + 1) * (row + 20) = n * (row + 20) + (row + 20)
    BY <1>1
  <2>4. end(n + 1) \in Nat /\ end(n + 1) <= 20
    BY <1>2
  <2>5. n * (row + 20) \in Int
    BY <1>1
  <2> QED BY <1>1, <2>1, <2>2, <2>3, <2>4, <2>5
<1> HIDE DEF T
<1>10. Nat \subseteq T
  BY <1>8, <1>9, Induction
<1>11. r.h \in T
  BY <1>10
<1>12. upTo[r.h] \in Int /\ upTo[r.h] <= 16 + r.h * (row + 20)
  BY <1>11 DEF T
<1> QED BY <1>3, <1>12 DEF row

LEMMA TimesMonotone ==
  ASSUME NEW a \in Nat, NEW b \in Nat, NEW c \in Nat, NEW d \in Nat, a <= b, c <= d
  PROVE  a * c <= b * d
<1>1. a * c \in Nat /\ b * c \in Nat /\ b * d \in Nat
  OBVIOUS
<1>2. a * c <= b * c
  OBVIOUS
<1>3. b * c <= b * d
  OBVIOUS
<1> QED BY <1>1, <1>2, <1>3

\* The buffer made for a size has room for every mode's picture of that size.
LEMMA BufferSuffices ==
  ASSUME NEW r \in Rect, r.w > 0, r.h > 0, NEW m \in Modes, NEW bytes \in CellBytes(m)
  PROVE  LET length == PictureLength(PictureOf(r, m), bytes)
         IN  length \in Int /\ Need(r.w, r.h) \in Int /\ length < Need(r.w, r.h)
<1> DEFINE p == PictureOf(r, m)
           B == PerCell(m)
<1>1. r.w \in Nat /\ r.h \in Nat
  BY DEF Rect
<1>2. B \in Nat /\ bytes \in Nat /\ bytes <= B
  BY ColorAssumption DEF CellBytes, PerCell, Modes
<1>3. p \in Rect /\ p.h = r.h /\ p.w \in Nat /\ p.w <= r.w
  <2>1. r.w % 2 \in 0 .. 1 /\ r.w - (r.w % 2) \in 0 .. r.w
    BY <1>1
  <2>2. CASE m = "CELLS"
    <3>1. p = r
      BY <2>2 DEF PictureOf, Rect
    <3> QED BY <1>1, <3>1
  <2>3. CASE m # "CELLS"
    <3>1. p = [r EXCEPT !.w = r.w - (r.w % 2)]
      BY <2>3 DEF PictureOf
    <3> QED BY <2>1, <3>1 DEF Rect
  <2> QED BY <2>2, <2>3
<1> DEFINE row == p.w * bytes
           room == r.w * B
<1>4. row \in Nat /\ room \in Nat /\ row <= room
  BY <1>1, <1>2, <1>3, TimesMonotone
<1>5. /\ PictureLength(p, bytes) \in Int
      /\ PictureLength(p, bytes) <= 16 + r.h * (row + 20)
  BY <1>1, <1>2, <1>3, LengthBound
<1> HIDE DEF p, B, row, room
<1>6. /\ r.h * (row + 20) \in Nat /\ r.h * (room + 24) \in Nat
      /\ r.h * (row + 20) <= r.h * (room + 24)
  BY <1>1, <1>4, TimesMonotone
<1>7. CASE m = "CELLS"
  <2>1. OutSizeForMode(2 * r.w, 4 * r.h, "CELLS") = 25 + r.h * (room + 24)
    <3>1. (2 * r.w) \div 2 = r.w /\ (4 * r.h) \div 4 = r.h
      BY <1>1
    <3>2. OutSizeForMode(2 * r.w, 4 * r.h, "CELLS") = 24 + r.h * (room + 24) + 1
      BY <1>7, <3>1 DEF OutSizeForMode, ROW_END_MAX, room, B
    <3> QED BY <1>6, <3>2
  <2>2. OutSizeForMode(2 * r.w, 4 * r.h, "HALF_BLOCK") \in Int
    <3>1. (4 * r.h) \div 2 \in Int /\ 2 * r.w \in Int /\ PerCell("HALF_BLOCK") \in Int
      BY <1>1, ColorAssumption DEF PerCell
    <3> QED BY <3>1 DEF OutSizeForMode, ROW_END_MAX
  <2>3. Need(r.w, r.h) >= 25 + r.h * (room + 24)
    BY <1>6, <2>1, <2>2 DEF Need, Greatest
  <2>4. Need(r.w, r.h) \in Int
    BY <1>6, <2>1, <2>2 DEF Need, Greatest
  <2> QED BY <1>5, <1>6, <2>3, <2>4 DEF p
<1>8. CASE m = "HALF_BLOCK"
  <2> DEFINE half == OutSizeForMode(2 * r.w, 4 * r.h, "HALF_BLOCK")
  <2>1. half \in Int /\ half >= 25 + r.h * (room + 24)
    <3> DEFINE th == 2 * r.h
               wide == 2 * r.w * B
    <3>1. (4 * r.h) \div 2 = th
      BY <1>1
    <3>2. half = 24 + th * (wide + 24) + 1
      BY <1>8, <3>1 DEF OutSizeForMode, ROW_END_MAX, B
    <3>3. wide = 2 * room
      BY <1>1, <1>2 DEF room
    <3> HIDE DEF half
    <3>4. th \in Nat /\ wide \in Nat /\ r.h <= th /\ room + 24 <= wide + 24
      BY <1>1, <1>4, <3>3
    <3> HIDE DEF th, wide
    <3>5. r.h * (room + 24) <= th * (wide + 24) /\ th * (wide + 24) \in Nat
      BY <1>1, <1>4, <3>4, TimesMonotone
    <3> QED BY <1>6, <3>2, <3>5
  <2>2. OutSizeForMode(2 * r.w, 4 * r.h, "CELLS") \in Int
    <3>1. (4 * r.h) \div 4 \in Int /\ (2 * r.w) \div 2 \in Int /\ PerCell("CELLS") \in Int
      BY <1>1, ColorAssumption DEF PerCell
    <3> QED BY <3>1 DEF OutSizeForMode, ROW_END_MAX
  <2> HIDE DEF half
  <2>3. Need(r.w, r.h) \in Int /\ Need(r.w, r.h) >= half
    BY <2>1, <2>2 DEF Need, Greatest, half
  <2> QED BY <1>5, <1>6, <2>1, <2>3 DEF p
<1> QED BY <1>7, <1>8 DEF Modes

\* The buffer is as large as its frame needs, whatever allocations failed.
BufferOK == out_size = Need(frame.w, frame.h)

LEMMA NextBuffer == ASSUME BufferOK, [WindowNext]_<<vars, window>> PROVE BufferOK'
<1>1. CASE Resized
  BY <1>1 DEF Resized, BufferOK
<1>2. CASE UNCHANGED <<frame, out_size>>
  BY <1>2 DEF BufferOK
<1>3. Resized \/ UNCHANGED <<frame, out_size>>
  BY DEF WindowNext, Released, Refitted, Draw, KeyMode, Press, Motion, Winch, KeyAuto,
         vars, window
<1> QED BY <1>1, <1>2, <1>3

(***************************************************************************)
(* The picture drawn fits its buffer as a whole, and no rectangle of an    *)
(* older picture is left outside it, for every frame a drag can reach,     *)
(* every mode chosen since and every allocation that failed.               *)
(***************************************************************************)
THEOREM WindowIsSound == WindowSpec => []WindowSound
<1>1. WindowInit => BufferOK
  BY DEF WindowInit, BufferOK
<1>2. TypeOK /\ BufferOK => PictureFits
  <2> SUFFICES ASSUME TypeOK, BufferOK, NEW m \in Modes, NEW bytes \in CellBytes(m)
               PROVE  ~LeavesOut(PictureLength(PictureOf(frame, m), bytes))
    BY DEF PictureFits
  <2>1. frame \in Rect /\ frame.w > 0 /\ frame.h > 0
    BY DEF TypeOK
  <2> QED BY <2>1, BufferSuffices DEF BufferOK, LeavesOut
<1>3. DInv => TypeOK
  BY DEF DInv
<1>4. TypeOK /\ BufferOK /\ ShownOK => WindowSound
  BY <1>2 DEF ShownOK, WindowSound
<1>5. WindowSpec => []BufferOK
  BY <1>1, NextBuffer, PTL DEF WindowSpec
<1> QED BY <1>3, <1>4, <1>5, DragInvariance, ShownInvariance, PTL

-----------------------------------------------------------------------------
(* A plugin in memory *)

Segment == [start : Nat, end : Nat, write : BOOLEAN]

ImageTypeOK ==
  /\ dl \in [pc : {"closed", "failed", "headers", "map", "relocate", "open"}, fd : BOOLEAN,
             phdrs : Seq(Phdrs), segs : Seq(Segment), left : Int, min : Int, max : Int,
             tables : {<<>>} \cup Tables]
  /\ mem = [page |-> mem.page, word |-> mem.word]
  /\ mem.page = [n \in Dl!Pages |-> mem.page[n]]
  /\ mem.word = [w \in Dl!Words |-> mem.word[w]]

\* What is mapped only while it is, what is written only after that.
ImageStages ==
  /\ dl.pc \in {"closed", "failed", "headers"} => dl.segs = <<>> /\ dl.min = 0 /\ dl.max = 0
  /\ dl.pc \in {"closed", "failed"} => ~dl.fd
  /\ dl.pc = "map" => dl.left >= 1 /\ Len(dl.phdrs) = PHNUM
  /\ dl.pc \notin {"relocate", "open"} => relocated = {}

\* The reservation, and what it leaves alone.
Inner(n) == n \in Dl!PagesOf(dl.min, dl.max)
Confined ==
  /\ \A n \in Dl!Pages : IF Inner(n) THEN mem.page[n].owner # "other" ELSE mem.page[n] = Dl!Free
  /\ \A w \in Dl!Words : w < dl.min \/ w >= dl.max => mem.word[w] = "other"

\* The headers are those of segments that share no page.
HeadersFit ==
  \A k \in Dl!Loads(dl.phdrs) :
    /\ Dl!Plausible(dl.phdrs[k])
    /\ \A j \in Dl!Loads(dl.phdrs) : j # k => ~Dl!SharePage(dl.phdrs[k], dl.phdrs[j])

\* The segment of a header is in memory.
Laid(p) ==
  \A w \in Dl!Words : p.vaddr <= w /\ w < p.vaddr + p.memsz =>
    /\ mem.page[Dl!PageOf(w)] = Dl!Mapped(p.write)
    /\ mem.word[w] = IF w \in relocated THEN "relocated" ELSE Dl!Content(p, w)

SegmentsLaid ==
  \A k \in DOMAIN dl.segs : \E h \in Dl!Loads(dl.phdrs) :
    /\ dl.segs[k].start = dl.phdrs[h].vaddr
    /\ dl.segs[k].end = dl.phdrs[h].vaddr + dl.phdrs[h].memsz
    /\ dl.segs[k].write = dl.phdrs[h].write
    /\ dl.min <= dl.segs[k].start /\ dl.segs[k].end <= dl.max
    /\ dl.pc = "map" => h < dl.left
    /\ Laid(dl.phdrs[h])

ImageInv ==
  /\ ImageTypeOK /\ ImageStages /\ Confined /\ HeadersFit /\ SegmentsLaid
  /\ Dl!WritesAllowed

\* Pages divide the addresses.
Boundary(x) == \E n \in Nat : x = n * PAGE

LEMMA PageBounds ==
  ASSUME NEW w \in Nat
  PROVE  /\ Dl!PageOf(w) \in Nat /\ Dl!Down(w) \in Nat
         /\ Dl!Down(w) = Dl!PageOf(w) * PAGE
         /\ Boundary(Dl!Down(w))
         /\ Dl!Down(w) <= w /\ w < Dl!Down(w) + PAGE
<1>1. w \div PAGE \in Nat /\ w % PAGE \in 0 .. PAGE - 1 /\ w = PAGE * (w \div PAGE) + (w % PAGE)
  BY ImageAssumption
<1>2. PAGE * (w \div PAGE) = (w \div PAGE) * PAGE
  BY <1>1, ImageAssumption
<1> DEFINE q == w \div PAGE
           r == w % PAGE
           m == q * PAGE
<1>3. m \in Nat /\ w = m + r /\ r \in Nat /\ r < PAGE
  <2>1. m \in Nat
    BY <1>1, ImageAssumption
  <2> QED BY <1>1, <1>2, <2>1, ImageAssumption
<1>4. Dl!Down(w) = m
  <2>1. Dl!Down(w) = w - r
    BY DEF Dl!Down
  <2> HIDE DEF m, r
  <2> QED BY <1>3, <2>1
<1>5. Dl!PageOf(w) = q
  BY DEF Dl!PageOf
<1>6. Boundary(m)
  BY <1>1 DEF Boundary
<1> HIDE DEF m, r
<1> QED
  <2>1. Dl!Down(w) <= w /\ w < Dl!Down(w) + PAGE
    BY <1>3, <1>4, ImageAssumption
  <2> QED BY <1>1, <1>3, <1>4, <1>5, <1>6, <2>1 DEF m

LEMMA UpBounds ==
  ASSUME NEW w \in Nat
  PROVE  Dl!Up(w) \in Nat /\ Boundary(Dl!Up(w)) /\ w <= Dl!Up(w) /\ Dl!Up(w) < w + PAGE
<1> DEFINE v == w + PAGE - 1
<1>1. v \in Nat
  BY ImageAssumption
<1>2. Dl!Up(w) = Dl!Down(v)
  BY DEF Dl!Up
<1>3. Dl!Down(v) \in Nat /\ Boundary(Dl!Down(v)) /\ Dl!Down(v) <= v /\ v < Dl!Down(v) + PAGE
  <2> HIDE DEF v
  <2> QED BY <1>1, PageBounds
<1> QED BY <1>2, <1>3, ImageAssumption

LEMMA BoundariesApart ==
  ASSUME NEW x, NEW y, Boundary(x), Boundary(y), x < y
  PROVE  x + PAGE <= y
<1>1. PICK a \in Nat : x = a * PAGE
  BY DEF Boundary
<1>2. PICK b \in Nat : y = b * PAGE
  BY DEF Boundary
<1>3. a < b
  <2> SUFFICES ASSUME b <= a PROVE FALSE
    OBVIOUS
  <2>1. PICK d \in Nat : a = b + d
    <3>1. a - b \in Nat /\ a = b + (a - b)
      OBVIOUS
    <3> QED BY <3>1
  <2>2. a * PAGE = b * PAGE + d * PAGE /\ d * PAGE \in Nat
    BY <2>1, ImageAssumption
  <2> QED BY <1>1, <1>2, <2>2, ImageAssumption
<1>4. PICK d \in Nat : b = (a + 1) + d
  <2>1. b - (a + 1) \in Nat /\ b = (a + 1) + (b - (a + 1))
    BY <1>3
  <2> QED BY <2>1
<1>5. b * PAGE = a * PAGE + PAGE + d * PAGE /\ d * PAGE \in Nat /\ a * PAGE \in Nat
  BY <1>4, ImageAssumption
<1> QED BY <1>1, <1>2, <1>5, ImageAssumption
LEMMA HasLeast ==
  ASSUME NEW S, S \subseteq Nat, S # {}
  PROVE  \E l \in S : \A x \in S : l <= x
<1> SUFFICES ASSUME \A l \in S : \E x \in S : x < l PROVE FALSE
  OBVIOUS
<1> DEFINE T == {n \in Nat : \A x \in S : n < x}
<1>1. 0 \in T
  <2>1. ASSUME 0 \in S PROVE FALSE
    <3>1. \E x \in S : x < 0
      BY <2>1
    <3> QED BY <3>1
  <2> QED BY <2>1
<1>2. ASSUME NEW n \in Nat, n \in T PROVE n + 1 \in T
  <2>1. \A x \in S : n + 1 <= x
    BY <1>2
  <2>2. n + 1 \notin S
    BY <2>1
  <2> QED BY <2>1, <2>2
<1>3. Nat \subseteq T
  <2> HIDE DEF T
  <2> QED BY <1>1, <1>2, Induction
<1>4. PICK x \in S : TRUE
  OBVIOUS
<1> QED BY <1>3, <1>4

LEMMA HasGreatest ==
  ASSUME NEW m \in Nat, NEW S, S \subseteq 0 .. m, S # {}
  PROVE  \E g \in S : \A x \in S : x <= g
<1> DEFINE R == {m - x : x \in S}
<1>1. R \subseteq Nat /\ R # {}
  <2>1. \A x \in S : m - x \in Nat /\ m - x \in R
    OBVIOUS
  <2>2. \E x \in S : TRUE
    OBVIOUS
  <2> QED BY <2>1, <2>2
<1>2. PICK l \in R : \A x \in R : l <= x
  <2> HIDE DEF R
  <2> QED BY <1>1, HasLeast
<1>3. PICK g \in S : l = m - g
  BY <1>2
<1>4. \A x \in S : m - x \in R
  OBVIOUS
<1>5. \A x \in S : m - g <= m - x
  BY <1>2, <1>3, <1>4
<1> QED BY <1>5

\* A page is in the address space when one of its words is.
LEMMA PageOfWord ==
  ASSUME NEW w \in Dl!Words
  PROVE  Dl!PageOf(w) \in Dl!Pages /\ w \in Nat
<1>1. ADDRESSES * PAGE \in Nat
  BY ImageAssumption
<1>2. w \in Nat /\ w < ADDRESSES * PAGE
  <2>1. w \in 0 .. ADDRESSES * PAGE - 1
    BY DEF Dl!Words
  <2> HIDE DEF Dl!Words
  <2> QED BY <1>1, <2>1
<1>3. Dl!PageOf(w) \in Nat /\ Dl!PageOf(w) * PAGE <= w
  BY <1>2, PageBounds
<1>4. Dl!PageOf(w) < ADDRESSES
  <2> SUFFICES ASSUME ADDRESSES <= Dl!PageOf(w) PROVE FALSE
    BY <1>3, ImageAssumption
  <2>1. Dl!PageOf(w) - ADDRESSES \in Nat
    BY <1>3, ImageAssumption
  <2> DEFINE d == Dl!PageOf(w) - ADDRESSES
  <2>2. Dl!PageOf(w) = ADDRESSES + d
    BY <1>3, ImageAssumption
  <2>3. Dl!PageOf(w) * PAGE = ADDRESSES * PAGE + d * PAGE /\ d * PAGE \in Nat
    <3> HIDE DEF d
    <3> QED BY <2>1, <2>2, ImageAssumption DEF d
  <2> QED BY <1>1, <1>2, <1>3, <2>3
<1> QED BY <1>2, <1>3, <1>4, ImageAssumption DEF Dl!Pages

\* A segment that the checks let through, of a header.
Sound(p) == p \in Phdrs /\ Dl!Plausible(p)
LEMMA SoundHeader ==
  ASSUME NEW p, Sound(p)
  PROVE  /\ p.vaddr \in Nat /\ p.memsz \in Nat /\ p.filesz \in Nat /\ p.offset \in Nat
         /\ p.write \in BOOLEAN
         /\ p.filesz <= p.memsz /\ p.filesz + p.offset <= FSIZE
         /\ p.vaddr % PAGE = p.offset % PAGE
         /\ p.memsz > p.filesz => p.write
         /\ \A w \in Int : p.vaddr <= w /\ w < p.vaddr + p.memsz => w \in Dl!Words
<1>1. /\ p.vaddr \in Nat /\ p.memsz \in Nat /\ p.filesz \in Nat /\ p.offset \in Nat
      /\ p.write \in BOOLEAN
  BY ImageAssumption DEF Sound
<1>2. /\ p.vaddr <= MAX_VADDR /\ p.memsz <= MAX_SPAN
      /\ p.filesz <= p.memsz /\ p.offset <= FSIZE /\ p.filesz <= FSIZE - p.offset
      /\ p.vaddr % PAGE = p.offset % PAGE
      /\ p.memsz > p.filesz => p.write
  BY DEF Sound, Dl!Plausible
<1>3. ASSUME NEW w \in Int, p.vaddr <= w, w < p.vaddr + p.memsz PROVE w \in Dl!Words
  <2> DEFINE top == ADDRESSES * PAGE
  <2>1. top \in Nat /\ MAX_VADDR + MAX_SPAN <= top
    BY ImageAssumption
  <2> HIDE DEF top
  <2>2. w \in 0 .. top - 1
    BY <1>1, <1>2, <1>3, <2>1, ImageAssumption
  <2> QED BY <2>2 DEF Dl!Words, top
<1> QED BY <1>1, <1>2, <1>3, ImageAssumption

\* m2 is m except for what is mapped between two addresses.
Shape(m) ==
  /\ m = [page |-> m.page, word |-> m.word]
  /\ m.page = [n \in Dl!Pages |-> m.page[n]]
  /\ m.word = [w \in Dl!Words |-> m.word[w]]
Only(m2, m, from, to) ==
  /\ Shape(m2)
  /\ \A n \in Dl!Pages : \/ m2.page[n] = m.page[n]
                         \/ /\ from <= n * PAGE /\ n * PAGE < to
                            /\ m2.page[n] \in {Dl!Mapped(TRUE), Dl!Mapped(FALSE)}
  /\ \A w \in Dl!Words : \/ m2.word[w] = m.word[w]
                         \/ from <= w /\ w < to

LEMMA PageTimes ==
  ASSUME NEW n \in Dl!Pages
  PROVE  n \in Nat /\ n * PAGE \in Nat
  BY ImageAssumption DEF Dl!Pages

LEMMA FilePartMaps ==
  ASSUME NEW m, Shape(m), NEW p, Sound(p)
  PROVE  LET m2 == Dl!FilePart(m, p) IN
         /\ Only(m2, m, Dl!Down(p.vaddr), Dl!Up(p.vaddr + p.filesz))
         /\ p.filesz > 0 =>
              /\ \A n \in Dl!Pages : Dl!Down(p.vaddr) <= n * PAGE /\ n * PAGE < p.vaddr + p.filesz =>
                   m2.page[n] = Dl!Mapped(p.write)
              /\ \A w \in Dl!Words : p.vaddr <= w /\ w < p.vaddr + p.filesz =>
                   m2.word[w] = <<"file", p.offset + w - p.vaddr>>
<1> DEFINE m2 == Dl!FilePart(m, p)
           off == Dl!Down(p.offset)
           at == Dl!Down(p.vaddr)
           size == Dl!Up(p.offset - off + p.filesz)
           file == p.filesz
<1>0. /\ p.vaddr \in Nat /\ file \in Nat /\ p.offset \in Nat /\ p.write \in BOOLEAN
      /\ file + p.offset <= FSIZE /\ p.vaddr % PAGE = p.offset % PAGE
  BY SoundHeader
<1>1. CASE file = 0
  <2>1. m2 = m
    BY <1>1 DEF Dl!FilePart
  <2> QED BY <1>1, <2>1 DEF Only
<1>2. CASE file > 0
  <2>1. m2 = Dl!FileAt(m, at, size, off, p.write)
    BY <1>2 DEF Dl!FilePart
  <2>2. /\ off \in Nat /\ at \in Nat /\ Boundary(at) /\ at <= p.vaddr
        /\ p.offset - off = p.vaddr - at
    <3>1. off = p.offset - (p.offset % PAGE) /\ at = p.vaddr - (p.vaddr % PAGE)
      BY DEF Dl!Down
    <3>2. p.offset % PAGE \in Nat /\ p.vaddr % PAGE \in Nat
      BY <1>0, ImageAssumption
    <3>3. off \in Nat /\ at \in Nat /\ Boundary(at) /\ at <= p.vaddr
      BY <1>0, PageBounds
    <3> QED BY <1>0, <3>1, <3>2, <3>3
  <2> DEFINE len == p.offset - off + p.filesz
             end == at + size
             top == Dl!Up(p.vaddr + p.filesz)
  <2>3. len \in Nat /\ at + len = p.vaddr + file
    BY <1>0, <2>2
  <2>4. size \in Nat /\ Boundary(size) /\ len <= size /\ size < len + PAGE
    <3> HIDE DEF len
    <3> QED BY <2>3, UpBounds DEF len
  <2>5. top \in Nat /\ Boundary(top) /\ p.vaddr + file <= top
    <3>1. p.vaddr + p.filesz \in Nat
      BY <1>0
    <3> QED BY <3>1, UpBounds
  <2>6. end \in Nat /\ p.vaddr + file <= end /\ end < p.vaddr + file + PAGE
    <3> HIDE DEF len, size, at
    <3> QED BY <1>0, <2>2, <2>3, <2>4, ImageAssumption
  <2>7. Boundary(end)
    <3>1. PICK a \in Nat : at = a * PAGE
      BY <2>2 DEF Boundary
    <3>2. PICK b \in Nat : size = b * PAGE
      BY <2>4 DEF Boundary
    <3>3. a + b \in Nat /\ at + size = (a + b) * PAGE
      BY <3>1, <3>2, ImageAssumption
    <3> QED BY <3>3 DEF Boundary
  <2>8. end <= top
    <3> HIDE DEF end, top
    <3> SUFFICES ASSUME top < end PROVE FALSE
      BY <2>5, <2>6
    <3>1. top + PAGE <= end
      BY <2>5, <2>7, BoundariesApart
    <3> QED BY <1>0, <2>5, <2>6, <3>1, ImageAssumption
  <2> HIDE DEF off, at, size, len, top
  <2>9. /\ m2 = [page |-> m2.page, word |-> m2.word]
        /\ m2.page = [n \in Dl!Pages |-> IF n \in Dl!PagesOf(at, end) THEN Dl!Mapped(p.write)
                                         ELSE m.page[n]]
        /\ m2.word = [w \in Dl!Words |->
             IF w \in at .. end - 1
             THEN IF off + w - at < FSIZE THEN <<"file", off + w - at>> ELSE "zero"
             ELSE m.word[w]]
    <3> DEFINE pages == [n \in Dl!Pages |-> IF n \in Dl!PagesOf(at, end) THEN Dl!Mapped(p.write)
                                            ELSE m.page[n]]
               words == [w \in Dl!Words |->
                 IF w \in at .. end - 1
                 THEN IF off + w - at < FSIZE THEN <<"file", off + w - at>> ELSE "zero"
                 ELSE m.word[w]]
    <3>1. m2 = [page |-> pages, word |-> words]
      <4>1. at + (size - 1) = end - 1
        BY <2>2, <2>4
      <4> HIDE DEF m2, end
      <4>2. Dl!FileAt(m, at, size, off, p.write) =
              [page |-> [n \in Dl!Pages |-> IF n \in Dl!PagesOf(at, at + size)
                                            THEN Dl!Mapped(p.write) ELSE m.page[n]],
               word |-> words]
        BY <4>1, Zenon DEF Dl!FileAt
      <4> QED BY <2>1, <4>2, Zenon DEF end
    <3> HIDE DEF m2, pages, words
    <3>2. m2 = [page |-> m2.page, word |-> m2.word] /\ m2.page = pages /\ m2.word = words
      BY <3>1
    <3> QED BY <3>2 DEF pages, words
  <2> HIDE DEF m2, end
  <2>10. Shape(m2)
    BY <2>9 DEF Shape
  <2>11. \A n \in Dl!Pages : n \in Dl!PagesOf(at, end) <=> at <= n * PAGE /\ n * PAGE < end
    BY DEF Dl!PagesOf
  <2>12. ASSUME NEW n \in Dl!Pages
         PROVE  /\ \/ m2.page[n] = m.page[n]
                   \/ /\ at <= n * PAGE /\ n * PAGE < top
                      /\ m2.page[n] \in {Dl!Mapped(TRUE), Dl!Mapped(FALSE)}
                /\ at <= n * PAGE /\ n * PAGE < p.vaddr + file => m2.page[n] = Dl!Mapped(p.write)
    <3> DEFINE np == n * PAGE
    <3>1. np \in Nat
      BY PageTimes
    <3>2. m2.page[n] = IF at <= np /\ np < end THEN Dl!Mapped(p.write) ELSE m.page[n]
      BY <2>9, <2>11
    <3>3. Dl!Mapped(p.write) \in {Dl!Mapped(TRUE), Dl!Mapped(FALSE)}
      BY <1>0
    <3> HIDE DEF np
    <3>4. at <= np /\ np < p.vaddr + file => np < end
      BY <1>0, <2>6, <3>1
    <3>5. np < end => np < top
      BY <2>5, <2>6, <2>8, <3>1
    <3>6. /\ \/ m2.page[n] = m.page[n]
             \/ /\ at <= np /\ np < top
                /\ m2.page[n] \in {Dl!Mapped(TRUE), Dl!Mapped(FALSE)}
          /\ at <= np /\ np < p.vaddr + file => m2.page[n] = Dl!Mapped(p.write)
      BY <3>2, <3>3, <3>4, <3>5
    <3> QED BY <3>6 DEF np
  <2>13. ASSUME NEW w \in Dl!Words
         PROVE  /\ m2.word[w] = m.word[w] \/ (at <= w /\ w < top)
                /\ p.vaddr <= w /\ w < p.vaddr + file =>
                     m2.word[w] = <<"file", p.offset + w - p.vaddr>>
    <3>1. w \in Nat
      BY PageOfWord
    <3>2. m2.word[w] = IF at <= w /\ w < end
                       THEN IF off + w - at < FSIZE THEN <<"file", off + w - at>> ELSE "zero"
                       ELSE m.word[w]
      BY <2>2, <2>6, <2>9, <3>1
    <3>3. off + w - at = p.offset + w - p.vaddr
      BY <1>0, <2>2, <3>1
    <3>4. p.vaddr <= w /\ w < p.vaddr + file =>
            at <= w /\ w < end /\ p.offset + w - p.vaddr < FSIZE
      BY <1>0, <2>2, <2>6, <3>1, ImageAssumption
    <3>5. at <= w /\ w < end => w < top
      BY <2>5, <2>6, <2>8, <3>1
    <3> QED BY <3>2, <3>3, <3>4, <3>5
  <2> QED BY <2>10, <2>12, <2>13 DEF Only, at, top, m2
<1> QED BY <1>0, <1>1, <1>2

\* Memory m with zeros from a to b, in pages that are there and in fresh ones.
ClearedFrom(c, m, a, b) ==
  /\ Shape(c) /\ c.page = m.page
  /\ \A w \in Dl!Words : c.word[w] = IF a <= w /\ w < b THEN "zero" ELSE m.word[w]
ZeroedFrom(z, m, a, b) ==
  /\ Shape(z)
  /\ \A n \in Dl!Pages : z.page[n] = IF a <= n * PAGE /\ n * PAGE < b
                                     THEN Dl!Mapped(TRUE) ELSE m.page[n]
  /\ \A w \in Dl!Words : z.word[w] = IF a <= w /\ w < b THEN "zero" ELSE m.word[w]

LEMMA ClearedWords ==
  ASSUME NEW m, Shape(m), NEW a \in Int, NEW b \in Int
  PROVE  /\ ClearedFrom(Dl!Cleared(m, a, b), m, a, b)
         /\ ZeroedFrom(Dl!ZeroPages(m, a, b), m, a, b)
<1> DEFINE c == Dl!Cleared(m, a, b)
           z == Dl!ZeroPages(m, a, b)
           words == [w \in Dl!Words |-> IF w \in a .. b - 1 THEN "zero" ELSE m.word[w]]
           pages == [n \in Dl!Pages |-> IF n \in Dl!PagesOf(a, b) THEN Dl!Mapped(TRUE) ELSE m.page[n]]
<1>1. c = [m EXCEPT !.word = words]
  BY DEF Dl!Cleared
<1>2. c = [page |-> m.page, word |-> words]
  <2> DEFINE pm == m.page
             wm == m.word
  <2>1. m = [page |-> pm, word |-> wm]
    BY DEF Shape
  <2> HIDE DEF c, words, pm, wm
  <2>2. [m EXCEPT !.word = words] = [page |-> pm, word |-> words]
    BY <2>1
  <2> QED BY <1>1, <2>2 DEF pm
<1>3. z = [c EXCEPT !.page = [n \in Dl!Pages |-> IF n \in Dl!PagesOf(a, b) THEN Dl!Mapped(TRUE)
                                                 ELSE c.page[n]]]
  BY DEF Dl!ZeroPages
<1>4. z = [c EXCEPT !.page = pages]
  <2> HIDE DEF c, z, words
  <2>1. c.page = m.page
    BY <1>2
  <2> QED BY <1>3, <2>1
<1>5. z = [page |-> pages, word |-> words]
  <2> HIDE DEF c, z, words, pages
  <2> QED BY <1>2, <1>4
<1>6. m.page = [n \in Dl!Pages |-> m.page[n]]
  BY DEF Shape
<1>7. \A w \in Dl!Words : words[w] = IF a <= w /\ w < b THEN "zero" ELSE m.word[w]
  BY PageOfWord
<1>8. \A n \in Dl!Pages : pages[n] = IF a <= n * PAGE /\ n * PAGE < b THEN Dl!Mapped(TRUE) ELSE m.page[n]
  BY DEF Dl!PagesOf
<1>9. Shape(c)
  <2>1. c.page = m.page /\ c.word = words
    <3> HIDE DEF c, words
    <3> QED BY <1>2
  <2>2. words = [w \in Dl!Words |-> words[w]]
    OBVIOUS
  <2> HIDE DEF c, words
  <2> QED BY <1>2, <1>6, <2>1, <2>2 DEF Shape
<1>10. Shape(z)
  <2>1. words = [w \in Dl!Words |-> words[w]] /\ pages = [n \in Dl!Pages |-> pages[n]]
    OBVIOUS
  <2> HIDE DEF z, words, pages
  <2>2. z.page = pages /\ z.word = words
    BY <1>5
  <2> QED BY <1>5, <2>1, <2>2 DEF Shape
<1> HIDE DEF words, pages, c, z
<1>11. c.page = m.page /\ c.word = words /\ z.page = pages /\ z.word = words
  BY <1>2, <1>5
<1> QED BY <1>7, <1>8, <1>9, <1>10, <1>11 DEF c, z, ClearedFrom, ZeroedFrom

\* Memory m where what follows the file's part of a segment is zeros.
TailZeroed(m2, m, p) ==
  LET fileEnd == p.vaddr + p.filesz
      memEnd == p.vaddr + p.memsz
  IN  /\ Only(m2, m, Dl!Down(p.vaddr), Dl!Up(memEnd))
      /\ p.filesz > 0 => \A n \in Dl!Pages : n * PAGE < fileEnd => m2.page[n] = m.page[n]
      /\ \A w \in Dl!Words : p.vaddr <= w /\ w < fileEnd => m2.word[w] = m.word[w]
      /\ \A w \in Dl!Words : fileEnd <= w /\ w < memEnd =>
           /\ m2.word[w] = "zero"
           /\ p.filesz = 0 \/ Dl!Up(fileEnd) <= Dl!PageOf(w) * PAGE =>
                m2.page[Dl!PageOf(w)] = Dl!Mapped(TRUE)

LEMMA ZeroPartClears ==
  ASSUME NEW m, Shape(m), NEW p, Sound(p)
  PROVE  TailZeroed(Dl!ZeroPart(m, p), m, p)
<1> DEFINE m2 == Dl!ZeroPart(m, p)
           fileEnd == p.vaddr + p.filesz
           memEnd == p.vaddr + p.memsz
           down == Dl!Down(p.vaddr)
           up == Dl!Up(fileEnd)
           top == Dl!Up(memEnd)
           zeroTo == IF memEnd < up THEN memEnd ELSE up
           bss == IF p.filesz > 0 THEN up ELSE down
           m1 == IF p.filesz > 0 THEN Dl!Cleared(m, fileEnd, zeroTo) ELSE m
<1>0. /\ p.vaddr \in Nat /\ p.memsz \in Nat /\ p.filesz \in Nat /\ p.filesz <= p.memsz
      /\ fileEnd \in Nat /\ memEnd \in Nat /\ p.vaddr <= fileEnd /\ fileEnd <= memEnd
      /\ fileEnd = p.vaddr <=> p.filesz = 0
      /\ fileEnd = memEnd <=> p.memsz = p.filesz
  BY SoundHeader
<1>1. CASE p.memsz = p.filesz
  <2>1. m2 = m
    BY <1>1 DEF Dl!ZeroPart
  <2>2. ASSUME NEW w \in Dl!Words, fileEnd <= w, w < memEnd PROVE FALSE
    BY <1>0, <1>1, <2>2, PageOfWord
  <2> HIDE DEF m2
  <2> QED BY <2>1, <2>2 DEF Only, m2, TailZeroed
<1>2. CASE p.memsz # p.filesz
  <2>1. m2 = Dl!ZeroPages(m1, bss, top)
    BY <1>2 DEF Dl!ZeroPart
  <2>2. down \in Nat /\ down <= p.vaddr /\ Boundary(down) /\ p.vaddr < down + PAGE
    BY <1>0, PageBounds
  <2>3. up \in Nat /\ fileEnd <= up
    <3> HIDE DEF fileEnd
    <3> QED BY <1>0, UpBounds
  <2>4. top \in Nat /\ memEnd <= top
    <3> HIDE DEF memEnd
    <3> QED BY <1>0, UpBounds
  <2> HIDE DEF m2, fileEnd, memEnd, down, up, top
  <2>5. bss \in Nat /\ down <= bss /\ zeroTo \in Nat /\ zeroTo <= top
    BY <1>0, <2>2, <2>3, <2>4
  <2>6. p.filesz > 0 => bss = up /\ fileEnd <= bss
    BY <2>3
  <2>7. p.filesz = 0 => bss = down /\ bss <= fileEnd
    BY <1>0, <2>2
  <2> DEFINE cleared == Dl!Cleared(m, fileEnd, zeroTo)
  <2>19. ClearedFrom(cleared, m, fileEnd, zeroTo)
    <3> HIDE DEF zeroTo
    <3> QED BY <1>0, <2>5, ClearedWords
  <2>18. m1 = IF p.filesz > 0 THEN cleared ELSE m
    OBVIOUS
  <2> HIDE DEF m1, zeroTo, cleared
  <2>8. Shape(m1) /\ m1.page = m.page
    BY <2>18, <2>19 DEF ClearedFrom
  <2>9. ASSUME NEW w \in Dl!Words
        PROVE  m1.word[w] = IF p.filesz > 0 /\ fileEnd <= w /\ w < zeroTo THEN "zero" ELSE m.word[w]
    BY <2>18, <2>19 DEF ClearedFrom
  <2>10. p.filesz > 0 => zeroTo = IF memEnd < bss THEN memEnd ELSE bss
    BY DEF zeroTo
  <2> HIDE DEF bss
  <2>20. ZeroedFrom(Dl!ZeroPages(m1, bss, top), m1, bss, top)
    BY <2>4, <2>5, <2>8, ClearedWords
  <2>11. Shape(m2)
    BY <2>1, <2>20 DEF ZeroedFrom
  <2>12. ASSUME NEW n \in Dl!Pages
         PROVE  m2.page[n] = IF bss <= n * PAGE /\ n * PAGE < top THEN Dl!Mapped(TRUE) ELSE m.page[n]
    BY <2>1, <2>8, <2>20 DEF ZeroedFrom
  <2>13. ASSUME NEW w \in Dl!Words
         PROVE  m2.word[w] = IF bss <= w /\ w < top THEN "zero" ELSE m1.word[w]
    BY <2>1, <2>20 DEF ZeroedFrom
  <2>14. ASSUME NEW n \in Dl!Pages
         PROVE  /\ \/ m2.page[n] = m.page[n]
                   \/ /\ down <= n * PAGE /\ n * PAGE < top
                      /\ m2.page[n] \in {Dl!Mapped(TRUE), Dl!Mapped(FALSE)}
                /\ p.filesz > 0 /\ n * PAGE < fileEnd => m2.page[n] = m.page[n]
    <3> DEFINE np == n * PAGE
    <3>1. np \in Nat
      BY PageTimes
    <3>2. m2.page[n] = IF bss <= np /\ np < top THEN Dl!Mapped(TRUE) ELSE m.page[n]
      BY <2>12
    <3> HIDE DEF np
    <3>3. bss <= np => down <= np
      BY <2>2, <2>5, <3>1
    <3>4. p.filesz > 0 /\ np < fileEnd => ~(bss <= np)
      BY <1>0, <2>5, <2>6, <3>1
    <3>5. /\ \/ m2.page[n] = m.page[n]
             \/ /\ down <= np /\ np < top
                /\ m2.page[n] \in {Dl!Mapped(TRUE), Dl!Mapped(FALSE)}
          /\ p.filesz > 0 /\ np < fileEnd => m2.page[n] = m.page[n]
      BY <3>2, <3>3, <3>4
    <3> QED BY <3>5 DEF np
  <2>15. ASSUME NEW w \in Dl!Words
         PROVE  /\ m2.word[w] = m.word[w] \/ (down <= w /\ w < top)
                /\ p.vaddr <= w /\ w < fileEnd => m2.word[w] = m.word[w]
                /\ fileEnd <= w /\ w < memEnd => m2.word[w] = "zero"
    <3>1. w \in Nat
      BY PageOfWord
    <3>2. m2.word[w] = IF (bss <= w /\ w < top) \/ (p.filesz > 0 /\ fileEnd <= w /\ w < zeroTo)
                       THEN "zero" ELSE m.word[w]
      <4>1. m2.word[w] = IF bss <= w /\ w < top THEN "zero" ELSE m1.word[w]
        BY <2>13
      <4>2. m1.word[w] = IF p.filesz > 0 /\ fileEnd <= w /\ w < zeroTo THEN "zero" ELSE m.word[w]
        BY <2>9
      <4> QED BY <4>1, <4>2
    <3>3. bss <= w \/ fileEnd <= w => down <= w
      BY <1>0, <2>2, <2>5, <3>1
    <3>4. w < zeroTo => w < top
      BY <2>4, <2>5, <3>1
    <3>5. p.vaddr <= w /\ w < fileEnd => p.filesz > 0 /\ ~(bss <= w) /\ ~(fileEnd <= w)
      BY <1>0, <2>5, <2>6, <3>1
    <3>6. fileEnd <= w /\ w < memEnd =>
            (bss <= w /\ w < top) \/ (p.filesz > 0 /\ fileEnd <= w /\ w < zeroTo)
      <4> SUFFICES ASSUME fileEnd <= w, w < memEnd
                   PROVE  (bss <= w /\ w < top) \/ (p.filesz > 0 /\ fileEnd <= w /\ w < zeroTo)
        OBVIOUS
      <4>1. w < top
        BY <1>0, <2>4, <3>1
      <4>2. p.filesz = 0 => bss <= w
        BY <1>0, <2>5, <2>7, <3>1
      <4>3. p.filesz > 0 /\ ~(bss <= w) => w < zeroTo
        BY <1>0, <2>5, <2>10, <3>1
      <4>4. p.filesz = 0 \/ p.filesz > 0
        BY <1>0
      <4> QED BY <4>1, <4>2, <4>3, <4>4
    <3> QED BY <3>2, <3>3, <3>4, <3>5, <3>6
  <2>16. ASSUME NEW w \in Dl!Words, fileEnd <= w, w < memEnd,
                p.filesz = 0 \/ up <= Dl!PageOf(w) * PAGE
         PROVE  m2.page[Dl!PageOf(w)] = Dl!Mapped(TRUE)
    <3> DEFINE n == Dl!PageOf(w)
               np == n * PAGE
    <3>1. n \in Dl!Pages /\ w \in Nat
      BY PageOfWord
    <3>2. np \in Nat /\ np <= w /\ w < np + PAGE /\ Boundary(np)
      BY <3>1, PageBounds
    <3>3. m2.page[n] = IF bss <= np /\ np < top THEN Dl!Mapped(TRUE) ELSE m.page[n]
      BY <2>12, <3>1
    <3> HIDE DEF n, np
    <3>4. np < top
      BY <2>4, <2>16, <3>1, <3>2, <1>0
    <3>5. CASE p.filesz = 0
      <4>1. down <= w
        BY <1>0, <2>2, <2>16, <3>1
      <4>2. down <= np
        <5> SUFFICES ASSUME np < down PROVE FALSE
          BY <2>2, <3>2
        <5>1. np + PAGE <= down
          BY <2>2, <3>2, BoundariesApart
        <5> QED BY <2>2, <3>1, <3>2, <4>1, <5>1, ImageAssumption
      <4> QED BY <2>7, <3>3, <3>4, <3>5, <4>2 DEF n
    <3>6. CASE p.filesz > 0
      <4>1. up <= np
        BY <2>16, <3>6, <1>0 DEF n, np
      <4> QED BY <2>6, <3>3, <3>4, <3>6, <4>1 DEF n
    <3>7. p.filesz = 0 \/ p.filesz > 0
      BY <1>0
    <3> QED BY <3>5, <3>6, <3>7
  <2>17. Only(m2, m, down, top)
    BY <2>11, <2>14, <2>15 DEF Only
  <2> QED BY <2>14, <2>15, <2>16, <2>17 DEF m2, fileEnd, memEnd, down, up, top, TailZeroed
<1> QED BY <1>1, <1>2

LEMMA UpMonotone ==
  ASSUME NEW a \in Nat, NEW b \in Nat, a <= b
  PROVE  Dl!Up(a) <= Dl!Up(b)
<1> DEFINE x == Dl!Up(a)
           y == Dl!Up(b)
<1>1. x \in Nat /\ Boundary(x) /\ x < a + PAGE
  BY UpBounds
<1>2. y \in Nat /\ Boundary(y) /\ b <= y
  BY UpBounds
<1> HIDE DEF x, y
<1> SUFFICES ASSUME y < x PROVE FALSE
  BY <1>1, <1>2 DEF x, y
<1>3. y + PAGE <= x
  BY <1>1, <1>2, BoundariesApart
<1> QED BY <1>1, <1>2, <1>3, ImageAssumption

\* The page of a word that is not below a boundary is not below it either.
LEMMA PageNotBelow ==
  ASSUME NEW w \in Nat, NEW x \in Nat, Boundary(x), x <= w
  PROVE  x <= Dl!PageOf(w) * PAGE
<1> DEFINE np == Dl!PageOf(w) * PAGE
<1>1. np \in Nat /\ Boundary(np) /\ w < np + PAGE
  BY PageBounds
<1> HIDE DEF np
<1> SUFFICES ASSUME np < x PROVE FALSE
  BY <1>1 DEF np
<1>2. np + PAGE <= x
  BY <1>1, BoundariesApart
<1> QED BY <1>1, <1>2, ImageAssumption

LEMMA OnlyTransitive ==
  ASSUME NEW m, NEW m1, NEW m2, NEW a, NEW b \in Nat, NEW c \in Nat, b <= c,
         Only(m1, m, a, b), Only(m2, m1, a, c)
  PROVE  Only(m2, m, a, c)
<1>1. \A n \in Dl!Pages : n * PAGE < b => n * PAGE < c
  BY PageTimes
<1>2. \A w \in Dl!Words : w < b => w < c
  BY PageOfWord
<1> QED BY <1>1, <1>2 DEF Only

(***************************************************************************)
(* A segment is mapped: the pages and words around it are what they were,  *)
(* its own are the file's and the zeros behind it.                         *)
(***************************************************************************)
LEMMA SegmentMaps ==
  ASSUME NEW m, Shape(m), NEW p, Sound(p)
  PROVE  LET m2 == Dl!ZeroPart(Dl!FilePart(m, p), p) IN
         /\ Only(m2, m, Dl!Down(p.vaddr), Dl!Up(p.vaddr + p.memsz))
         /\ \A w \in Dl!Words : p.vaddr <= w /\ w < p.vaddr + p.memsz =>
              /\ m2.page[Dl!PageOf(w)] = Dl!Mapped(p.write)
              /\ m2.word[w] = Dl!Content(p, w)
<1> DEFINE m1 == Dl!FilePart(m, p)
           m2 == Dl!ZeroPart(m1, p)
           down == Dl!Down(p.vaddr)
           fileEnd == p.vaddr + p.filesz
           memEnd == p.vaddr + p.memsz
           up == Dl!Up(fileEnd)
           top == Dl!Up(memEnd)
<1>0. /\ p.vaddr \in Nat /\ p.memsz \in Nat /\ p.filesz \in Nat
      /\ fileEnd \in Nat /\ memEnd \in Nat /\ fileEnd <= memEnd
      /\ fileEnd = p.vaddr <=> p.filesz = 0
      /\ p.memsz > p.filesz => p.write
      /\ fileEnd < memEnd => p.memsz > p.filesz
      /\ p.write \in BOOLEAN
  BY SoundHeader
<1>1. /\ Only(m1, m, down, up)
      /\ p.filesz > 0 =>
           /\ \A n \in Dl!Pages : down <= n * PAGE /\ n * PAGE < fileEnd =>
                m1.page[n] = Dl!Mapped(p.write)
           /\ \A w \in Dl!Words : p.vaddr <= w /\ w < fileEnd =>
                m1.word[w] = <<"file", p.offset + w - p.vaddr>>
  BY FilePartMaps
<1>2. Shape(m1)
  BY <1>1 DEF Only
<1>3. /\ Only(m2, m1, down, top)
      /\ p.filesz > 0 => \A n \in Dl!Pages : n * PAGE < fileEnd => m2.page[n] = m1.page[n]
      /\ \A w \in Dl!Words : p.vaddr <= w /\ w < fileEnd => m2.word[w] = m1.word[w]
      /\ \A w \in Dl!Words : fileEnd <= w /\ w < memEnd =>
           /\ m2.word[w] = "zero"
           /\ p.filesz = 0 \/ up <= Dl!PageOf(w) * PAGE =>
                m2.page[Dl!PageOf(w)] = Dl!Mapped(TRUE)
  <2>1. TailZeroed(m2, m1, p)
    <3> HIDE DEF m1
    <3> QED BY <1>2, ZeroPartClears
  <2> HIDE DEF m1, m2
  <2> QED BY <2>1 DEF TailZeroed
<1>4. up \in Nat /\ top \in Nat /\ up <= top /\ down \in Nat /\ Boundary(down) /\ down <= p.vaddr
      /\ Boundary(up) /\ up < fileEnd + PAGE
  <2> HIDE DEF fileEnd, memEnd
  <2> QED BY <1>0, UpBounds, UpMonotone, PageBounds
<1> HIDE DEF m1, m2, down, up, top, fileEnd, memEnd
<1>5. Only(m2, m, down, top)
  BY <1>1, <1>3, <1>4, OnlyTransitive
<1>6. ASSUME NEW w \in Dl!Words, p.vaddr <= w, w < memEnd
      PROVE  /\ m2.page[Dl!PageOf(w)] = Dl!Mapped(p.write)
             /\ m2.word[w] = Dl!Content(p, w)
  <2> DEFINE n == Dl!PageOf(w)
             np == n * PAGE
  <2>1. n \in Dl!Pages /\ w \in Nat
    BY PageOfWord
  <2>2. np \in Nat /\ Boundary(np) /\ np <= w
    BY <2>1, PageBounds
  <2>3. down <= np
    <3>1. down <= w
      BY <1>0, <1>4, <1>6, <2>1
    <3> QED BY <1>4, <2>1, <3>1, PageNotBelow
  <2>4. m2.word[w] = Dl!Content(p, w)
    <3>1. CASE w < fileEnd
      <4>1. p.filesz > 0
        BY <1>0, <1>6, <2>1, <3>1
      <4>2. m2.word[w] = <<"file", p.offset + w - p.vaddr>>
        BY <1>1, <1>3, <1>6, <3>1, <4>1
      <4> QED BY <3>1, <4>2 DEF Dl!Content, fileEnd
    <3>2. CASE ~(w < fileEnd)
      <4>1. fileEnd <= w
        BY <1>0, <2>1, <3>2
      <4>2. m2.word[w] = "zero"
        BY <1>3, <1>6, <4>1
      <4> QED BY <3>2, <4>2 DEF Dl!Content, fileEnd
    <3> QED BY <3>1, <3>2
  <2> HIDE DEF np
  <2>5. CASE p.filesz > 0 /\ np < fileEnd
    <3>1. m1.page[n] = Dl!Mapped(p.write)
      BY <1>1, <2>1, <2>3, <2>5 DEF np
    <3>2. m2.page[n] = m1.page[n]
      BY <1>3, <2>1, <2>5 DEF np
    <3> QED BY <2>4, <3>1, <3>2
  <2>6. CASE ~(p.filesz > 0 /\ np < fileEnd)
    <3>1. fileEnd <= w
      BY <1>0, <1>6, <2>1, <2>2, <2>6
    <3>2. p.write
      BY <1>0, <1>6, <2>1, <3>1
    <3>3. p.filesz > 0 => up <= np
      <4> SUFFICES ASSUME p.filesz > 0, np < up PROVE FALSE
        BY <1>4, <2>2
      <4>1. np + PAGE <= up
        BY <1>4, <2>2, BoundariesApart
      <4>2. fileEnd <= np
        BY <1>0, <2>2, <2>6
      <4> QED BY <1>0, <1>4, <2>2, <4>1, <4>2, ImageAssumption
    <3>4. p.filesz = 0 \/ p.filesz > 0
      BY <1>0
    <3>5. m2.page[n] = Dl!Mapped(TRUE)
      BY <1>3, <1>6, <3>1, <3>3, <3>4 DEF np
    <3>6. p.write = TRUE
      BY <1>0, <3>2
    <3> QED BY <2>4, <3>5, <3>6
  <2> QED BY <2>5, <2>6
<1> QED BY <1>5, <1>6 DEF m1, m2, down, top, memEnd

\* What a reservation gives back is nobody's, as everything else is.
LEMMA GivenBack == ASSUME ImageInv PROVE Dl!Unmapped = Dl!Nothing
<1>1. \A n \in Dl!Pages : (IF n \in Dl!PagesOf(dl.min, dl.max) THEN Dl!Free ELSE mem.page[n]) = Dl!Free
  BY DEF ImageInv, Confined, Inner
<1>2. ASSUME NEW w \in Dl!Words
      PROVE  (IF w \in dl.min .. dl.max - 1 THEN "other" ELSE mem.word[w]) = "other"
  <2>1. w \in Nat /\ dl.min \in Int /\ dl.max \in Int
    BY PageOfWord DEF ImageInv, ImageTypeOK
  <2>2. CASE w \in dl.min .. dl.max - 1
    BY <2>2
  <2>3. CASE w \notin dl.min .. dl.max - 1
    <3>1. w < dl.min \/ w >= dl.max
      BY <2>1, <2>3
    <3>2. mem.word[w] = "other"
      BY <3>1 DEF ImageInv, Confined
    <3> QED BY <2>3, <3>2
  <2> QED BY <2>2, <2>3
<1> QED
  <2> DEFINE pages == [n \in Dl!Pages |-> IF n \in Dl!PagesOf(dl.min, dl.max) THEN Dl!Free ELSE mem.page[n]]
             words == [w \in Dl!Words |-> IF w \in dl.min .. dl.max - 1 THEN "other" ELSE mem.word[w]]
  <2>1. pages = [n \in Dl!Pages |-> Dl!Free]
    BY <1>1
  <2>2. words = [w \in Dl!Words |-> "other"]
    BY <1>2
  <2>3. Dl!Unmapped = [page |-> pages, word |-> words]
    BY DEF Dl!Unmapped
  <2> HIDE DEF pages, words
  <2> QED BY <2>1, <2>2, <2>3 DEF Dl!Nothing

LEMMA ClosedIsNothing ==
  ASSUME ImageInv, dl.pc \in {"closed", "failed", "headers"}
  PROVE  mem = Dl!Nothing /\ relocated = {}
<1>1. dl.min = 0 /\ dl.max = 0 /\ relocated = {}
  BY DEF ImageInv, ImageStages
<1>2. \A n \in Dl!Pages : mem.page[n] = Dl!Free
  <2>1. \A n \in Dl!Pages : ~Inner(n)
    BY <1>1, PageTimes DEF Inner, Dl!PagesOf
  <2> QED BY <2>1 DEF ImageInv, Confined
<1>3. \A w \in Dl!Words : mem.word[w] = "other"
  BY <1>1, PageOfWord DEF ImageInv, Confined
<1> DEFINE pages == mem.page
           words == mem.word
<1>4. mem = [page |-> pages, word |-> words] /\ pages = [n \in Dl!Pages |-> pages[n]]
      /\ words = [w \in Dl!Words |-> words[w]]
  BY DEF ImageInv, ImageTypeOK
<1> HIDE DEF pages, words
<1>5. pages = [n \in Dl!Pages |-> Dl!Free]
  BY <1>2, <1>4 DEF pages
<1>6. words = [w \in Dl!Words |-> "other"]
  BY <1>3, <1>4 DEF words
<1> QED BY <1>1, <1>4, <1>5, <1>6 DEF Dl!Nothing

\* No library in memory, and none on the way but for an open file.
LEMMA NothingHolds ==
  ASSUME dl = Dl!NoImage \/ dl = [Dl!NoImage EXCEPT !.pc = "failed"]
           \/ dl = [Dl!NoImage EXCEPT !.pc = "headers", !.fd = TRUE],
         mem = Dl!Nothing, relocated = {}
  PROVE  ImageInv
<1>1. PICK c \in {"closed", "failed", "headers"}, b \in BOOLEAN :
        /\ dl = [pc |-> c, fd |-> b, phdrs |-> <<>>, segs |-> <<>>, left |-> 0,
                 min |-> 0, max |-> 0, tables |-> <<>>]
        /\ c # "headers" => ~b
  <2>1. Dl!NoImage = [pc |-> "closed", fd |-> FALSE, phdrs |-> <<>>, segs |-> <<>>, left |-> 0,
                      min |-> 0, max |-> 0, tables |-> <<>>]
    BY DEF Dl!NoImage
  <2>2. CASE dl = Dl!NoImage
    BY <2>1, <2>2
  <2>3. CASE dl = [Dl!NoImage EXCEPT !.pc = "failed"]
    BY <2>1, <2>3
  <2>4. CASE dl = [Dl!NoImage EXCEPT !.pc = "headers", !.fd = TRUE]
    BY <2>1, <2>4
  <2> QED BY <2>2, <2>3, <2>4
<1>2. /\ dl.phdrs = <<>> /\ dl.segs = <<>> /\ dl.left = 0 /\ dl.min = 0 /\ dl.max = 0
      /\ dl.tables = <<>> /\ dl.pc = c /\ dl.fd = b
  BY <1>1
<1>3. /\ mem = [page |-> mem.page, word |-> mem.word]
      /\ mem.page = [n \in Dl!Pages |-> Dl!Free]
      /\ mem.word = [w \in Dl!Words |-> "other"]
  BY DEF Dl!Nothing
<1>4. \A n \in Dl!Pages : ~Inner(n)
  BY <1>2, PageTimes DEF Inner, Dl!PagesOf
<1>5. Dl!Loads(dl.phdrs) = {} /\ DOMAIN dl.segs = {}
  BY <1>2 DEF Dl!Loads
<1>6. ImageTypeOK
  <2> DEFINE TableSet == {<<>>} \cup Tables
             HeaderSeqs == Seq(Phdrs)
             SegmentSeqs == Seq(Segment)
  <2>1. <<>> \in HeaderSeqs /\ <<>> \in SegmentSeqs /\ <<>> \in TableSet
    OBVIOUS
  <2> HIDE DEF TableSet, HeaderSeqs, SegmentSeqs
  <2>2. dl \in [pc : {"closed", "failed", "headers", "map", "relocate", "open"}, fd : BOOLEAN,
             phdrs : HeaderSeqs, segs : SegmentSeqs, left : Int, min : Int, max : Int,
             tables : TableSet]
    BY <1>1, <2>1
  <2> QED BY <1>3, <2>2 DEF ImageTypeOK, TableSet, HeaderSeqs, SegmentSeqs
<1>7. ImageStages
  BY <1>1, <1>2 DEF ImageStages
<1>8. Confined
  BY <1>3, <1>4 DEF Confined
<1>9. HeadersFit /\ SegmentsLaid
  BY <1>5 DEF HeadersFit, SegmentsLaid
<1>10. Dl!WritesAllowed
  BY DEF Dl!WritesAllowed
<1> QED BY <1>6, <1>7, <1>8, <1>9, <1>10 DEF ImageInv

LEMMA NothingHoldsNext ==
  (dl = Dl!NoImage \/ dl = [Dl!NoImage EXCEPT !.pc = "failed"]
     \/ dl = [Dl!NoImage EXCEPT !.pc = "headers", !.fd = TRUE])'
    /\ (mem = Dl!Nothing /\ relocated = {})' => ImageInv'
<1>1. (dl = Dl!NoImage \/ dl = [Dl!NoImage EXCEPT !.pc = "failed"]
        \/ dl = [Dl!NoImage EXCEPT !.pc = "headers", !.fd = TRUE])
        /\ (mem = Dl!Nothing /\ relocated = {}) => ImageInv
  BY NothingHolds
<1> QED BY <1>1, PTL

LEMMA FailImage == ASSUME ImageInv, Dl!Fail PROVE ImageInv'
  BY GivenBack, NothingHoldsNext DEF Dl!Fail, Dl!Nothing, Dl!NoImage

LEMMA OpenImage == ASSUME ImageInv, Dl!DlOpen PROVE ImageInv'
<1>1. mem' = Dl!Nothing /\ relocated' = {}
  BY ClosedIsNothing DEF Dl!DlOpen
<1>2. Dl!Nothing' = Dl!Nothing /\ Dl!NoImage' = Dl!NoImage
  BY DEF Dl!Nothing, Dl!NoImage
<1> QED BY <1>1, <1>2, NothingHoldsNext DEF Dl!DlOpen

LEMMA CloseImage == ASSUME ImageInv, Dl!DlClose PROVE ImageInv'
  BY GivenBack, NothingHoldsNext DEF Dl!DlClose, Dl!Nothing, Dl!NoImage

LEMMA SharePageSym ==
  ASSUME NEW p, NEW q, Dl!SharePage(p, q) PROVE Dl!SharePage(q, p)
  BY DEF Dl!SharePage

LEMMA HeaderImage == ASSUME ImageInv, Dl!CheckHeader PROVE ImageInv'
<1>1. PICK p \in Phdrs :
        IF Dl!Acceptable(dl.phdrs, p)
        THEN dl' = [dl EXCEPT !.phdrs = Append(@, p)] /\ UNCHANGED <<mem, relocated>>
        ELSE Dl!Fail
  BY DEF Dl!CheckHeader
<1>2. CASE ~Dl!Acceptable(dl.phdrs, p)
  BY <1>1, <1>2, FailImage
<1>3. CASE Dl!Acceptable(dl.phdrs, p)
  <2>1. dl.pc = "headers" /\ dl.segs = <<>> /\ dl.phdrs \in Seq(Phdrs)
    BY DEF Dl!CheckHeader, ImageInv, ImageStages, ImageTypeOK
  <2>2. /\ dl'.pc = dl.pc /\ dl'.fd = dl.fd /\ dl'.segs = dl.segs /\ dl'.min = dl.min
        /\ dl'.max = dl.max /\ dl'.left = dl.left
        /\ dl'.phdrs = Append(dl.phdrs, p) /\ mem' = mem /\ relocated' = relocated
    BY <1>1, <1>3 DEF ImageInv, ImageTypeOK
  <2>3. ImageTypeOK'
    <3>1. Append(dl.phdrs, p) \in Seq(Phdrs)
      BY <2>1
    <3> QED BY <1>1, <1>3, <2>2, <3>1 DEF ImageInv, ImageTypeOK, Dl!Pages, Dl!Words
  <2>4. ImageStages'
    BY <2>1, <2>2 DEF ImageInv, ImageStages
  <2>5. Confined'
    BY <2>2 DEF ImageInv, Confined, Inner, Dl!Pages, Dl!Words, Dl!PagesOf, Dl!Free
  <2>6. HeadersFit'
    <3> DEFINE hs == dl.phdrs
               hs2 == Append(hs, p)
    <3>1. /\ Len(hs) \in Nat /\ DOMAIN hs = 1 .. Len(hs)
          /\ DOMAIN hs2 = 1 .. Len(hs) + 1 /\ hs2[Len(hs) + 1] = p
          /\ \A k \in 1 .. Len(hs) : hs2[k] = hs[k]
      BY <2>1
    <3> HIDE DEF hs, hs2
    <3>2. ASSUME NEW k \in Dl!Loads(hs2)
          PROVE  \/ k \in Dl!Loads(hs) /\ hs2[k] = hs[k]
                 \/ k = Len(hs) + 1 /\ hs2[k] = p /\ Dl!IsLoad(p)
      BY <3>1 DEF Dl!Loads
    <3>3. Dl!IsLoad(p) => Dl!Plausible(p) /\ \A k \in Dl!Loads(hs) : ~Dl!SharePage(p, hs[k])
      BY <1>3 DEF Dl!Acceptable, hs
    <3>4. \A k \in Dl!Loads(hs) :
            /\ Dl!Plausible(hs[k])
            /\ \A j \in Dl!Loads(hs) : j # k => ~Dl!SharePage(hs[k], hs[j])
      BY DEF ImageInv, HeadersFit, hs
    <3>5. ASSUME NEW k \in Dl!Loads(hs2), NEW j \in Dl!Loads(hs2), j # k
          PROVE  Dl!Plausible(hs2[k]) /\ ~Dl!SharePage(hs2[k], hs2[j])
      BY <3>2, <3>3, <3>4, <3>5, SharePageSym
    <3>6. ASSUME NEW k \in Dl!Loads(hs2) PROVE Dl!Plausible(hs2[k])
      BY <3>2, <3>3, <3>4
    <3>7. dl'.phdrs = hs2
      BY <2>2 DEF hs, hs2
    <3> QED BY <3>5, <3>6, <3>7 DEF HeadersFit, Dl!Loads, Dl!Plausible, Dl!SharePage, Dl!IsLoad, Dl!Down, Dl!Up
  <2>7. SegmentsLaid' /\ Dl!WritesAllowed'
    <3>1. relocated = {}
      BY <2>1, ClosedIsNothing
    <3>2. DOMAIN dl'.segs = {} /\ relocated' = {}
      BY <2>1, <2>2, <3>1
    <3> QED BY <3>2 DEF SegmentsLaid, Dl!WritesAllowed
  <2> QED BY <2>3, <2>4, <2>5, <2>6, <2>7 DEF ImageInv
<1> QED BY <1>2, <1>3

LEMMA LoadsBounded ==
  ASSUME ImageInv, Dl!Loads(dl.phdrs) # {}
  PROVE  Dl!LoadMin \in Int /\ Dl!LoadMax \in Int
<1> DEFINE ks == Dl!Loads(dl.phdrs)
           starts == {dl.phdrs[k].vaddr : k \in ks}
           ends == {dl.phdrs[k].vaddr + dl.phdrs[k].memsz : k \in ks}
           top == MAX_VADDR + MAX_SPAN
<1>1. ASSUME NEW k \in ks
      PROVE  /\ dl.phdrs[k].vaddr \in Nat /\ dl.phdrs[k].vaddr + dl.phdrs[k].memsz \in Nat
             /\ dl.phdrs[k].vaddr + dl.phdrs[k].memsz <= top
  <2>1. dl.phdrs[k] \in Phdrs
    BY DEF ImageInv, ImageTypeOK, Dl!Loads
  <2>2. Dl!Plausible(dl.phdrs[k])
    BY DEF ImageInv, HeadersFit
  <2> QED BY <2>1, <2>2, ImageAssumption DEF Dl!Plausible
<1>2. starts \subseteq Nat /\ starts # {} /\ ends \subseteq Nat /\ ends # {}
  BY <1>1
<1>3. top \in Nat /\ \A x \in ends : x <= top
  BY <1>1, ImageAssumption
<1> HIDE DEF starts, ends, top
<1>4. PICK l \in starts : \A x \in starts : l <= x
  BY <1>2, HasLeast
<1>5. PICK g \in ends : \A x \in ends : x <= g
  <2>1. ends \subseteq 0 .. top
    BY <1>2, <1>3
  <2> QED BY <1>2, <1>3, <2>1, HasGreatest
<1>6. Dl!LowestOf(starts) \in Nat
  BY <1>2, <1>4 DEF Dl!LowestOf
<1>7. Dl!HighestOf(ends) \in Nat
  <2>1. \A x \in ends : g >= x
    BY <1>2, <1>5
  <2> QED BY <1>2, <2>1 DEF Dl!HighestOf
<1>8. Dl!LoadMin = Dl!Down(Dl!LowestOf(starts))
  BY DEF Dl!LoadMin, starts
<1>9. Dl!LoadMax = Dl!Up(Dl!HighestOf(ends))
  BY DEF Dl!LoadMax, ends
<1> QED BY <1>6, <1>7, <1>8, <1>9, PageBounds, UpBounds

LEMMA ReserveImage == ASSUME ImageInv, Dl!Reserve PROVE ImageInv'
<1> DEFINE lo == Dl!LoadMin
           hi == Dl!LoadMax
           pages == [n \in Dl!Pages |-> IF n \in Dl!PagesOf(lo, hi) THEN Dl!Reserved ELSE mem.page[n]]
<1>0. SUFFICES ASSUME Dl!Loads(dl.phdrs) # {},
                      dl' = [dl EXCEPT !.pc = "map", !.min = lo, !.max = hi, !.left = 1],
                      mem' = [mem EXCEPT !.page = pages],
                      relocated' = relocated
               PROVE  ImageInv'
  BY FailImage DEF Dl!Reserve
<1>1. lo \in Int /\ hi \in Int
  BY <1>0, LoadsBounded
<1> HIDE DEF lo, hi
<1>2. dl.pc = "headers" /\ Len(dl.phdrs) = PHNUM /\ dl.segs = <<>> /\ relocated = {}
  BY ClosedIsNothing DEF Dl!Reserve, ImageInv, ImageStages
<1>3. mem = Dl!Nothing
  BY <1>2, ClosedIsNothing
<1>4. /\ dl'.pc = "map" /\ dl'.segs = <<>> /\ dl'.min = lo /\ dl'.max = hi /\ dl'.left = 1
      /\ dl'.phdrs = dl.phdrs /\ relocated' = {}
  BY <1>0, <1>2 DEF ImageInv, ImageTypeOK
<1>5. /\ mem' = [page |-> mem'.page, word |-> mem'.word]
      /\ mem'.page = pages /\ mem'.word = [w \in Dl!Words |-> "other"]
  <2> DEFINE ps == [n \in Dl!Pages |-> Dl!Free]
             ws == [w \in Dl!Words |-> "other"]
  <2>1. mem = [page |-> ps, word |-> ws]
    BY <1>3 DEF Dl!Nothing
  <2> HIDE DEF ps, ws, pages
  <2>2. mem' = [page |-> pages, word |-> ws]
    BY <1>0, <2>1
  <2> QED BY <2>2 DEF ws
<1>6. \A n \in Dl!Pages : mem.page[n] = Dl!Free
  BY <1>3 DEF Dl!Nothing
<1>7. ImageTypeOK'
  <2>1. pages = [n \in Dl!Pages |-> pages[n]]
    OBVIOUS
  <2> HIDE DEF pages
  <2>2. dl' \in [pc : {"closed", "failed", "headers", "map", "relocate", "open"}, fd : BOOLEAN,
             phdrs : Seq(Phdrs), segs : Seq(Segment), left : Int, min : Int, max : Int,
             tables : {<<>>} \cup Tables]
    <3>1. /\ dl.fd \in BOOLEAN /\ dl.phdrs \in Seq(Phdrs) /\ dl.segs \in Seq(Segment)
          /\ dl.tables \in {<<>>} \cup Tables
      BY DEF ImageInv, ImageTypeOK
    <3>2. dl' = [pc |-> "map", fd |-> dl.fd, phdrs |-> dl.phdrs, segs |-> dl.segs, left |-> 1,
                 min |-> lo, max |-> hi, tables |-> dl.tables]
      BY <1>0 DEF ImageInv, ImageTypeOK
    <3> QED BY <1>1, <3>1, <3>2
  <2> QED BY <1>5, <2>1, <2>2 DEF ImageTypeOK, Dl!Pages, Dl!Words
<1>8. ImageStages'
  BY <1>2, <1>4 DEF ImageStages
<1>9. Confined'
  <2>1. ASSUME NEW n \in Dl!Pages
        PROVE  IF n \in Dl!PagesOf(lo, hi) THEN pages[n].owner # "other" ELSE pages[n] = Dl!Free
    BY <1>6 DEF Dl!Reserved
  <2>2. \A w \in Dl!Words : mem'.word[w] = "other"
    BY <1>5
  <2> HIDE DEF pages
  <2> QED BY <1>4, <1>5, <2>1, <2>2 DEF Confined, Inner, Dl!Pages, Dl!Words, Dl!PagesOf, Dl!Free
<1>10. HeadersFit'
  BY <1>4 DEF ImageInv, HeadersFit, Dl!Loads, Dl!Plausible, Dl!SharePage, Dl!IsLoad, Dl!Down, Dl!Up
<1>11. SegmentsLaid' /\ Dl!WritesAllowed'
  BY <1>4 DEF SegmentsLaid, Dl!WritesAllowed
<1> QED BY <1>7, <1>8, <1>9, <1>10, <1>11 DEF ImageInv

\* What the header of a segment in the image says.
LEMMA LoadHeader ==
  ASSUME ImageInv, NEW h \in Dl!Loads(dl.phdrs)
  PROVE  Sound(dl.phdrs[h]) /\ h \in Nat
<1>1. h \in DOMAIN dl.phdrs /\ dl.phdrs \in Seq(Phdrs)
  BY DEF ImageInv, ImageTypeOK, Dl!Loads
<1>2. Dl!Plausible(dl.phdrs[h])
  BY DEF ImageInv, HeadersFit
<1> QED BY <1>1, <1>2 DEF Sound

\* Another segment, which shares no page, leaves a segment as it is.
LEMMA OthersStay ==
  ASSUME ImageInv, NEW h \in Dl!Loads(dl.phdrs), NEW j \in Dl!Loads(dl.phdrs), h # j,
         NEW p, NEW q, p = dl.phdrs[h], q = dl.phdrs[j],
         Laid(p), relocated' = relocated,
         Only(mem', mem, Dl!Down(q.vaddr), Dl!Up(q.vaddr + q.memsz))
  PROVE  Laid(p)'
<1> DEFINE endP == p.vaddr + p.memsz
           endQ == q.vaddr + q.memsz
<1>1. Sound(p) /\ Sound(q)
  BY LoadHeader
<1>2. p.vaddr \in Nat /\ endP \in Nat /\ q.vaddr \in Nat /\ endQ \in Nat
  BY <1>1, SoundHeader
<1>3. ~Dl!SharePage(p, q)
  BY DEF ImageInv, HeadersFit
<1> DEFINE downP == Dl!Down(p.vaddr)
           upP == Dl!Up(endP)
           downQ == Dl!Down(q.vaddr)
           upQ == Dl!Up(endQ)
<1>4. downP >= upQ \/ downQ >= upP
  <2>1. ~(downP < upQ) \/ ~(downQ < upP)
    BY <1>3 DEF Dl!SharePage
  <2>2. downP \in Nat /\ upP \in Nat /\ downQ \in Nat /\ upQ \in Nat
    <3> HIDE DEF endP, endQ
    <3> QED BY <1>2, PageBounds, UpBounds
  <2> HIDE DEF downP, upP, downQ, upQ
  <2> QED BY <2>1, <2>2
<1>5. /\ downP \in Nat /\ downP <= p.vaddr /\ Boundary(downP) /\ upP \in Nat /\ endP <= upP
      /\ downQ \in Nat /\ upQ \in Nat
  <2> HIDE DEF endP, endQ
  <2> QED BY <1>2, PageBounds, UpBounds
<1>6. Only(mem', mem, downQ, upQ)
  OBVIOUS
<1> HIDE DEF downP, upP, downQ, upQ, endQ
<1>7. ASSUME NEW w \in Dl!Words, p.vaddr <= w, w < endP
      PROVE  /\ mem'.page[Dl!PageOf(w)] = mem.page[Dl!PageOf(w)]
             /\ mem'.word[w] = mem.word[w]
  <2> DEFINE n == Dl!PageOf(w)
             np == n * PAGE
  <2>1. w \in Nat /\ p.vaddr <= w /\ w < endP
    BY <1>7, PageOfWord
  <2>3. n \in Dl!Pages
    BY PageOfWord
  <2>4. np \in Nat /\ np <= w
    BY <2>1, PageBounds
  <2>5. downP <= np
    <3>1. downP <= w
      BY <1>2, <1>5, <2>1
    <3> QED BY <1>5, <2>1, <3>1, PageNotBelow
  <2> HIDE DEF n, np, endP
  <2>6. ~(downQ <= np /\ np < upQ) /\ ~(downQ <= w /\ w < upQ)
    BY <1>2, <1>4, <1>5, <2>1, <2>4, <2>5
  <2> QED BY <1>6, <2>3, <2>6 DEF Only, n, np
<1> QED BY <1>7 DEF Laid, Dl!PageOf, Dl!Mapped, Dl!Content, Dl!Words

\* A program header is done with, and its segment, if it has one, is mapped.
LEMMA NextHeader ==
  ASSUME ImageInv, dl.pc = "map", dl.left <= PHNUM, NEW segs2 \in Seq(Segment),
         dl' = [dl EXCEPT !.left = @ + 1] \/ dl' = [dl EXCEPT !.left = @ + 1, !.segs = segs2],
         Shape(mem'), relocated' = relocated
  PROVE  /\ dl'.phdrs = dl.phdrs /\ dl'.min = dl.min /\ dl'.max = dl.max /\ dl'.pc = "map"
         /\ dl'.left = dl.left + 1 /\ relocated' = {}
         /\ ImageTypeOK' /\ ImageStages' /\ HeadersFit' /\ Dl!WritesAllowed'
<1>1. /\ dl.left \in Int /\ dl.left >= 1 /\ Len(dl.phdrs) = PHNUM /\ relocated = {}
      /\ dl.segs \in Seq(Segment)
  BY DEF ImageInv, ImageStages, ImageTypeOK
<1>2. /\ dl'.phdrs = dl.phdrs /\ dl'.min = dl.min /\ dl'.max = dl.max /\ dl'.pc = "map"
      /\ dl'.left = dl.left + 1 /\ relocated' = {}
  BY <1>1 DEF ImageInv, ImageTypeOK
<1>3. dl' \in [pc : {"closed", "failed", "headers", "map", "relocate", "open"}, fd : BOOLEAN,
             phdrs : Seq(Phdrs), segs : Seq(Segment), left : Int, min : Int, max : Int,
             tables : {<<>>} \cup Tables]
  <2>1. /\ dl.fd \in BOOLEAN /\ dl.phdrs \in Seq(Phdrs) /\ dl.tables \in {<<>>} \cup Tables
        /\ dl.min \in Int /\ dl.max \in Int
    BY DEF ImageInv, ImageTypeOK
  <2>2. PICK s \in {dl.segs, segs2} :
          dl' = [pc |-> "map", fd |-> dl.fd, phdrs |-> dl.phdrs, segs |-> s, left |-> dl.left + 1,
                 min |-> dl.min, max |-> dl.max, tables |-> dl.tables]
    <3>1. CASE dl' = [dl EXCEPT !.left = @ + 1]
      BY <3>1 DEF ImageInv, ImageTypeOK
    <3>2. CASE dl' = [dl EXCEPT !.left = @ + 1, !.segs = segs2]
      BY <3>2 DEF ImageInv, ImageTypeOK
    <3> QED BY <3>1, <3>2
  <2> QED BY <1>1, <2>1, <2>2
<1>4. ImageTypeOK'
  BY <1>3 DEF ImageTypeOK, Shape, Dl!Pages, Dl!Words
<1>5. ImageStages'
  BY <1>1, <1>2 DEF ImageStages
<1>6. HeadersFit'
  BY <1>2 DEF ImageInv, HeadersFit, Dl!Loads, Dl!Plausible, Dl!SharePage, Dl!IsLoad, Dl!Down, Dl!Up
<1>7. Dl!WritesAllowed'
  BY <1>2 DEF Dl!WritesAllowed
<1> QED BY <1>2, <1>4, <1>5, <1>6, <1>7

LEMMA MapImage == ASSUME ImageInv, Dl!MapSegment PROVE ImageInv'
<1> DEFINE h == dl.left
<1>1. /\ dl.pc = "map" /\ h \in Nat /\ h >= 1 /\ h <= PHNUM /\ Len(dl.phdrs) = PHNUM
      /\ dl.phdrs \in Seq(Phdrs) /\ dl.segs \in Seq(Segment) /\ relocated = {} /\ Shape(mem)
  BY ImageAssumption DEF Dl!MapSegment, ImageInv, ImageStages, ImageTypeOK, Shape
<1>2. PICK p \in Phdrs : p = dl.phdrs[h] /\ h \in DOMAIN dl.phdrs
  BY <1>1
<1>3. CASE ~Dl!IsLoad(p)
  <2>1. dl' = [dl EXCEPT !.left = @ + 1] /\ mem' = mem /\ relocated' = relocated
    BY <1>2, <1>3 DEF Dl!MapSegment
  <2>2. Shape(mem')
    BY <1>1, <2>1
  <2>3. /\ dl'.phdrs = dl.phdrs /\ dl'.min = dl.min /\ dl'.max = dl.max /\ dl'.pc = "map"
        /\ dl'.left = h + 1 /\ relocated' = {}
        /\ ImageTypeOK' /\ ImageStages' /\ HeadersFit' /\ Dl!WritesAllowed'
    BY <1>1, <2>1, <2>2, NextHeader
  <2>4. dl'.segs = dl.segs
    BY <2>1 DEF ImageInv, ImageTypeOK
  <2>5. Confined'
    BY <2>1, <2>3 DEF ImageInv, Confined, Inner, Dl!Pages, Dl!Words, Dl!PagesOf, Dl!Free
  <2>6. SegmentsLaid'
    <3>1. \A x : Laid(x) => Laid(x)'
      BY <2>1 DEF Laid, Dl!PageOf, Dl!Mapped, Dl!Content, Dl!Words
    <3>2. \A k \in Dl!Loads(dl.phdrs) : k < h => k < h + 1
      BY <1>1, LoadHeader
    <3>3. SegmentsLaid
      BY DEF ImageInv
    <3> QED BY <1>1, <2>3, <2>4, <3>1, <3>2, <3>3 DEF SegmentsLaid, Dl!Loads, Dl!IsLoad
  <2> QED BY <2>3, <2>5, <2>6 DEF ImageInv
<1>4. CASE Dl!IsLoad(p)
  <2> DEFINE seg == [start |-> p.vaddr, end |-> p.vaddr + p.memsz, write |-> p.write]
             segs2 == Append(dl.segs, seg)
             down == Dl!Down(p.vaddr)
             top == Dl!Up(p.vaddr + p.memsz)
  <2>0. SUFFICES ASSUME Dl!Inside(p), mem' = Dl!ZeroPart(Dl!FilePart(mem, p), p),
                        dl' = [dl EXCEPT !.left = @ + 1, !.segs = segs2],
                        relocated' = relocated
                 PROVE  ImageInv'
    BY <1>2, <1>4, FailImage DEF Dl!MapSegment
  <2>1. h \in Dl!Loads(dl.phdrs)
    BY <1>2, <1>4 DEF Dl!Loads
  <2>2. Sound(p)
    BY <1>2, <2>1, LoadHeader
  <2>3. /\ Only(mem', mem, down, top)
        /\ \A w \in Dl!Words : p.vaddr <= w /\ w < p.vaddr + p.memsz =>
             /\ mem'.page[Dl!PageOf(w)] = Dl!Mapped(p.write)
             /\ mem'.word[w] = Dl!Content(p, w)
    BY <1>1, <2>0, <2>2, SegmentMaps
  <2>4. seg \in Segment
    BY <2>2, SoundHeader DEF Segment
  <2>5. segs2 \in Seq(Segment)
    <3> HIDE DEF seg
    <3> QED BY <1>1, <2>4
  <2>6. Shape(mem')
    BY <2>3 DEF Only
  <2>7. /\ dl'.phdrs = dl.phdrs /\ dl'.min = dl.min /\ dl'.max = dl.max /\ dl'.pc = "map"
        /\ dl'.left = h + 1 /\ relocated' = {}
        /\ ImageTypeOK' /\ ImageStages' /\ HeadersFit' /\ Dl!WritesAllowed'
    <3> HIDE DEF segs2
    <3> QED BY <1>1, <2>0, <2>5, <2>6, NextHeader
  <2>8. dl'.segs = segs2
    BY <2>0 DEF ImageInv, ImageTypeOK
  <2>9. /\ down \in Nat /\ top \in Nat /\ dl.min \in Int /\ dl.max \in Int
        /\ dl.min <= down /\ top <= dl.max
    <3>1. p.vaddr \in Nat /\ p.vaddr + p.memsz \in Nat
      BY <2>2, SoundHeader
    <3>2. dl.min \in Int /\ dl.max \in Int
      BY DEF ImageInv, ImageTypeOK
    <3>3. down \in Nat /\ top \in Nat
      BY <3>1, PageBounds, UpBounds
    <3>4. down >= dl.min /\ top <= dl.max
      BY <2>0 DEF Dl!Inside
    <3> HIDE DEF down, top
    <3> QED BY <3>2, <3>3, <3>4
  <2> HIDE DEF down, top, seg, segs2
  <2>10. Confined'
    <3>1. ASSUME NEW n \in Dl!Pages
          PROVE  IF Inner(n) THEN mem'.page[n].owner # "other" ELSE mem'.page[n] = Dl!Free
      <4> DEFINE np == n * PAGE
      <4>1. np \in Nat
        BY PageTimes
      <4>2. Inner(n) <=> dl.min <= np /\ np < dl.max
        BY DEF Inner, Dl!PagesOf
      <4>3. \/ mem'.page[n] = mem.page[n]
            \/ /\ down <= np /\ np < top
               /\ mem'.page[n] \in {Dl!Mapped(TRUE), Dl!Mapped(FALSE)}
        BY <2>3 DEF Only
      <4>4. IF Inner(n) THEN mem.page[n].owner # "other" ELSE mem.page[n] = Dl!Free
        BY DEF ImageInv, Confined
      <4> HIDE DEF np
      <4>5. down <= np /\ np < top => Inner(n)
        BY <2>9, <4>1, <4>2
      <4> QED BY <4>3, <4>4, <4>5 DEF Dl!Mapped
    <3>2. ASSUME NEW w \in Dl!Words, w < dl.min \/ w >= dl.max PROVE mem'.word[w] = "other"
      <4>1. w \in Nat
        BY PageOfWord
      <4>2. ~(down <= w /\ w < top)
        BY <2>9, <3>2, <4>1
      <4>3. mem.word[w] = "other"
        BY <3>2 DEF ImageInv, Confined
      <4> QED BY <2>3, <4>2, <4>3 DEF Only
    <3> QED BY <2>7, <3>1, <3>2 DEF Confined, Inner, Dl!Pages, Dl!Words, Dl!PagesOf, Dl!Free
  <2>11. Laid(p)'
    BY <2>3, <2>7 DEF Laid, Dl!PageOf, Dl!Mapped, Dl!Content, Dl!Words
  <2>12. SegmentsLaid'
    <3>1. ASSUME NEW k \in 1 .. Len(dl.segs)
          PROVE  \E j \in Dl!Loads(dl.phdrs) :
                   /\ segs2[k].start = dl.phdrs[j].vaddr
                   /\ segs2[k].end = dl.phdrs[j].vaddr + dl.phdrs[j].memsz
                   /\ segs2[k].write = dl.phdrs[j].write
                   /\ dl.min <= segs2[k].start /\ segs2[k].end <= dl.max
                   /\ j < h + 1
                   /\ \E x : x = dl.phdrs[j] /\ Laid(x)'
      <4>1. segs2[k] = dl.segs[k] /\ k \in DOMAIN dl.segs
        BY <1>1 DEF segs2
      <4>2. PICK j \in Dl!Loads(dl.phdrs) :
              /\ dl.segs[k].start = dl.phdrs[j].vaddr
              /\ dl.segs[k].end = dl.phdrs[j].vaddr + dl.phdrs[j].memsz
              /\ dl.segs[k].write = dl.phdrs[j].write
              /\ dl.min <= dl.segs[k].start /\ dl.segs[k].end <= dl.max
              /\ j < h
              /\ Laid(dl.phdrs[j])
        BY <1>1, <4>1 DEF ImageInv, SegmentsLaid
      <4>3. j \in Nat /\ j # h
        BY <1>1, <4>2, LoadHeader
      <4>4. \E x : x = dl.phdrs[j] /\ Laid(x)'
        <5>1. PICK x : x = dl.phdrs[j]
          OBVIOUS
        <5>2. Only(mem', mem, Dl!Down(p.vaddr), Dl!Up(p.vaddr + p.memsz))
          BY <2>3 DEF down, top
        <5>3. Laid(x)
          BY <4>2, <5>1
        <5>4. Laid(x)'
          BY <1>2, <2>0, <2>1, <4>3, <5>1, <5>2, <5>3, OthersStay
        <5> QED BY <5>1, <5>4
      <4> QED BY <1>1, <4>1, <4>2, <4>3, <4>4
    <3>2. /\ segs2[Len(dl.segs) + 1] = seg /\ DOMAIN segs2 = 1 .. Len(dl.segs) + 1
          /\ Len(dl.segs) \in Nat
      BY <1>1 DEF segs2
    <3>3. ASSUME NEW k \in DOMAIN segs2
          PROVE  \E j \in Dl!Loads(dl.phdrs) :
                   /\ segs2[k].start = dl.phdrs[j].vaddr
                   /\ segs2[k].end = dl.phdrs[j].vaddr + dl.phdrs[j].memsz
                   /\ segs2[k].write = dl.phdrs[j].write
                   /\ dl.min <= segs2[k].start /\ segs2[k].end <= dl.max
                   /\ j < h + 1
                   /\ \E x : x = dl.phdrs[j] /\ Laid(x)'
      <4>1. CASE k \in 1 .. Len(dl.segs)
        BY <3>1, <4>1
      <4>2. CASE k = Len(dl.segs) + 1
        <5>1. segs2[k].start = p.vaddr /\ segs2[k].end = p.vaddr + p.memsz /\ segs2[k].write = p.write
          BY <3>2, <4>2 DEF seg
        <5>2. h < h + 1
          BY <1>1
        <5>3. dl.min <= p.vaddr /\ p.vaddr + p.memsz <= dl.max
          <6>1. p.vaddr \in Nat /\ p.vaddr + p.memsz \in Nat
            BY <2>2, SoundHeader
          <6>2. down <= p.vaddr
            BY <6>1, PageBounds DEF down
          <6>3. p.vaddr + p.memsz <= top
            <7> DEFINE memEnd == p.vaddr + p.memsz
            <7> HIDE DEF memEnd
            <7>1. memEnd <= Dl!Up(memEnd)
              BY <6>1, UpBounds DEF memEnd
            <7> QED BY <7>1 DEF memEnd, top
          <6> QED BY <2>9, <6>1, <6>2, <6>3
        <5> QED BY <1>2, <2>1, <2>11, <5>1, <5>2, <5>3
      <4> QED BY <3>2, <4>1, <4>2
    <3>4. \A j \in Dl!Loads(dl.phdrs) : (\E x : x = dl.phdrs[j] /\ Laid(x)') =>
            \A w \in Dl!Words : dl.phdrs[j].vaddr <= w /\ w < dl.phdrs[j].vaddr + dl.phdrs[j].memsz =>
              /\ mem'.page[Dl!PageOf(w)] = Dl!Mapped(dl.phdrs[j].write)
              /\ mem'.word[w] = IF w \in relocated' THEN "relocated" ELSE Dl!Content(dl.phdrs[j], w)
      BY DEF Laid, Dl!PageOf, Dl!Mapped, Dl!Content, Dl!Words
    <3> QED BY <2>7, <2>8, <3>3, <3>4
          DEF SegmentsLaid, Laid, Dl!Loads, Dl!IsLoad, Dl!PageOf, Dl!Mapped, Dl!Content, Dl!Words
  <2> QED BY <2>7, <2>10, <2>12 DEF ImageInv
<1> QED BY <1>3, <1>4

\* Nothing changes but where the load is.
LEMMA OnlyStage ==
  ASSUME ImageInv, dl.pc # "map" => dl'.pc # "map", ImageTypeOK', ImageStages',
         dl'.segs = dl.segs, dl'.min = dl.min, dl'.max = dl.max, dl'.phdrs = dl.phdrs,
         dl'.pc # "map", mem' = mem, relocated' = relocated
  PROVE  ImageInv'
<1>1. Confined' /\ HeadersFit' /\ Dl!WritesAllowed'
  BY DEF ImageInv, Confined, HeadersFit, Dl!WritesAllowed, Inner, Dl!Pages, Dl!Words,
    Dl!PagesOf, Dl!Free, Dl!Loads, Dl!Plausible, Dl!SharePage, Dl!IsLoad, Dl!Down, Dl!Up, Dl!PageOf,
    Dl!Mapped
<1>2. SegmentsLaid'
  <2>1. \A p : Laid(p) => Laid(p)'
    BY DEF Laid, Dl!PageOf, Dl!Mapped, Dl!Content, Dl!Words
  <2>2. SegmentsLaid
    BY DEF ImageInv
  <2> QED BY <2>1, <2>2 DEF SegmentsLaid, Dl!Loads, Dl!IsLoad
<1> QED BY <1>1, <1>2 DEF ImageInv

LEMMA DynamicImage == ASSUME ImageInv, Dl!Dynamic PROVE ImageInv'
<1>1. CASE Dl!Fail
  BY <1>1, FailImage
<1>2. CASE ~Dl!Fail
  <2>1. PICK t \in Tables :
          /\ dl' = [dl EXCEPT !.pc = "relocate", !.fd = FALSE, !.tables = t, !.left = t.nrela]
          /\ UNCHANGED <<mem, relocated>>
    BY <1>2 DEF Dl!Dynamic
  <2>2. t.nrela \in Int
    BY ImageAssumption
  <2>3. dl' = [pc |-> "relocate", fd |-> FALSE, phdrs |-> dl.phdrs, segs |-> dl.segs,
               left |-> t.nrela, min |-> dl.min, max |-> dl.max, tables |-> t]
    BY <2>1 DEF ImageInv, ImageTypeOK
  <2>4. /\ dl.phdrs \in Seq(Phdrs) /\ dl.segs \in Seq(Segment) /\ dl.min \in Int /\ dl.max \in Int
    BY DEF ImageInv, ImageTypeOK
  <2>5. ImageTypeOK'
    <3>1. dl' \in [pc : {"closed", "failed", "headers", "map", "relocate", "open"}, fd : BOOLEAN,
             phdrs : Seq(Phdrs), segs : Seq(Segment), left : Int, min : Int, max : Int,
             tables : {<<>>} \cup Tables]
      BY <2>2, <2>3, <2>4
    <3> QED BY <2>1, <3>1 DEF ImageInv, ImageTypeOK, Dl!Pages, Dl!Words
  <2>6. ImageStages'
    BY <2>3 DEF ImageStages
  <2> QED BY <2>1, <2>3, <2>5, <2>6, OnlyStage
<1> QED BY <1>1, <1>2

LEMMA MakeImage == ASSUME ImageInv, Dl!MakeHandle PROVE ImageInv'
<1>0. SUFFICES ASSUME dl' = [dl EXCEPT !.pc = "open"], mem' = mem, relocated' = relocated
               PROVE  ImageInv'
  BY FailImage DEF Dl!MakeHandle
<1>1. /\ dl.pc = "relocate"
      /\ dl'.pc = "open" /\ dl'.segs = dl.segs /\ dl'.min = dl.min /\ dl'.max = dl.max
      /\ dl'.phdrs = dl.phdrs
  BY <1>0 DEF ImageInv, ImageTypeOK, Dl!MakeHandle
<1>2. ImageTypeOK'
  BY <1>0 DEF ImageInv, ImageTypeOK, Dl!Pages, Dl!Words
<1>3. ImageStages'
  BY <1>1 DEF ImageInv, ImageStages
<1> QED BY <1>0, <1>1, <1>2, <1>3, OnlyStage

\* A relocation writes a word of a segment that may be written.
LEMMA RelocateImage == ASSUME ImageInv, Dl!Relocate PROVE ImageInv'
<1>0. SUFFICES ASSUME ~Dl!Fail PROVE ImageInv'
  BY FailImage
<1>1. PICK w \in Dl!Words :
        /\ Dl!At(w, 1, TRUE)
        /\ \/ mem' = [mem EXCEPT !.word[w] = "relocated"] /\ relocated' = relocated \cup {w}
           \/ UNCHANGED <<mem, relocated>>
        /\ dl' = [dl EXCEPT !.left = @ - 1]
  BY <1>0 DEF Dl!Relocate
<1>2. /\ dl.pc = "relocate" /\ dl.segs \in Seq(Segment) /\ dl.left \in Int
      /\ dl'.pc = "relocate" /\ dl'.segs = dl.segs /\ dl'.min = dl.min /\ dl'.max = dl.max
      /\ dl'.phdrs = dl.phdrs
  BY <1>1 DEF ImageInv, ImageTypeOK, Dl!Relocate
<1>3. dl' \in [pc : {"closed", "failed", "headers", "map", "relocate", "open"}, fd : BOOLEAN,
             phdrs : Seq(Phdrs), segs : Seq(Segment), left : Int, min : Int, max : Int,
             tables : {<<>>} \cup Tables]
  <2>1. dl' = [pc |-> dl.pc, fd |-> dl.fd, phdrs |-> dl.phdrs, segs |-> dl.segs,
               left |-> dl.left - 1, min |-> dl.min, max |-> dl.max, tables |-> dl.tables]
    BY <1>1 DEF ImageInv, ImageTypeOK
  <2>2. /\ dl.fd \in BOOLEAN /\ dl.phdrs \in Seq(Phdrs) /\ dl.min \in Int /\ dl.max \in Int
        /\ dl.tables \in {<<>>} \cup Tables
    BY DEF ImageInv, ImageTypeOK
  <2> QED BY <1>2, <2>1, <2>2
<1>4. ImageStages'
  BY <1>2 DEF ImageStages
<1>5. CASE UNCHANGED <<mem, relocated>>
  <2>1. ImageTypeOK'
    BY <1>3, <1>5 DEF ImageInv, ImageTypeOK, Dl!Pages, Dl!Words
  <2> QED BY <1>2, <1>4, <1>5, <2>1, OnlyStage
<1>6. CASE mem' = [mem EXCEPT !.word[w] = "relocated"] /\ relocated' = relocated \cup {w}
  <2> DEFINE pages == mem.page
             words == mem.word
             words2 == [words EXCEPT ![w] = "relocated"]
  <2>1. /\ mem = [page |-> pages, word |-> words]
        /\ pages = [n \in Dl!Pages |-> pages[n]] /\ words = [x \in Dl!Words |-> words[x]]
    BY DEF ImageInv, ImageTypeOK
  <2>2. mem' = [page |-> pages, word |-> words2]
    <3> HIDE DEF pages
    <3>1. mem' = [mem EXCEPT !.word = [mem.word EXCEPT ![w] = "relocated"]]
      BY <1>6
    <3> DEFINE ws == mem.word
               ws2 == [ws EXCEPT ![w] = "relocated"]
    <3>2. mem = [page |-> pages, word |-> ws] /\ mem' = [mem EXCEPT !.word = ws2]
      BY <2>1, <3>1
    <3> HIDE DEF ws, ws2
    <3>3. mem' = [page |-> pages, word |-> ws2]
      BY <3>2
    <3> QED BY <3>3 DEF ws, ws2
  <2> HIDE DEF pages, words
  <2>3. \A x \in Dl!Words : words2[x] = IF x = w THEN "relocated" ELSE words[x]
    BY <2>1
  <2>4. words2 = [x \in Dl!Words |-> words2[x]]
    BY <2>1
  <2> HIDE DEF words2
  <2>5. mem'.page = mem.page /\ mem'.word = words2 /\ mem.word = words
    BY <2>1, <2>2
  <2>6. ImageTypeOK'
    BY <1>3, <2>1, <2>2, <2>4, <2>5 DEF ImageTypeOK, Dl!Pages, Dl!Words
  <2>7. PICK k \in DOMAIN dl.segs :
          /\ w >= dl.segs[k].start /\ w <= dl.segs[k].end /\ 1 <= dl.segs[k].end - w
          /\ dl.segs[k].write
    BY <1>1 DEF Dl!At
  <2>8. PICK h \in Dl!Loads(dl.phdrs) :
          /\ dl.segs[k].start = dl.phdrs[h].vaddr
          /\ dl.segs[k].end = dl.phdrs[h].vaddr + dl.phdrs[h].memsz
          /\ dl.segs[k].write = dl.phdrs[h].write
          /\ dl.min <= dl.segs[k].start /\ dl.segs[k].end <= dl.max
          /\ Laid(dl.phdrs[h])
    BY DEF ImageInv, SegmentsLaid
  <2>9. dl.segs[k] \in Segment /\ w \in Nat
    BY <1>2, PageOfWord
  <2>10. dl.segs[k].start <= w /\ w < dl.segs[k].end
    BY <2>7, <2>9 DEF Segment
  <2>11. dl.segs[k].write = TRUE
    BY <2>7, <2>9 DEF Segment
  <2>12. mem.page[Dl!PageOf(w)] = Dl!Mapped(TRUE)
    BY <2>8, <2>10, <2>11 DEF Laid
  <2>13. dl.min <= w /\ w < dl.max
    BY <2>8, <2>9, <2>10 DEF Segment, ImageInv, ImageTypeOK
  <2>14. Confined'
    <3>1. ASSUME NEW x \in Dl!Words, x < dl.min \/ x >= dl.max PROVE words2[x] = "other"
      <4>1. x # w
        BY <2>9, <2>13, <3>1 DEF ImageInv, ImageTypeOK
      <4>2. words[x] = "other"
        BY <2>5, <3>1 DEF ImageInv, Confined
      <4> QED BY <2>3, <4>1, <4>2
    <3>2. \A n \in Dl!Pages :
            IF Inner(n) THEN mem.page[n].owner # "other" ELSE mem.page[n] = Dl!Free
      BY DEF ImageInv, Confined
    <3> QED BY <1>2, <2>5, <3>1, <3>2 DEF Confined, Inner, Dl!Pages, Dl!Words, Dl!PagesOf, Dl!Free
  <2>15. HeadersFit'
    BY <1>2 DEF ImageInv, HeadersFit, Dl!Loads, Dl!Plausible, Dl!SharePage, Dl!IsLoad, Dl!Down, Dl!Up
  <2>16. Dl!WritesAllowed'
    BY <1>6, <2>5, <2>12 DEF ImageInv, Dl!WritesAllowed, Dl!PageOf, Dl!Mapped
  <2>17. SegmentsLaid'
    <3>1. \A p : Laid(p) => Laid(p)'
      BY <1>6, <2>3, <2>5 DEF Laid, Dl!PageOf, Dl!Mapped, Dl!Content, Dl!Words
    <3>2. SegmentsLaid
      BY DEF ImageInv
    <3> QED BY <1>2, <3>1, <3>2 DEF SegmentsLaid, Dl!Loads, Dl!IsLoad
  <2> QED BY <1>4, <2>6, <2>14, <2>15, <2>16, <2>17 DEF ImageInv
<1> QED BY <1>1, <1>5, <1>6

LEMMA DlImage == ASSUME ImageInv, Dl!DlNext PROVE ImageInv'
  BY OpenImage, HeaderImage, ReserveImage, MapImage, DynamicImage, RelocateImage, MakeImage,
     CloseImage DEF Dl!DlNext

\* The program touches a library in memory through dlopen and dlclose only.
LEMMA SessionOfImage == [SessionNext]_all => Dl!DlNext \/ UNCHANGED image
<1> SUFFICES ASSUME [SessionNext]_all PROVE Dl!DlNext \/ UNCHANGED image
  OBVIOUS
<1> USE DEF Quiet, Keeps, Gets
<1>1. CASE \/ PlayProbe \/ PlayEnter \/ PlayEnd \/ PlayLeave \/ NoPlugin \/ CopyPlugin
  BY <1>1 DEF PlayProbe, PlayEnter, PlayEnd, PlayLeave, NoPlugin, CopyPlugin
<1>2. CASE LoadPlugin \/ LoadFailed \/ LoadRefused \/ LoadDone
  BY <1>2 DEF LoadPlugin, LoadFailed, LoadRefused, LoadDone, Dl!DlNext
<1>3. CASE Camera \/ Gray \/ Rgb \/ NoPixels \/ Out \/ Thread \/ Enter
  BY <1>3 DEF Camera, Gray, Rgb, NoPixels, Out, Thread, Enter, NoMemory
<1>4. CASE RawMode \/ RawFlag \/ MouseOn \/ Clock
  BY <1>4 DEF RawMode, RawFlag, MouseOn, Clock
<1>5. CASE LoopKeys \/ LoopDone \/ CaptureFails
  BY <1>5 DEF LoopKeys, LoopDone, CaptureFails
<1>6. CASE MouseOff \/ Restore \/ RestoreFlag \/ LeaveScreen \/ FreeBuffers
  BY <1>6 DEF MouseOff, Restore, RestoreFlag, LeaveScreen, FreeBuffers
<1>7. CASE Plugins \/ StopThread \/ CloseCamera \/ Ask \/ Emergency
  BY <1>7 DEF Plugins, StopThread, CloseCamera, Ask, Emergency, Dl!DlNext
<1>8. CASE UNCHANGED all
  BY <1>8 DEF all
<1> QED BY <1>1, <1>2, <1>3, <1>4, <1>5, <1>6, <1>7, <1>8 DEF SessionNext

LEMMA ImageKept == ASSUME ImageInv, UNCHANGED image PROVE ImageInv'
<1>1. dl' = dl /\ mem' = mem /\ relocated' = relocated
  BY DEF image
<1>2. \A p : Laid(p) => Laid(p)'
  BY <1>1 DEF Laid, Dl!PageOf, Dl!Mapped, Dl!Content, Dl!Words
<1>3. SegmentsLaid'
  <2>1. SegmentsLaid
    BY DEF ImageInv
  <2> QED BY <1>1, <1>2, <2>1 DEF SegmentsLaid, Dl!Loads, Dl!IsLoad
<1>4. ImageTypeOK' /\ ImageStages'
  BY <1>1 DEF ImageInv, ImageTypeOK, ImageStages, Dl!Pages, Dl!Words
<1>5. Confined' /\ HeadersFit' /\ Dl!WritesAllowed'
  BY <1>1 DEF ImageInv, Confined, HeadersFit, Dl!WritesAllowed, Inner, Dl!Pages, Dl!Words,
    Dl!PagesOf, Dl!Free, Dl!Loads, Dl!Plausible, Dl!SharePage, Dl!IsLoad, Dl!Down, Dl!Up, Dl!PageOf,
    Dl!Mapped
<1> QED BY <1>3, <1>4, <1>5 DEF ImageInv

LEMMA ImageInvariance == SessionSpec => []ImageInv
<1>1. SessionInit => ImageInv
  BY NothingHolds DEF SessionInit, Dl!DlInit
<1>2. ImageInv /\ [SessionNext]_all => ImageInv'
  BY DlImage, ImageKept, SessionOfImage
<1> QED BY <1>1, <1>2, PTL DEF SessionSpec

LEMMA ImageInvSound == ImageInv => ImageSound
<1> SUFFICES ASSUME ImageInv PROVE ImageSound
  OBVIOUS
<1>1. Dl!OthersUntouched
  <2>1. ASSUME NEW n \in Dl!Pages
        PROVE  mem.page[n].owner = "other" <=>
                 n \notin (IF dl.pc \in {"map", "relocate", "open"} THEN Dl!PagesOf(dl.min, dl.max) ELSE {})
    <3>1. IF Inner(n) THEN mem.page[n].owner # "other" ELSE mem.page[n] = Dl!Free
      BY DEF ImageInv, Confined
    <3>2. CASE dl.pc \in {"map", "relocate", "open"}
      BY <3>1, <3>2 DEF Inner, Dl!Free
    <3>3. CASE dl.pc \notin {"map", "relocate", "open"}
      <4>1. dl.min = 0 /\ dl.max = 0
        BY <3>3 DEF ImageInv, ImageTypeOK, ImageStages
      <4>2. ~Inner(n)
        BY <4>1, PageTimes DEF Inner, Dl!PagesOf
      <4> QED BY <3>1, <3>3, <4>2 DEF Dl!Free
    <3> QED BY <3>2, <3>3
  <2> QED BY <2>1 DEF Dl!OthersUntouched
<1>2. Dl!FailureLeavesNothing
  BY ClosedIsNothing DEF Dl!FailureLeavesNothing, ImageInv, ImageStages
<1>3. Dl!SegmentsAreThere
  <2>1. ASSUME NEW k \in DOMAIN dl.segs
        PROVE  \E h \in Dl!Loads(dl.phdrs) :
                 LET p == dl.phdrs[h]
                 IN  /\ p.vaddr = dl.segs[k].start
                     /\ \A w \in dl.segs[k].start .. dl.segs[k].end - 1 :
                          /\ mem.page[Dl!PageOf(w)] = Dl!Mapped(dl.segs[k].write)
                          /\ mem.word[w] = IF w \in relocated THEN "relocated" ELSE Dl!Content(p, w)
    <3>1. PICK h \in Dl!Loads(dl.phdrs) :
            /\ dl.segs[k].start = dl.phdrs[h].vaddr
            /\ dl.segs[k].end = dl.phdrs[h].vaddr + dl.phdrs[h].memsz
            /\ dl.segs[k].write = dl.phdrs[h].write
            /\ Laid(dl.phdrs[h])
      BY DEF ImageInv, SegmentsLaid
    <3> DEFINE p == dl.phdrs[h]
    <3>2. Sound(p)
      BY LoadHeader
    <3>3. p.vaddr \in Nat /\ p.memsz \in Nat
      <4> HIDE DEF p
      <4> QED BY <3>2, SoundHeader
    <3>4. ASSUME NEW w \in dl.segs[k].start .. dl.segs[k].end - 1
          PROVE  /\ mem.page[Dl!PageOf(w)] = Dl!Mapped(dl.segs[k].write)
                 /\ mem.word[w] = IF w \in relocated THEN "relocated" ELSE Dl!Content(p, w)
      <4>1. w \in Int /\ p.vaddr <= w /\ w < p.vaddr + p.memsz
        BY <3>1, <3>3
      <4>2. w \in Dl!Words
        <5> HIDE DEF p
        <5> QED BY <3>2, <4>1, SoundHeader
      <4> QED BY <3>1, <4>1, <4>2 DEF Laid
    <3> QED BY <3>1, <3>4
  <2> QED BY <2>1 DEF Dl!SegmentsAreThere
<1> QED BY <1>1, <1>2, <1>3 DEF ImageSound, Dl!ImageSound, ImageInv

(***************************************************************************)
(* Whatever a library says of itself, dlopen stays in the range it has     *)
(* reserved, leaves nothing when it fails or the library is closed, and    *)
(* what it has mapped is what the segments describe, relocated only where  *)
(* they may be written (nl_dlopen and nl_dlclose of lib/nl_dlfcn.c).       *)
(***************************************************************************)
THEOREM ImageIsSound == SessionSpec => []ImageSound
<1>1. ImageInv => ImageSound
  BY ImageInvSound
<1> QED BY <1>1, ImageInvariance, PTL

-----------------------------------------------------------------------------
(* Sequences and their ends *)

LEMMA SuffixIff ==
  ASSUME NEW S, NEW b \in Seq(S), NEW r \in Seq(S)
  PROVE  r \in Suffixes(b) <=> \E a \in Seq(S) : b = a \o r
<1>1. ASSUME r \in Suffixes(b) PROVE \E a \in Seq(S) : b = a \o r
  <2>1. CASE r = <<>>
    <3>1. b = b \o <<>>
      BY ConcatEmptySeq
    <3> QED BY <2>1, <3>1
  <2>2. CASE r # <<>>
    <3>1. PICK l \in 1 .. Len(b) : r = SubSeq(b, l, Len(b))
      BY <1>1, <2>2 DEF Suffixes
    <3> DEFINE a == SubSeq(b, 1, l - 1)
    <3>2. SubSeq(b, 1, l - 1) \o SubSeq(b, (l - 1) + 1, Len(b)) = SubSeq(b, 1, Len(b))
      <4> DEFINE k == l - 1
                 n == Len(b)
      <4>1. 1 \in 1 .. Len(b) + 1 /\ k \in 1 - 1 .. Len(b) /\ n \in k .. Len(b)
        BY <3>1
      <4> HIDE DEF k, n
      <4>2. SubSeq(b, 1, k) \o SubSeq(b, k + 1, n) = SubSeq(b, 1, n)
        BY <4>1, ConcatAdjacentSubSeq
      <4> QED BY <4>2 DEF k, n
    <3>3. SubSeq(b, 1, Len(b)) = b /\ (l - 1) + 1 = l
      BY SubSeqFull
    <3>4. a \in Seq(S)
      <4>1. \A i \in 1 .. l - 1 : b[i] \in S
        OBVIOUS
      <4> QED BY <4>1, SubSeqProperties
    <3> QED BY <3>1, <3>2, <3>3, <3>4
  <2> QED BY <2>1, <2>2
<1>2. ASSUME NEW a \in Seq(S), b = a \o r PROVE r \in Suffixes(b)
  <2>1. CASE r = <<>>
    BY <2>1 DEF Suffixes
  <2>2. CASE r # <<>>
    <3> DEFINE l == Len(a) + 1
               n == Len(b)
    <3>1. Len(a) \in Nat /\ Len(r) \in Nat /\ Len(r) > 0 /\ n = Len(a) + Len(r)
      BY <1>2, <2>2, ConcatProperties, EmptySeq
    <3>2. l \in 1 .. Len(b)
      BY <3>1
    <3>3. SubSeq(b, l, n) = SubSeq(r, l - Len(a), n - Len(a))
      <4>1. l \in Len(a) + 1 .. Len(a) + Len(r) /\ n \in Len(a) + 1 .. Len(a) + Len(r)
        BY <3>1
      <4> QED BY <1>2, <4>1, SubSeqOfConcat2
    <3>4. l - Len(a) = 1 /\ n - Len(a) = Len(r)
      BY <3>1
    <3>5. SubSeq(b, l, n) = r
      BY <3>3, <3>4, SubSeqFull
    <3> QED BY <3>2, <3>5 DEF Suffixes
  <2> QED BY <2>1, <2>2
<1> QED BY <1>1, <1>2

\* r is an end of b.
EndIn(S, r, b) == \E a \in Seq(S) : b = a \o r

\* Of two ends of a sequence the longer one ends with the shorter.
LEMMA LongerSuffix ==
  ASSUME NEW S, NEW a \in Seq(S), NEW b \in Seq(S), NEW c \in Seq(S), NEW d \in Seq(S),
         a \o b = c \o d, Len(b) >= Len(d)
  PROVE  EndIn(S, d, b)
<1> DEFINE k == Len(b) - Len(d)
           e == SubSeq(b, 1, k)
<1>1. /\ Len(a) \in Nat /\ Len(b) \in Nat /\ Len(c) \in Nat /\ Len(d) \in Nat
      /\ Len(a) + Len(b) = Len(c) + Len(d)
  BY ConcatProperties, LenProperties
<1>2. k \in Nat /\ k <= Len(b) /\ Len(c) = Len(a) + k
  BY <1>1
<1>3. e \in Seq(S) /\ Len(e) = k /\ \A i \in 1 .. k : e[i] = b[i]
  <2>1. \A i \in 1 .. k : b[i] \in S
    BY <1>1, <1>2
  <2> HIDE DEF k
  <2>2. e \in Seq(S) /\ Len(e) = (IF 1 <= k THEN k - 1 + 1 ELSE 0)
        /\ \A i \in 1 .. k - 1 + 1 : e[i] = b[1 + i - 1]
    BY <1>2, <2>1, SubSeqProperties
  <2>3. \A i \in 1 .. k : i \in 1 .. k - 1 + 1 /\ 1 + i - 1 = i
    BY <1>2
  <2> HIDE DEF e
  <2> QED BY <1>2, <2>2, <2>3
<1> HIDE DEF k, e
<1>4. e \o d \in Seq(S) /\ Len(e \o d) = Len(b)
  BY <1>1, <1>2, <1>3, ConcatProperties DEF k
<1>5. ASSUME NEW i \in 1 .. Len(b) PROVE b[i] = (e \o d)[i]
  <2>1. i \in Nat /\ i >= 1 /\ i <= Len(b)
    BY <1>1
  <2>2. (a \o b)[Len(a) + i] = b[i]
    <3>1. Len(a) + i \in 1 .. Len(a) + Len(b) /\ ~(Len(a) + i <= Len(a)) /\ Len(a) + i - Len(a) = i
      BY <1>1, <2>1
    <3>2. (a \o b)[Len(a) + i] = IF Len(a) + i <= Len(a) THEN a[Len(a) + i] ELSE b[Len(a) + i - Len(a)]
      BY <3>1, ConcatProperties
    <3> QED BY <3>1, <3>2
  <2>3. CASE i <= k
    <3>1. (e \o d)[i] = e[i]
      BY <1>1, <1>2, <1>3, <2>1, <2>3, ConcatProperties
    <3> QED BY <1>2, <1>3, <2>1, <2>3, <3>1
  <2>4. CASE i > k
    <3>1. (e \o d)[i] = d[i - k]
      BY <1>1, <1>2, <1>3, <2>1, <2>4, ConcatProperties DEF k
    <3>2. (c \o d)[Len(a) + i] = d[Len(a) + i - Len(c)]
      <4>1. Len(a) + i \in 1 .. Len(c) + Len(d) /\ ~(Len(a) + i <= Len(c))
        BY <1>1, <1>2, <2>1, <2>4 DEF k
      <4> QED BY <4>1, ConcatProperties
    <3>3. Len(a) + i - Len(c) = i - k
      BY <1>1, <1>2, <2>1
    <3> QED BY <2>2, <3>1, <3>2, <3>3
  <2>5. i <= k \/ i > k
    BY <1>2, <2>1
  <2> QED BY <2>3, <2>4, <2>5
<1>6. b = e \o d
  BY <1>4, <1>5, SeqEqual
<1> QED BY <1>3, <1>6 DEF EndIn

\* FlattenSeq, step by step.
IsFlat(f, ss, n) == f = [i \in 1 .. n |-> IF i = 1 THEN ss[i] ELSE f[i - 1] \o ss[i]]

LEMMA FlatValue ==
  ASSUME NEW ss, NEW n, NEW f, IsFlat(f, ss, n), NEW i \in 1 .. n
  PROVE  f[i] = IF i = 1 THEN ss[i] ELSE f[i - 1] \o ss[i]
<1> DEFINE step == [j \in 1 .. n |-> IF j = 1 THEN ss[j] ELSE f[j - 1] \o ss[j]]
<1>1. f = step
  BY Zenon DEF IsFlat
<1>2. step[i] = IF i = 1 THEN ss[i] ELSE f[i - 1] \o ss[i]
  OBVIOUS
<1> HIDE DEF step
<1> QED BY <1>1, <1>2

LEMMA FlatUnique ==
  ASSUME NEW ss, NEW n \in Nat, NEW m \in Nat, NEW f, NEW g, IsFlat(f, ss, n), IsFlat(g, ss, m)
  PROVE  \A i \in Nat : 1 <= i /\ i <= n /\ i <= m => f[i] = g[i]
<1> DEFINE T == {i \in Nat : 1 <= i /\ i <= n /\ i <= m => f[i] = g[i]}
<1>1. 0 \in T
  OBVIOUS
<1>2. ASSUME NEW i \in Nat, i \in T PROVE i + 1 \in T
  <2> SUFFICES ASSUME i + 1 <= n, i + 1 <= m PROVE f[i + 1] = g[i + 1]
    OBVIOUS
  <2>0. i + 1 \in 1 .. n /\ i + 1 \in 1 .. m /\ (i + 1) - 1 = i
    OBVIOUS
  <2>1. f[i + 1] = IF i + 1 = 1 THEN ss[i + 1] ELSE f[(i + 1) - 1] \o ss[i + 1]
    BY <2>0, FlatValue
  <2>2. g[i + 1] = IF i + 1 = 1 THEN ss[i + 1] ELSE g[(i + 1) - 1] \o ss[i + 1]
    BY <2>0, FlatValue
  <2>3. i = 0 \/ f[i] = g[i]
    BY <1>2
  <2> QED BY <2>0, <2>1, <2>2, <2>3
<1> HIDE DEF T
<1>3. Nat \subseteq T
  BY <1>1, <1>2, Induction
<1> QED BY <1>3 DEF T

LEMMA FlatExists ==
  ASSUME NEW S, NEW ss \in Seq(Seq(S))
  PROVE  \E f : /\ IsFlat(f, ss, Len(ss))
                /\ \A i \in 1 .. Len(ss) : f[i] \in Seq(S)
                /\ Len(ss) > 0 => FlattenSeq(ss) = f[Len(ss)]
<1> DEFINE Good(g, n) == IsFlat(g, ss, n) /\ \A i \in 1 .. n : g[i] \in Seq(S)
           T == {n \in Nat : n <= Len(ss) => \E g : Good(g, n)}
<1>1. 0 \in T
  <2> DEFINE g == [i \in 1 .. 0 |-> ss[i]]
  <2>1. Good(g, 0)
    BY DEF IsFlat
  <2> QED BY <2>1
<1>2. ASSUME NEW n \in Nat, n \in T PROVE n + 1 \in T
  <2> SUFFICES ASSUME n + 1 <= Len(ss) PROVE \E g : Good(g, n + 1)
    OBVIOUS
  <2>1. PICK g : Good(g, n)
    BY <1>2
  <2> DEFINE new == IF n = 0 THEN ss[1] ELSE g[n] \o ss[n + 1]
             k == [i \in 1 .. n + 1 |-> IF i <= n THEN g[i] ELSE new]
  <2>2. \A i \in 1 .. n : k[i] = g[i]
    OBVIOUS
  <2>3. k[n + 1] = new
    OBVIOUS
  <2>4. new \in Seq(S)
    <3>1. ss[n + 1] \in Seq(S)
      OBVIOUS
    <3>2. CASE n = 0
      BY <3>1, <3>2
    <3>3. CASE n # 0
      <4>1. g[n] \in Seq(S)
        BY <2>1, <3>3
      <4> QED BY <3>1, <3>3, <4>1, ConcatProperties
    <3> QED BY <3>2, <3>3
  <2>5. ASSUME NEW i \in 1 .. n + 1
        PROVE  /\ k[i] = IF i = 1 THEN ss[i] ELSE k[i - 1] \o ss[i]
               /\ k[i] \in Seq(S)
    <3>1. CASE i <= n
      <4>1. g[i] = IF i = 1 THEN ss[i] ELSE g[i - 1] \o ss[i]
        <5>1. IsFlat(g, ss, n) /\ i \in 1 .. n
          BY <2>1, <3>1
        <5> HIDE DEF k, new, Good
        <5>2. \A j \in 1 .. n : g[j] = IF j = 1 THEN ss[j] ELSE g[j - 1] \o ss[j]
          BY <5>1, FlatValue
        <5> QED BY <5>1, <5>2
      <4>2. g[i] \in Seq(S)
        BY <2>1, <3>1
      <4>3. k[i] = g[i] /\ (i # 1 => k[i - 1] = g[i - 1])
        BY <2>2, <3>1
      <4> HIDE DEF k, Good
      <4> QED BY <4>1, <4>2, <4>3
    <3>2. CASE i = n + 1
      <4>1. k[i] = new /\ (i # 1 => k[i - 1] = g[n] /\ n # 0)
        BY <2>2, <2>3, <3>2
      <4> HIDE DEF k, Good
      <4> QED BY <2>4, <3>2, <4>1
    <3> QED BY <3>1, <3>2
  <2>6. IsFlat(k, ss, n + 1)
    <3>1. k = [i \in 1 .. n + 1 |-> k[i]]
      OBVIOUS
    <3> HIDE DEF k
    <3> QED BY <2>5, <3>1 DEF IsFlat
  <2>7. Good(k, n + 1)
    <3> HIDE DEF k
    <3> QED BY <2>5, <2>6
  <2> HIDE DEF k, Good
  <2> QED BY <2>7
<1> HIDE DEF T
<1>3. Nat \subseteq T
  BY <1>1, <1>2, Induction
<1>4. Len(ss) \in Nat /\ Len(ss) \in T
  BY <1>3
<1>5. PICK f : Good(f, Len(ss))
  BY <1>4 DEF T
<1>6. Len(ss) > 0 => FlattenSeq(ss) = f[Len(ss)]
  <2> SUFFICES ASSUME Len(ss) > 0 PROVE FlattenSeq(ss) = f[Len(ss)]
    OBVIOUS
  <2> DEFINE flatten[i \in 1 .. Len(ss)] == IF i = 1 THEN ss[i] ELSE flatten[i - 1] \o ss[i]
  <2>1. FlattenSeq(ss) = flatten[Len(ss)]
    BY <1>4 DEF FlattenSeq
  <2>2. flatten = CHOOSE g : g = [i \in 1 .. Len(ss) |-> IF i = 1 THEN ss[i] ELSE g[i - 1] \o ss[i]]
    BY DEF flatten
  <2>3. flatten = CHOOSE g : IsFlat(g, ss, Len(ss))
    BY <2>2 DEF IsFlat
  <2> HIDE DEF flatten
  <2>4. IsFlat(flatten, ss, Len(ss))
    BY <1>5, <2>3
  <2>5. IsFlat(f, ss, Len(ss))
    BY <1>5
  <2>6. flatten[Len(ss)] = f[Len(ss)]
    <3> DEFINE n == Len(ss)
    <3>1. n \in Nat /\ 1 <= n /\ n <= n
      BY <1>4
    <3>2. IsFlat(flatten, ss, n) /\ IsFlat(f, ss, n)
      BY <2>4, <2>5
    <3> HIDE DEF n
    <3>3. \A i \in Nat : 1 <= i /\ i <= n /\ i <= n => flatten[i] = f[i]
      BY <3>1, <3>2, FlatUnique
    <3> QED BY <3>1, <3>3 DEF n
  <2> QED BY <2>1, <2>6
<1> QED BY <1>5, <1>6

LEMMA FlattenAppend ==
  ASSUME NEW S, NEW ss \in Seq(Seq(S)), NEW s \in Seq(S)
  PROVE  FlattenSeq(ss) \in Seq(S) /\ FlattenSeq(Append(ss, s)) = FlattenSeq(ss) \o s
<1> DEFINE tt == Append(ss, s)
           n == Len(ss)
<1>1. /\ tt \in Seq(Seq(S)) /\ n \in Nat /\ Len(tt) = n + 1 /\ tt[n + 1] = s
      /\ \A i \in 1 .. n : tt[i] = ss[i]
  BY AppendProperties, LenProperties
<1> HIDE DEF tt
<1>2. PICK f : IsFlat(f, ss, n) /\ (\A i \in 1 .. n : f[i] \in Seq(S)) /\ (n > 0 => FlattenSeq(ss) = f[n])
  BY FlatExists
<1>3. PICK g : IsFlat(g, tt, n + 1) /\ FlattenSeq(tt) = g[n + 1]
  <2>1. PICK g : /\ IsFlat(g, tt, Len(tt)) /\ (\A i \in 1 .. Len(tt) : g[i] \in Seq(S))
                 /\ (Len(tt) > 0 => FlattenSeq(tt) = g[Len(tt)])
    BY <1>1, FlatExists
  <2> QED BY <1>1, <2>1
<1>4. g[n + 1] = IF n + 1 = 1 THEN tt[n + 1] ELSE g[(n + 1) - 1] \o tt[n + 1]
  <2>1. n + 1 \in 1 .. n + 1
    BY <1>1
  <2> QED BY <1>3, <2>1, FlatValue
<1>5. CASE n = 0
  <2>1. ss = <<>> /\ FlattenSeq(ss) = ss
    BY <1>5, EmptySeq DEF FlattenSeq
  <2>2. <<>> \o s = s /\ <<>> \in Seq(S)
    BY ConcatEmptySeq
  <2>3. g[n + 1] = tt[n + 1]
    BY <1>4, <1>5
  <2>4. FlattenSeq(tt) = s
    BY <1>1, <1>3, <2>3
  <2>5. FlattenSeq(ss) = <<>>
    BY <2>1
  <2>6. FlattenSeq(Append(ss, s)) = s
    BY <2>4 DEF tt
  <2> QED BY Zenon, <2>2, <2>5, <2>6
<1>6. CASE n > 0
  <2>1. IsFlat(f, tt, n)
    <3>1. \A i \in 1 .. n : f[i] = IF i = 1 THEN ss[i] ELSE f[i - 1] \o ss[i]
      BY <1>2, FlatValue
    <3>2. \A i \in 1 .. n : f[i] = IF i = 1 THEN tt[i] ELSE f[i - 1] \o tt[i]
      BY <1>1, <3>1
    <3>3. f = [i \in 1 .. n |-> f[i]]
      BY <1>2 DEF IsFlat
    <3> QED BY <3>2, <3>3 DEF IsFlat
  <2>2. f[n] = g[n]
    <3> HIDE DEF n
    <3>1. 1 <= n /\ n <= n /\ n <= n + 1 /\ n + 1 \in Nat
      BY <1>1, <1>6
    <3>2. \A i \in Nat : 1 <= i /\ i <= n /\ i <= n + 1 => f[i] = g[i]
      BY <1>1, <1>3, <2>1, <3>1, FlatUnique
    <3> QED BY <1>1, <3>1, <3>2
  <2>3. g[n + 1] = f[n] \o s
    BY <1>1, <1>4, <1>6, <2>2
  <2>4. FlattenSeq(ss) = f[n] /\ f[n] \in Seq(S)
    BY <1>1, <1>2, <1>6
  <2> QED BY <1>3, <2>3, <2>4 DEF tt
<1> QED BY <1>1, <1>5, <1>6

-----------------------------------------------------------------------------
(* What the user has done and the program has not read *)

\* The bytes of what the terminal sends; the provers do not count literals as STRING.
Marks == {"ESC", "[", "<", ";", "A", "B", "M", "m"}
Figures == {"0", "1", "2", "3", "4", "5", "6", "7", "8", "9"}
Byte == STRING \cup Marks \cup Figures
Entry == [ev : Events, torn : BOOLEAN]

LEMMA DecimalText ==
  ASSUME NEW n \in Nat
  PROVE  Decimal(n) \in Seq(Byte)
<1> DEFINE places == {k \in 1 .. 5 : k = 1 \/ n >= Places[k]}
           width == Max(places)
<1>1. width \in 1 .. 5
  <2>1. places \subseteq 1 .. 5
    BY Zenon
  <2>2. 1 \in places
    <3>1. 1 \in 1 .. 5
      OBVIOUS
    <3> QED BY Zenon, <3>1
  <2> HIDE DEF places
  <2>g. PICK g \in places : \A x \in places : x <= g
    <3>1. places \subseteq 0 .. 5 /\ 5 \in Nat
      BY <2>1
    <3> QED BY Zenon, <2>2, <3>1, HasGreatest
  <2>3. \A x \in places : g >= x
    BY <2>1, <2>g
  <2>4. Max(places) \in places
    BY Zenon, <2>g, <2>3 DEF Max
  <2> QED BY Zenon, <2>1, <2>4
<1>2. \A d \in 0 .. 9 : Digit(d) \in Byte
  <2>1. \A d \in 1 .. 9 : Numerals[d] \in Figures
    BY SMT DEF Numerals, Figures
  <2>2. "0" \in Figures /\ Figures \subseteq Byte
    BY DEF Figures, Byte
  <2> QED BY <2>1, <2>2 DEF Digit
<1>3. \A k \in 1 .. 5 : Places[k] \in Nat \ {0}
  BY SMT DEF Places
<1>4. Decimal(n) = [k \in 1 .. width |-> Digit((n \div Places[width + 1 - k]) % 10)]
  BY DEF Decimal
<1> HIDE DEF width
<1>5. ASSUME NEW k \in 1 .. width PROVE Digit((n \div Places[width + 1 - k]) % 10) \in Byte
  <2>1. width + 1 - k \in 1 .. 5
    BY <1>1
  <2>2. Places[width + 1 - k] \in Nat \ {0}
    BY <1>3, <2>1
  <2> DEFINE place == Places[width + 1 - k]
             q == n \div place
  <2>3. q \in Int
    <3> HIDE DEF place
    <3> QED BY <2>2 DEF place
  <2> HIDE DEF q
  <2>4. q % 10 \in 0 .. 9
    BY <2>3
  <2> QED BY <1>2, <2>4 DEF q
<1>6. Decimal(n) \in [1 .. width -> Byte]
  <2> DEFINE d(k) == Digit((n \div Places[width + 1 - k]) % 10)
  <2>1. \A k \in 1 .. width : d(k) \in Byte
    BY <1>5
  <2>2. Decimal(n) = [k \in 1 .. width |-> d(k)]
    BY <1>4
  <2> HIDE DEF d
  <2> QED BY <2>1, <2>2
<1> QED BY <1>1, <1>6, SeqDef

LEMMA EncodingText ==
  ASSUME NEW e \in Events
  PROVE  Encoding(e) \in Seq(Byte)
<1>1. CASE e.type = "key" /\ e.key \in Byte
  <2>1. Encoding(e) = <<e.key>>
    BY <1>1 DEF Encoding
  <2> HIDE DEF Byte
  <2> QED BY <1>1, <2>1
<1>2. CASE e.type \in {"esc", "up", "down"}
  <2>1. Encoding(e) \in {<<"ESC">>, <<"ESC", "[", "A">>, <<"ESC", "[", "B">>}
    BY <1>2 DEF Encoding
  <2>2. {"ESC", "[", "A", "B"} \subseteq Byte
    BY DEF Byte, Marks
  <2>3. \A a, b, c \in Byte : <<a>> \in Seq(Byte) /\ <<a, b, c>> \in Seq(Byte)
    OBVIOUS
  <2> QED BY <2>1, <2>2, <2>3
<1>3. CASE e.type = "unbound" /\ e.bytes \in Seq(Byte)
  BY <1>3 DEF Encoding
<1>4. CASE e.type = "mouse" /\ e.report \in [b : Nat, x : Nat, y : Nat, pressed : BOOLEAN]
  <2>1. e.report.b \in Nat /\ e.report.x \in Nat /\ e.report.y \in Nat
    BY <1>4
  <2> DEFINE b == Decimal(e.report.b)
             x == Decimal(e.report.x)
             y == Decimal(e.report.y)
             m == <<IF e.report.pressed THEN "M" ELSE "m">>
             start == <<"ESC", "[", "<">>
             sep == <<";">>
  <2>2. b \in Seq(Byte) /\ x \in Seq(Byte) /\ y \in Seq(Byte)
    BY <2>1, DecimalText
  <2>3. m \in Seq(Byte) /\ start \in Seq(Byte) /\ sep \in Seq(Byte)
    <3>1. {"ESC", "[", "<", ";", "M", "m"} \subseteq Byte
      BY DEF Byte, Marks
    <3>2. \A u, v, w \in Byte : <<u>> \in Seq(Byte) /\ <<u, v, w>> \in Seq(Byte)
      OBVIOUS
    <3>3. (IF e.report.pressed THEN "M" ELSE "m") \in Byte
      BY <3>1
    <3> QED BY <3>1, <3>2, <3>3
  <2>4. Encoding(e) = start \o b \o sep \o x \o sep \o y \o m
    <3>1. e.type = "mouse"
      BY <1>4
    <3> HIDE <1>4
    <3> QED BY Zenon, <3>1 DEF Encoding
  <2> HIDE DEF b, x, y, m, start, sep
  <2>5. start \o b \in Seq(Byte)
    BY <2>2, <2>3
  <2>6. start \o b \o sep \in Seq(Byte)
    BY <2>3, <2>5
  <2>7. start \o b \o sep \o x \in Seq(Byte)
    BY <2>2, <2>6
  <2>8. start \o b \o sep \o x \o sep \in Seq(Byte)
    BY <2>3, <2>7
  <2>9. start \o b \o sep \o x \o sep \o y \in Seq(Byte)
    BY <2>2, <2>8
  <2>10. start \o b \o sep \o x \o sep \o y \o m \in Seq(Byte)
    BY <2>3, <2>9
  <2> QED BY <2>4, <2>10
<1>5. \/ e.type = "key" /\ e.key \in Byte
      \/ e.type \in {"esc", "up", "down"}
      \/ e.type = "unbound" /\ e.bytes \in Seq(Byte)
      \/ e.type = "mouse" /\ e.report \in [b : Nat, x : Nat, y : Nat, pressed : BOOLEAN]
  <2>1. \/ e.type = "key" /\ e.key \in STRING
        \/ e.type \in {"esc", "up", "down"}
        \/ e.type = "unbound" /\ e.bytes \in Seq(STRING)
        \/ e.type = "mouse" /\ e.report \in [b : Nat, x : Nat, y : Nat, pressed : BOOLEAN]
    <3> DEFINE reports == [b : Fields, x : Fields, y : Fields, pressed : BOOLEAN]
    <3>1. \A r \in reports : r \in [b : Nat, x : Nat, y : Nat, pressed : BOOLEAN]
      <4>1. Fields \subseteq Nat
        BY SMT DEF Fields
      <4> QED BY <4>1
    <3>2. \/ e.type = "key" /\ e.key \in STRING
          \/ e.type \in {"esc", "up", "down"}
          \/ e.type = "unbound" /\ e.bytes \in Seq(STRING)
          \/ e.type = "mouse" /\ e.report \in reports
      BY EventsAssumption
    <3> HIDE DEF reports
    <3> QED BY <3>1, <3>2
  <2>2. STRING \subseteq Byte
    BY DEF Byte
  <2>3. ASSUME NEW t \in Seq(STRING) PROVE t \in Seq(Byte)
    <3>1. Len(t) \in Nat /\ t \in [1 .. Len(t) -> STRING]
      OBVIOUS
    <3>2. t \in [1 .. Len(t) -> Byte]
      BY <2>2, <3>1
    <3> QED BY <3>1, <3>2, SeqDef
  <2> QED BY Zenon, <2>1, <2>2, <2>3
<1> QED BY <1>1, <1>2, <1>3, <1>4, <1>5

Codes(box) == [k \in DOMAIN box |-> Encoding(box[k].ev)]

LEMMA CodesText ==
  ASSUME NEW box \in Seq(Entry)
  PROVE  Codes(box) \in Seq(Seq(Byte)) /\ Len(Codes(box)) = Len(box)
<1> DEFINE n == Len(box)
           d(k) == Encoding(box[k].ev)
<1>1. n \in Nat /\ DOMAIN box = 1 .. n /\ \A k \in 1 .. n : box[k] \in Entry
  OBVIOUS
<1>2. \A k \in 1 .. n : d(k) \in Seq(Byte)
  BY <1>1, EncodingText DEF Entry
<1>3. Codes(box) = [k \in 1 .. n |-> d(k)]
  BY <1>1 DEF Codes
<1> HIDE DEF n, d
<1>4. Codes(box) \in [1 .. n -> Seq(Byte)]
  BY <1>2, <1>3
<1>5. Codes(box) \in Seq(Seq(Byte))
  BY <1>1, <1>4, SeqDef
<1> QED BY <1>1, <1>3, <1>5 DEF n

LEMMA BytesAppend ==
  ASSUME NEW box \in Seq(Entry), NEW x \in Entry
  PROVE  /\ Bytes(box) \in Seq(Byte)
         /\ Bytes(Append(box, x)) = Bytes(box) \o Encoding(x.ev)
<1>1. Codes(box) \in Seq(Seq(Byte)) /\ Len(Codes(box)) = Len(box)
  BY CodesText
<1>2. Encoding(x.ev) \in Seq(Byte)
  BY EncodingText DEF Entry
<1>3. Codes(Append(box, x)) = Append(Codes(box), Encoding(x.ev))
  <2> DEFINE a == Codes(Append(box, x))
             b == Append(Codes(box), Encoding(x.ev))
  <2>1. Append(box, x) \in Seq(Entry) /\ Len(Append(box, x)) = Len(box) + 1 /\ Len(box) \in Nat
        /\ DOMAIN Append(box, x) = 1 .. Len(box) + 1 /\ DOMAIN box = 1 .. Len(box)
    OBVIOUS
  <2>2. a \in Seq(Seq(Byte)) /\ Len(a) = Len(box) + 1
    BY <2>1, CodesText
  <2>3. b \in Seq(Seq(Byte)) /\ Len(b) = Len(box) + 1
    BY <1>1, <1>2, AppendProperties
  <2>4. ASSUME NEW i \in 1 .. Len(box) + 1 PROVE a[i] = b[i]
    <3>1. a[i] = Encoding(Append(box, x)[i].ev)
      BY <2>1 DEF Codes
    <3>2. CASE i \in 1 .. Len(box)
      <4>1. Append(box, x)[i] = box[i]
        BY <3>2
      <4>2. b[i] = Codes(box)[i]
        BY <1>1, <1>2, <3>2, AppendProperties
      <4>3. Codes(box)[i] = Encoding(box[i].ev)
        BY <2>1, <3>2 DEF Codes
      <4> QED BY <3>1, <4>1, <4>2, <4>3
    <3>3. CASE i = Len(box) + 1
      <4>1. Append(box, x)[i] = x
        BY <3>3
      <4>2. b[i] = Encoding(x.ev)
        BY <1>1, <1>2, <3>3, AppendProperties
      <4> QED BY <3>1, <4>1, <4>2
    <3>4. i \in 1 .. Len(box) \/ i = Len(box) + 1
      BY <2>1
    <3> QED BY Zenon, <3>2, <3>3, <3>4
  <2> HIDE DEF a, b
  <2>5. a = b
    <3>1. Len(a) = Len(b) /\ \A i \in 1 .. Len(a) : a[i] = b[i]
      BY <2>2, <2>3, <2>4
    <3> QED BY <2>2, <2>3, <3>1, SeqEqual
  <2> QED BY <2>5 DEF a, b
<1>4. Bytes(box) = FlattenSeq(Codes(box)) /\ Bytes(Append(box, x)) = FlattenSeq(Codes(Append(box, x)))
  BY DEF Bytes, Codes
<1> QED BY <1>1, <1>2, <1>3, <1>4, FlattenAppend

-----------------------------------------------------------------------------
(* What the program holds at each stage *)

Stages ==
  {"options", "playEnter", "playRaw", "playRawFlag", "playing", "playRestore", "playRestoreFlag",
   "playLeave", "load", "camera", "gray", "rgb", "out", "thread", "enter", "raw", "rawFlag",
   "mouse", "clock", "loop", "mouseOff", "restore", "restoreFlag", "leave", "free", "plugins",
   "stopThread", "closeCamera", "exit", "refused", "starved", "stuck", "killed", "torn"}

Screen(a, h, r, m) == [alt |-> a, hidden |-> h, raw |-> r, mouse |-> m]

\* The terminal and the flag of the signal handler, stage by stage.
ScreenInv ==
  /\ screen \in [alt : BOOLEAN, hidden : BOOLEAN, raw : BOOLEAN, mouse : BOOLEAN]
  /\ flagged \in BOOLEAN
  /\ stage \in {"options", "playEnter", "load", "camera", "gray", "rgb", "out", "thread", "enter",
                "free", "plugins", "stopThread", "closeCamera", "exit", "refused", "starved"}
       => screen = Screen(FALSE, FALSE, FALSE, FALSE) /\ ~flagged
  /\ stage \in {"raw", "playRaw", "leave", "playLeave"}
       => screen = Screen(TRUE, TRUE, FALSE, FALSE) /\ ~flagged
  /\ stage \in {"rawFlag", "playRawFlag"} => screen = Screen(TRUE, TRUE, TRUE, FALSE) /\ ~flagged
  /\ stage \in {"mouse", "playing", "restore", "playRestore"}
       => screen = Screen(TRUE, TRUE, TRUE, FALSE) /\ flagged
  /\ stage \in {"clock", "loop", "mouseOff", "stuck"}
       => screen = Screen(TRUE, TRUE, TRUE, TRUE) /\ flagged
  /\ stage \in {"restoreFlag", "playRestoreFlag"}
       => screen = Screen(TRUE, TRUE, FALSE, FALSE) /\ flagged
  /\ stage = "killed" => screen = Screen(screen.alt, FALSE, FALSE, FALSE)
  /\ stage = "torn" => ~screen.mouse

\* What has been acquired and not given back.
HeldInv ==
  /\ stage \in {"options", "playEnter", "playRaw", "playRawFlag", "playing", "playRestore",
                "playRestoreFlag", "playLeave", "load", "exit", "killed", "torn"} => held = {}
  /\ stage \in {"camera", "refused"} => held \subseteq {"watch"}
  /\ stage = "starved" => held \subseteq {"watch", "rgb"}
  /\ stage = "gray" => held \subseteq {"watch", "camera"}
  /\ stage = "rgb" => held \subseteq {"watch", "camera", "gray"}
  /\ stage = "out" => held \subseteq {"watch", "camera", "gray", "rgb"}
  /\ stage = "thread" => held \subseteq {"watch", "camera", "gray", "rgb", "out"}
  /\ stage \in {"enter", "raw", "rawFlag", "mouse", "clock", "loop", "mouseOff", "restore",
                "restoreFlag", "leave", "free", "stuck"}
       => held \subseteq {"watch", "camera", "gray", "rgb", "out", "thread"}
  /\ stage = "plugins" => held \subseteq {"watch", "camera", "thread"}
  /\ stage = "stopThread" => held \subseteq {"camera", "thread"}
  /\ stage = "closeCamera" => held \subseteq {"camera"}
  /\ stage \in {"gray", "rgb", "out", "thread", "enter", "raw", "rawFlag", "mouse", "clock", "loop",
                "mouseOff", "restore", "restoreFlag", "leave", "free", "stuck", "plugins", "stopThread"}
       => "camera" \in held

\* The plugin given with -p: its private copy and its image.
PluginInv ==
  /\ stage \in {"options", "playEnter", "playRaw", "playRawFlag", "playing", "playRestore",
                "playRestoreFlag", "playLeave"} => copies = {} /\ dl.pc = "closed"
  /\ stage \notin {"load", "killed", "torn"} => dl.pc \in {"closed", "failed", "open"}
  /\ stage \in {"stopThread", "closeCamera", "exit"} => copies = {} /\ dl.pc # "open"

LifeInv == stage \in Stages /\ ScreenInv /\ HeldInv /\ PluginInv

LEMMA LifeInit ==
  ASSUME SessionInit
  PROVE  LifeInv
<1>1. stage = "options" /\ held = {} /\ copies = {} /\ flagged = FALSE
      /\ screen = Screen(FALSE, FALSE, FALSE, FALSE) /\ dl.pc = "closed"
  BY DEF SessionInit, Dl!DlInit, Dl!NoImage, Shell, Screen
<1> QED BY <1>1 DEF LifeInv, ScreenInv, HeldInv, PluginInv, Stages, Screen

\* Only the steps of main move it from stage to stage.
LEMMA StageStep ==
  ASSUME LifeInv, [SessionNext]_all
  PROVE  (stage \in Stages)'
<1> USE DEF Go, Gets, Keeps, Quiet, own, image, LifeInv, Stages
<1>1. CASE PlayProbe \/ PlayEnter \/ PlayEnd \/ PlayLeave
  BY <1>1 DEF PlayProbe, PlayEnter, PlayEnd, PlayLeave
<1>2. CASE NoPlugin \/ CopyPlugin \/ LoadPlugin
  BY <1>2 DEF NoPlugin, CopyPlugin, LoadPlugin
<1>3. CASE LoadFailed \/ LoadRefused \/ LoadDone
  BY <1>3 DEF LoadFailed, LoadRefused, LoadDone
<1>4. CASE Camera \/ Gray \/ NoPixels
  BY <1>4 DEF Camera, Gray, NoPixels
<1>5. CASE Rgb \/ Out
  BY <1>5 DEF Rgb, Out, NoMemory
<1>6. CASE Thread \/ Enter
  BY <1>6 DEF Thread, Enter
<1>7. CASE RawMode \/ RawFlag
  BY <1>7 DEF RawMode, RawFlag
<1>8. CASE MouseOn \/ Clock
  BY <1>8 DEF MouseOn, Clock
<1>9. CASE LoopKeys \/ LoopDone \/ CaptureFails
  BY <1>9 DEF LoopKeys, LoopDone, CaptureFails
<1>10. CASE MouseOff \/ Restore
  BY <1>10 DEF MouseOff, Restore
<1>11. CASE RestoreFlag \/ LeaveScreen
  BY <1>11 DEF RestoreFlag, LeaveScreen
<1>12. CASE FreeBuffers \/ Plugins
  BY <1>12 DEF FreeBuffers, Plugins
<1>13. CASE StopThread \/ CloseCamera
  BY <1>13 DEF StopThread, CloseCamera
<1>14. CASE Ask \/ Emergency
  BY <1>14 DEF Ask, Emergency, Over
<1>15. CASE UNCHANGED all
  BY <1>15 DEF all
<1> QED
  BY <1>1, <1>2, <1>3, <1>4, <1>5, <1>6, <1>7, <1>8, <1>9, <1>10, <1>11, <1>12, <1>13, <1>14, <1>15 DEF SessionNext

\* The terminal.
LEMMA ScreenStep ==
  ASSUME LifeInv, [SessionNext]_all
  PROVE  ScreenInv'
<1> USE DEF Go, Gets, Keeps, Quiet, own, image, LifeInv, Stages, ScreenInv, Screen
<1>1. CASE PlayProbe \/ PlayEnd
  BY <1>1 DEF PlayProbe, PlayEnd
<1>2. CASE NoPlugin \/ CopyPlugin \/ LoadPlugin
  BY <1>2 DEF NoPlugin, CopyPlugin, LoadPlugin
<1>3. CASE LoadFailed \/ LoadRefused \/ LoadDone
  BY <1>3 DEF LoadFailed, LoadRefused, LoadDone
<1>4. CASE Camera \/ Gray \/ NoPixels
  BY <1>4 DEF Camera, Gray, NoPixels
<1>5. CASE Rgb \/ Out
  BY <1>5 DEF Rgb, Out, NoMemory
<1>6. CASE Thread \/ Clock
  BY <1>6 DEF Thread, Clock
<1>7. CASE LoopKeys \/ LoopDone \/ CaptureFails
  BY <1>7 DEF LoopKeys, LoopDone, CaptureFails
<1>8. CASE FreeBuffers \/ Plugins
  BY <1>8 DEF FreeBuffers, Plugins
<1>9. CASE StopThread \/ CloseCamera \/ Ask
  BY <1>9 DEF StopThread, CloseCamera, Ask, Over
<1>10. CASE PlayEnter
  <2>1. screen' = Screen(TRUE, TRUE, FALSE, FALSE)
    <3>1. screen = Screen(FALSE, FALSE, FALSE, FALSE)
      BY <1>10 DEF PlayEnter
    <3>2. screen' = [screen EXCEPT !.alt = TRUE, !.hidden = TRUE]
      BY Zenon, <1>10 DEF PlayEnter
    <3> HIDE DEF LifeInv, ScreenInv
    <3> QED BY <3>1, <3>2
  <2> QED BY <1>10, <2>1 DEF PlayEnter
<1>11. CASE PlayLeave
  <2>1. screen' = Screen(FALSE, FALSE, FALSE, FALSE)
    <3>1. screen = Screen(TRUE, TRUE, FALSE, FALSE)
      BY <1>11 DEF PlayLeave
    <3>2. screen' = [screen EXCEPT !.alt = FALSE, !.hidden = FALSE]
      BY Zenon, <1>11 DEF PlayLeave
    <3> HIDE DEF LifeInv, ScreenInv
    <3> QED BY <3>1, <3>2
  <2> QED BY <1>11, <2>1 DEF PlayLeave
<1>12. CASE Enter
  <2>1. screen' = Screen(TRUE, TRUE, FALSE, FALSE)
    <3>1. screen = Screen(FALSE, FALSE, FALSE, FALSE)
      BY <1>12 DEF Enter
    <3>2. screen' = [screen EXCEPT !.alt = TRUE, !.hidden = TRUE]
      BY Zenon, <1>12 DEF Enter
    <3> HIDE DEF LifeInv, ScreenInv
    <3> QED BY <3>1, <3>2
  <2> QED BY <1>12, <2>1 DEF Enter
<1>13. CASE RawMode
  <2>1. screen' = Screen(TRUE, TRUE, TRUE, FALSE)
    <3>1. screen = Screen(TRUE, TRUE, FALSE, FALSE)
      BY <1>13 DEF RawMode
    <3>2. screen' = [screen EXCEPT !.raw = TRUE]
      BY Zenon, <1>13 DEF RawMode
    <3> HIDE DEF LifeInv, ScreenInv
    <3> QED BY <3>1, <3>2
  <2> QED BY <1>13, <2>1 DEF RawMode
<1>14. CASE MouseOn
  <2>1. screen' = Screen(TRUE, TRUE, TRUE, TRUE)
    <3>1. screen = Screen(TRUE, TRUE, TRUE, FALSE)
      BY <1>14 DEF MouseOn
    <3>2. screen' = [screen EXCEPT !.mouse = TRUE]
      BY Zenon, <1>14 DEF MouseOn
    <3> HIDE DEF LifeInv, ScreenInv
    <3> QED BY <3>1, <3>2
  <2> QED BY <1>14, <2>1 DEF MouseOn
<1>15. CASE MouseOff
  <2>1. screen' = Screen(TRUE, TRUE, TRUE, FALSE)
    <3>1. screen = Screen(TRUE, TRUE, TRUE, TRUE)
      BY <1>15 DEF MouseOff
    <3>2. screen' = [screen EXCEPT !.mouse = FALSE]
      BY Zenon, <1>15 DEF MouseOff
    <3> HIDE DEF LifeInv, ScreenInv
    <3> QED BY <3>1, <3>2
  <2> QED BY <1>15, <2>1 DEF MouseOff
<1>16. CASE Restore
  <2>1. screen' = Screen(TRUE, TRUE, FALSE, FALSE)
    <3>1. screen = Screen(TRUE, TRUE, TRUE, FALSE)
      BY <1>16 DEF Restore
    <3>2. screen' = [screen EXCEPT !.raw = FALSE]
      BY Zenon, <1>16 DEF Restore
    <3> HIDE DEF LifeInv, ScreenInv
    <3> QED BY <3>1, <3>2
  <2> QED BY <1>16, <2>1 DEF Restore
<1>17. CASE LeaveScreen
  <2>1. screen' = Screen(FALSE, FALSE, FALSE, FALSE)
    <3>1. screen = Screen(TRUE, TRUE, FALSE, FALSE)
      BY <1>17 DEF LeaveScreen
    <3>2. screen' = [screen EXCEPT !.alt = FALSE, !.hidden = FALSE]
      BY Zenon, <1>17 DEF LeaveScreen
    <3> HIDE DEF LifeInv, ScreenInv
    <3> QED BY <3>1, <3>2
  <2> QED BY <1>17, <2>1 DEF LeaveScreen
<1>18. CASE Emergency
  <2> DEFINE r == screen.raw /\ ~flagged
  <2>1. screen' = Screen(screen.alt, FALSE, r, FALSE)
    BY <1>18 DEF Emergency
  <2>2. stage' = "torn" \/ (stage' = "killed" /\ ~r)
    <3>1. stage \notin Over /\ stage' = IF stage \in {"rawFlag", "playRawFlag"} THEN "torn" ELSE "killed"
      BY <1>18 DEF Emergency
    <3>2. ASSUME stage \notin {"rawFlag", "playRawFlag"} PROVE ~r
      <4>1. CASE stage \in {"mouse", "playing", "restore", "playRestore", "clock", "loop", "mouseOff"}
        BY <4>1
      <4>2. CASE stage \in {"options", "playEnter", "load", "camera", "gray", "rgb", "out", "thread",
                             "enter", "free", "plugins", "stopThread", "closeCamera", "raw",
                             "playRaw", "leave", "playLeave", "restoreFlag", "playRestoreFlag"}
        <5>1. screen.raw = FALSE
          BY <4>2
        <5> QED BY <5>1
      <4> QED BY <3>1, <3>2, <4>1, <4>2 DEF Over
    <3> HIDE DEF r, LifeInv
    <3>3. CASE stage \in {"rawFlag", "playRawFlag"}
      BY <3>1, <3>3
    <3>4. CASE stage \notin {"rawFlag", "playRawFlag"}
      BY <3>1, <3>2, <3>4
    <3> QED BY <3>3, <3>4
  <2>3. screen.alt \in BOOLEAN /\ r \in BOOLEAN /\ flagged' = flagged /\ flagged \in BOOLEAN
    BY <1>18 DEF Emergency
  <2> HIDE DEF r
  <2>4. /\ screen' \in [alt : BOOLEAN, hidden : BOOLEAN, raw : BOOLEAN, mouse : BOOLEAN]
        /\ screen'.alt = screen.alt /\ ~screen'.mouse
    BY <2>1, <2>3
  <2>5. stage' = "killed" => screen' = Screen(screen'.alt, FALSE, FALSE, FALSE)
    BY <2>1, <2>2, <2>3, <2>4
  <2> QED BY <2>2, <2>3, <2>4, <2>5
<1>19. CASE RawFlag
  <2>1. screen = Screen(TRUE, TRUE, TRUE, FALSE) /\ stage' \in {"mouse", "playing"} /\ screen' = screen
    BY <1>19 DEF RawFlag
  <2>2. flagged' = TRUE
    BY Zenon, <1>19 DEF RawFlag
  <2>3. flagged' /\ flagged' \in BOOLEAN
    BY Zenon, <2>2
  <2> HIDE DEF LifeInv
  <2> QED BY <2>1, <2>3
<1>20. CASE RestoreFlag
  <2>1. screen = Screen(TRUE, TRUE, FALSE, FALSE) /\ stage' \in {"leave", "playLeave"} /\ screen' = screen
    BY <1>20 DEF RestoreFlag
  <2>2. flagged' = FALSE
    BY Zenon, <1>20 DEF RestoreFlag
  <2>3. ~flagged' /\ flagged' \in BOOLEAN
    BY Zenon, <2>2
  <2> HIDE DEF LifeInv
  <2> QED BY <2>1, <2>3
<1>21. CASE UNCHANGED all
  BY <1>21 DEF all
<1> QED
  BY <1>1, <1>2, <1>3, <1>4, <1>5, <1>6, <1>7, <1>8, <1>9, <1>10, <1>11, <1>12, <1>13, <1>14, <1>15, <1>16, <1>17, <1>18, <1>19, <1>20, <1>21
  DEF SessionNext

\* What is held.
LEMMA HeldStep ==
  ASSUME LifeInv, [SessionNext]_all
  PROVE  HeldInv'
<1> USE DEF Go, Gets, Keeps, Quiet, own, image, LifeInv, Stages, HeldInv
<1>1. CASE PlayProbe \/ PlayEnter \/ PlayEnd \/ PlayLeave
  BY <1>1 DEF PlayProbe, PlayEnter, PlayEnd, PlayLeave
<1>2. CASE NoPlugin \/ CopyPlugin \/ LoadPlugin
  BY <1>2 DEF NoPlugin, CopyPlugin, LoadPlugin
<1>3. CASE LoadFailed \/ LoadRefused \/ LoadDone
  BY <1>3 DEF LoadFailed, LoadRefused, LoadDone
<1>4. CASE Camera \/ Gray \/ NoPixels
  BY <1>4 DEF Camera, Gray, NoPixels
<1>5. CASE Rgb \/ Out
  BY <1>5 DEF Rgb, Out, NoMemory
<1>6. CASE Thread \/ Enter
  BY <1>6 DEF Thread, Enter
<1>7. CASE RawMode \/ RawFlag
  BY <1>7 DEF RawMode, RawFlag
<1>8. CASE MouseOn \/ Clock
  BY <1>8 DEF MouseOn, Clock
<1>9. CASE LoopKeys \/ LoopDone \/ CaptureFails
  BY <1>9 DEF LoopKeys, LoopDone, CaptureFails
<1>10. CASE MouseOff \/ Restore
  BY <1>10 DEF MouseOff, Restore
<1>11. CASE RestoreFlag \/ LeaveScreen
  BY <1>11 DEF RestoreFlag, LeaveScreen
<1>12. CASE FreeBuffers \/ Plugins
  BY <1>12 DEF FreeBuffers, Plugins
<1>13. CASE StopThread \/ CloseCamera
  BY <1>13 DEF StopThread, CloseCamera
<1>14. CASE Ask \/ Emergency
  BY <1>14 DEF Ask, Emergency, Over
<1>15. CASE UNCHANGED all
  BY <1>15 DEF all
<1> QED
  BY <1>1, <1>2, <1>3, <1>4, <1>5, <1>6, <1>7, <1>8, <1>9, <1>10, <1>11, <1>12, <1>13, <1>14, <1>15 DEF SessionNext

\* The plugin.
LEMMA PluginStep ==
  ASSUME LifeInv, [SessionNext]_all
  PROVE  PluginInv'
<1> USE DEF Go, Gets, Keeps, Quiet, own, image, LifeInv, Stages, PluginInv
<1>1. CASE PlayProbe \/ PlayEnter \/ PlayEnd \/ PlayLeave
  BY <1>1 DEF PlayProbe, PlayEnter, PlayEnd, PlayLeave
<1>2. CASE NoPlugin \/ CopyPlugin \/ LoadPlugin
  BY <1>2 DEF NoPlugin, CopyPlugin, LoadPlugin
<1>3. CASE LoadFailed \/ LoadRefused \/ LoadDone
  BY <1>3 DEF LoadFailed, LoadRefused, LoadDone, Dl!DlClose, Dl!NoImage
<1>4. CASE Camera \/ Gray \/ NoPixels
  BY <1>4 DEF Camera, Gray, NoPixels
<1>5. CASE Rgb \/ Out
  BY <1>5 DEF Rgb, Out, NoMemory
<1>6. CASE Thread \/ Enter
  BY <1>6 DEF Thread, Enter
<1>7. CASE RawMode \/ RawFlag
  BY <1>7 DEF RawMode, RawFlag
<1>8. CASE MouseOn \/ Clock
  BY <1>8 DEF MouseOn, Clock
<1>9. CASE LoopKeys \/ LoopDone \/ CaptureFails
  BY <1>9 DEF LoopKeys, LoopDone, CaptureFails
<1>10. CASE MouseOff \/ Restore
  BY <1>10 DEF MouseOff, Restore
<1>11. CASE RestoreFlag \/ LeaveScreen
  BY <1>11 DEF RestoreFlag, LeaveScreen
<1>12. CASE FreeBuffers \/ Plugins
  BY <1>12 DEF FreeBuffers, Plugins, Dl!DlClose, Dl!NoImage
<1>13. CASE StopThread \/ CloseCamera
  BY <1>13 DEF StopThread, CloseCamera
<1>14. CASE Ask \/ Emergency
  BY <1>14 DEF Ask, Emergency, Over
<1>15. CASE UNCHANGED all
  BY <1>15 DEF all
<1> QED
  BY <1>1, <1>2, <1>3, <1>4, <1>5, <1>6, <1>7, <1>8, <1>9, <1>10, <1>11, <1>12, <1>13, <1>14, <1>15 DEF SessionNext

LEMMA LifeInvariance == SessionSpec => []LifeInv
<1>1. SessionInit => LifeInv
  BY LifeInit
<1>2. LifeInv /\ [SessionNext]_all => LifeInv'
  BY StageStep, ScreenStep, HeldStep, PluginStep DEF LifeInv
<1> QED BY <1>1, <1>2, PTL DEF SessionSpec

LEMMA LifeInvSound ==
  ASSUME LifeInv, ImageInv
  PROVE  /\ TerminalGivenBack /\ ReportsOnlyRaw /\ LoopOnScreen
         /\ NothingLeft /\ RefusedReleases /\ ThreadHasCamera
<1>1. TerminalGivenBack
  <2>1. stage \in {"exit", "refused", "starved"} => screen = Shell
    BY DEF LifeInv, ScreenInv, Screen, Shell
  <2>2. ASSUME stage = "killed" PROVE [screen EXCEPT !.alt = FALSE] = Shell
    <3>1. screen = Screen(screen.alt, FALSE, FALSE, FALSE)
      BY <2>2 DEF LifeInv, ScreenInv
    <3>2. screen.alt \in BOOLEAN
      BY DEF LifeInv, ScreenInv
    <3>3. ASSUME NEW t, t = [screen EXCEPT !.alt = FALSE] PROVE t = Screen(FALSE, FALSE, FALSE, FALSE)
      <4> DEFINE a == screen.alt
      <4>1. screen = Screen(a, FALSE, FALSE, FALSE) /\ a \in BOOLEAN
        BY <3>1, <3>2
      <4> HIDE DEF a
      <4> QED BY <3>3, <4>1 DEF Screen
    <3> QED BY <3>3 DEF Shell, Screen
  <2> QED BY <2>1, <2>2 DEF TerminalGivenBack
<1>2. ReportsOnlyRaw
  BY DEF LifeInv, Stages, ScreenInv, Screen, ReportsOnlyRaw
<1>3. LoopOnScreen
  BY DEF LifeInv, ScreenInv, Screen, LoopOnScreen
<1>4. NothingLeft
  <2> SUFFICES ASSUME stage = "exit"
               PROVE  held = {} /\ copies = {} /\ dl.pc # "open" /\ mem = Dl!Nothing
    BY DEF NothingLeft
  <2>1. held = {} /\ copies = {} /\ dl.pc \in {"closed", "failed"}
    BY DEF LifeInv, HeldInv, PluginInv
  <2>2. mem = Dl!Nothing
    BY <2>1, ClosedIsNothing
  <2> QED BY <2>1, <2>2
<1>5. RefusedReleases
  BY DEF LifeInv, HeldInv, RefusedReleases
<1>6. ThreadHasCamera
  BY DEF LifeInv, Stages, HeldInv, ThreadHasCamera
<1> QED BY <1>1, <1>2, <1>3, <1>4, <1>5, <1>6

-----------------------------------------------------------------------------
(* What has not been handled *)

LEMMA BytesNone == Bytes(<<>>) = <<>>
<1>1. Codes(<<>>) = <<>>
  BY DEF Codes
<1>2. FlattenSeq(<<>>) = <<>>
  BY DEF FlattenSeq
<1>3. Bytes(<<>>) = FlattenSeq(Codes(<<>>))
  BY DEF Bytes, Codes
<1> QED BY <1>1, <1>2, <1>3

LEMMA BytesText ==
  ASSUME NEW box \in Seq(Entry)
  PROVE  Bytes(box) \in Seq(Byte) /\ Size(box) = Len(Bytes(box)) /\ Size(box) \in Nat
<1>1. Codes(box) \in Seq(Seq(Byte))
  BY CodesText
<1>2. Bytes(box) = FlattenSeq(Codes(box))
  BY DEF Bytes, Codes
<1>3. <<>> \in Seq(Byte)
  BY EmptySeq
<1>4. FlattenSeq(Codes(box)) \in Seq(Byte)
  BY <1>1, <1>3, FlattenAppend
<1> QED BY <1>2, <1>4, LenProperties DEF Size

LEMMA BytesConcat ==
  ASSUME NEW a \in Seq(Entry), NEW b \in Seq(Entry)
  PROVE  Bytes(a \o b) = Bytes(a) \o Bytes(b)
<1> DEFINE T == {n \in Nat : \A c \in Seq(Entry) : Len(c) = n => Bytes(a \o c) = Bytes(a) \o Bytes(c)}
<1>1. 0 \in T
  <2> SUFFICES ASSUME NEW c \in Seq(Entry), Len(c) = 0 PROVE Bytes(a \o c) = Bytes(a) \o Bytes(c)
    OBVIOUS
  <2>1. c = <<>>
    BY EmptySeq
  <2>2. a \o <<>> = a /\ Bytes(a) \o <<>> = Bytes(a)
    BY BytesText, ConcatEmptySeq
  <2> QED BY <2>1, <2>2, BytesNone
<1>2. ASSUME NEW n \in Nat, n \in T PROVE n + 1 \in T
  <2> SUFFICES ASSUME NEW c \in Seq(Entry), Len(c) = n + 1 PROVE Bytes(a \o c) = Bytes(a) \o Bytes(c)
    OBVIOUS
  <2>1. c # <<>>
    BY EmptySeq
  <2>2. PICK d \in Seq(Entry), x \in Entry : c = Append(d, x)
    BY <2>1, SequenceEmptyOrAppend
  <2>3. Len(d) = n
    BY <2>2, AppendProperties, LenProperties
  <2>4. Bytes(a \o d) = Bytes(a) \o Bytes(d)
    BY <1>2, <2>3
  <2>5. a \o d \in Seq(Entry)
    BY ConcatProperties
  <2>6. a \o c = Append(a \o d, x)
    <3>1. <<x>> \in Seq(Entry)
      OBVIOUS
    <3>2. Append(d, x) = d \o <<x>> /\ Append(a \o d, x) = (a \o d) \o <<x>>
      BY <2>5, AppendIsConcat
    <3>3. (a \o d) \o <<x>> = a \o (d \o <<x>>)
      BY <3>1, ConcatAssociative
    <3> QED BY <2>2, <3>2, <3>3
  <2> DEFINE e == Encoding(x.ev)
  <2>7. e \in Seq(Byte)
    BY EncodingText DEF Entry
  <2>8. Bytes(c) = Bytes(d) \o e /\ Bytes(a \o c) = Bytes(a \o d) \o e
    BY <2>2, <2>5, <2>6, BytesAppend
  <2> HIDE DEF e
  <2>9. (Bytes(a) \o Bytes(d)) \o e = Bytes(a) \o (Bytes(d) \o e)
    <3>1. Bytes(a) \in Seq(Byte) /\ Bytes(d) \in Seq(Byte)
      BY BytesText
    <3> QED BY <2>7, <3>1, ConcatAssociative
  <2> QED BY <2>4, <2>8, <2>9
<1> HIDE DEF T
<1>3. Nat \subseteq T
  BY <1>1, <1>2, Induction
<1>4. Len(b) \in T
  BY <1>3, LenProperties
<1> QED BY <1>4 DEF T

IsEnd(r, b) == EndIn(Byte, r, b)

LEMMA EndOfEnd ==
  ASSUME NEW r \in Seq(Byte), NEW s \in Seq(Byte), NEW b, IsEnd(r, s), IsEnd(s, b)
  PROVE  IsEnd(r, b)
<1>1. PICK c \in Seq(Byte) : s = c \o r
  BY DEF IsEnd, EndIn
<1>2. PICK a \in Seq(Byte) : b = a \o s
  BY DEF IsEnd, EndIn
<1>3. a \o c \in Seq(Byte) /\ (a \o c) \o r = a \o (c \o r)
  BY ConcatProperties, ConcatAssociative
<1> QED BY <1>1, <1>2, <1>3 DEF IsEnd, EndIn

\* q holds the events of box that rest belongs to.
Kept(q, box, rest) == q \in Seq(Entry) /\ Len(q) <= Len(box) /\ IsEnd(rest, Bytes(q))

LEMMA KeptUnhandled ==
  ASSUME NEW box \in Seq(Entry), NEW rest \in Seq(Byte), IsEnd(rest, Bytes(box))
  PROVE  Kept(Unhandled(box, Len(rest)), box, rest)
<1> DEFINE n == Len(rest)
           good(s) == s \in Suffixes(box) /\ Size(s) >= n
           least(s) == good(s) /\ \A r \in Suffixes(box) : Size(r) >= n => Len(s) <= Len(r)
<1>1. ASSUME n = 0 PROVE Kept(Unhandled(box, n), box, rest)
  <2>1. rest = <<>> /\ Unhandled(box, n) = <<>>
    BY <1>1, EmptySeq DEF Unhandled
  <2>2. <<>> \in Seq(Entry) /\ <<>> \in Seq(Byte) /\ Len(<<>>) = 0 /\ Len(box) \in Nat
    BY EmptySeq, LenProperties
  <2>3. <<>> = <<>> \o <<>>
    BY <2>2, ConcatEmptySeq
  <2>4. IsEnd(<<>>, <<>>)
    BY <2>2, <2>3 DEF IsEnd, EndIn
  <2>5. Kept(<<>>, box, <<>>)
    BY <2>2, <2>4, BytesNone DEF Kept
  <2> HIDE DEF n
  <2> QED BY <2>1, <2>5
<1>2. \A s \in Suffixes(box) : s \in Seq(Entry) /\ Len(s) <= Len(box) /\ \E p \in Seq(Entry) : box = p \o s
  <2> SUFFICES ASSUME NEW s \in Suffixes(box)
               PROVE  s \in Seq(Entry) /\ Len(s) <= Len(box) /\ \E p \in Seq(Entry) : box = p \o s
    OBVIOUS
  <2>1. s \in Seq(Entry)
    <3>1. CASE s = <<>>
      BY <3>1, EmptySeq
    <3>2. CASE s # <<>>
      <4>1. PICK l \in 1 .. Len(box) : s = SubSeq(box, l, Len(box))
        BY <3>2 DEF Suffixes
      <4>2. \A i \in l .. Len(box) : box[i] \in Entry
        OBVIOUS
      <4>3. l \in Int /\ Len(box) \in Int
        OBVIOUS
      <4> QED BY <4>1, <4>2, <4>3, SubSeqProperties
    <3> QED BY <3>1, <3>2
  <2>2. PICK p \in Seq(Entry) : box = p \o s
    BY <2>1, SuffixIff
  <2>3. Len(box) = Len(p) + Len(s) /\ Len(p) \in Nat /\ Len(s) \in Nat
    BY <2>1, <2>2, ConcatProperties, LenProperties
  <2>4. Len(s) <= Len(box)
    BY <2>3
  <2> QED BY Zenon, <2>1, <2>2, <2>4
<1>3. n \in Nat /\ Size(box) >= n
  <2>1. PICK a \in Seq(Byte) : Bytes(box) = a \o rest
    BY DEF IsEnd, EndIn
  <2>2. Len(Bytes(box)) = Len(a) + n /\ Len(a) \in Nat /\ n \in Nat
    BY <2>1, ConcatProperties, LenProperties
  <2> QED BY <2>2, BytesText
<1>4. good(box)
  <2>1. <<>> \in Seq(Entry) /\ box = <<>> \o box
    BY EmptySeq, ConcatEmptySeq
  <2>2. box \in Suffixes(box)
    BY <2>1, SuffixIff
  <2> QED BY <1>3, <2>2
<1> HIDE DEF n
<1>5. \E s : least(s)
  <2> DEFINE sizes == {Len(s) : s \in {r \in Suffixes(box) : Size(r) >= n}}
  <2>1. sizes \subseteq Nat
    BY <1>2, LenProperties
  <2>2. Len(box) \in sizes
    BY <1>4
  <2>3. PICK l \in sizes : \A x \in sizes : l <= x
    <3> HIDE DEF sizes
    <3> QED BY <2>1, <2>2, HasLeast
  <2>4. PICK s \in Suffixes(box) : Size(s) >= n /\ Len(s) = l
    BY <2>3
  <2> QED BY <2>3, <2>4
<1>6. ASSUME n # 0 PROVE Kept(Unhandled(box, n), box, rest)
  <2> DEFINE q == Unhandled(box, n)
  <2>1. q = CHOOSE s \in Suffixes(box) : /\ Size(s) >= n
                                         /\ \A r \in Suffixes(box) : Size(r) >= n => Len(s) <= Len(r)
    BY <1>6 DEF Unhandled
  <2> HIDE DEF q
  <2>2. q \in Suffixes(box) /\ Size(q) >= n
    BY <1>5, <2>1
  <2>3. q \in Seq(Entry) /\ Len(q) <= Len(box)
    BY <1>2, <2>2
  <2>4. PICK p \in Seq(Entry) : box = p \o q
    BY <1>2, <2>2
  <2>5. PICK a \in Seq(Byte) : Bytes(box) = a \o rest
    BY DEF IsEnd, EndIn
  <2>6. Bytes(p) \o Bytes(q) = a \o rest
    BY <2>3, <2>4, <2>5, BytesConcat
  <2>7. Bytes(p) \in Seq(Byte) /\ Bytes(q) \in Seq(Byte) /\ Len(Bytes(q)) >= Len(rest)
    BY <2>2, <2>3, BytesText DEF n
  <2>8. \E e \in Seq(Byte) : Bytes(q) = e \o rest
    <3> DEFINE b == Bytes(p)
               c == Bytes(q)
    <3>1. b \in Seq(Byte) /\ c \in Seq(Byte) /\ Len(c) >= Len(rest) /\ b \o c = a \o rest
      BY <2>6, <2>7
    <3> HIDE DEF b, c
    <3>2. EndIn(Byte, rest, c)
      BY <3>1, LongerSuffix
    <3> QED BY <3>2 DEF c, EndIn
  <2>9. Kept(q, box, rest)
    BY <2>3, <2>8 DEF Kept, IsEnd, EndIn
  <2> QED BY <2>9 DEF q
<1> QED BY <1>1, <1>6 DEF n

LEMMA TornKeepsBytes ==
  ASSUME NEW q \in Seq(Entry)
  PROVE  TornHead(q) \in Seq(Entry) /\ Len(TornHead(q)) = Len(q) /\ Bytes(TornHead(q)) = Bytes(q)
<1>1. CASE q = <<>>
  BY <1>1 DEF TornHead
<1>2. CASE q # <<>>
  <2> DEFINE h == [q[1] EXCEPT !.torn = TRUE]
             t == [q EXCEPT ![1] = h]
  <2>1. TornHead(q) = t
    BY <1>2 DEF TornHead
  <2>2. 1 \in 1 .. Len(q) /\ Len(q) \in Nat
    BY <1>2, EmptySeq
  <2>3. q[1] \in Entry
    BY <2>2
  <2>4. h \in Entry /\ h.ev = q[1].ev
    BY <2>3 DEF Entry
  <2> HIDE DEF h
  <2>5. /\ t \in Seq(Entry) /\ Len(t) = Len(q)
        /\ \A j \in 1 .. Len(q) : t[j] = IF j = 1 THEN h ELSE q[j]
    BY <2>2, <2>4, ExceptSeq
  <2> HIDE DEF t
  <2>6. \A j \in 1 .. Len(q) : t[j].ev = q[j].ev
    BY <2>4, <2>5
  <2>7. DOMAIN t = 1 .. Len(q) /\ DOMAIN q = 1 .. Len(q)
    BY <2>5, LenProperties
  <2>8. Bytes(t) = Bytes(q)
    <3>1. Codes(t) = Codes(q)
      BY <2>6, <2>7 DEF Codes
    <3>2. Bytes(t) = FlattenSeq(Codes(t)) /\ Bytes(q) = FlattenSeq(Codes(q))
      BY DEF Bytes, Codes
    <3> QED BY <3>1, <3>2
  <2> QED BY <2>1, <2>5, <2>8
<1> QED BY <1>1, <1>2

LEMMA KeptTorn ==
  ASSUME NEW q, NEW box, NEW rest, NEW n, Kept(q, box, rest)
  PROVE  Kept(TornHead(q), box, rest) /\ Kept(Cut(q, n), box, rest)
<1>1. Kept(TornHead(q), box, rest)
  BY TornKeepsBytes DEF Kept
<1> QED BY <1>1 DEF Cut

-----------------------------------------------------------------------------
(* The user interface *)

\* A cursor in a list of n entries, which may be empty.
InList(sel, n) == sel \in Nat /\ (sel = 0 \/ sel < n)

LEMMA MaxOfTwo ==
  ASSUME NEW n \in Nat
  PROVE  Max({0, n - 1}) = IF n = 0 THEN 0 ELSE n - 1
<1> DEFINE S == {0, n - 1}
           m == IF n = 0 THEN 0 ELSE n - 1
<1>1. m \in S /\ \A x \in S : m >= x
  OBVIOUS
<1>2. \A y \in S : (\A x \in S : y >= x) => y = m
  OBVIOUS
<1> HIDE DEF S, m
<1>3. Max(S) = m
  BY <1>1, <1>2 DEF Max
<1> QED BY <1>3 DEF S, m

LEMMA CursorInList ==
  ASSUME NEW n \in Nat, NEW sel
  PROVE  sel \in 0 .. Max({0, n - 1}) <=> InList(sel, n)
<1>1. CASE n = 0
  BY <1>1, MaxOfTwo DEF InList
<1>2. CASE n # 0
  <2>1. Max({0, n - 1}) = n - 1 /\ n >= 1
    BY <1>2, MaxOfTwo
  <2>2. sel \in 0 .. n - 1 <=> InList(sel, n)
    BY <2>1 DEF InList
  <2> QED BY Zenon, <2>1, <2>2
<1> QED BY <1>1, <1>2

\* What Matches has found among the first n names.
IsUpTo(f, query, n) ==
  f = [i \in 0 .. n |->
        IF i = 0 THEN <<>>
        ELSE IF NameMatch(Names[i], query) THEN Append(f[i - 1], i) ELSE f[i - 1]]

LEMMA UpToExists ==
  ASSUME NEW query, NEW m \in Nat
  PROVE  \E f : IsUpTo(f, query, m) /\ f[m] \in Seq(Nat)
<1> DEFINE T == {n \in Nat : \E f : IsUpTo(f, query, n) /\ f[n] \in Seq(Nat)}
<1>1. 0 \in T
  <2> DEFINE f == [i \in 0 .. 0 |-> <<>>]
  <2>1. f = [i \in 0 .. 0 |-> IF i = 0 THEN <<>>
                              ELSE IF NameMatch(Names[i], query) THEN Append(f[i - 1], i) ELSE f[i - 1]]
    OBVIOUS
  <2>2. f[0] = <<>> /\ <<>> \in Seq(Nat)
    OBVIOUS
  <2> HIDE DEF f
  <2> QED BY <2>1, <2>2 DEF IsUpTo
<1>2. ASSUME NEW n \in Nat, n \in T PROVE n + 1 \in T
  <2>1. PICK f : IsUpTo(f, query, n) /\ f[n] \in Seq(Nat)
    BY <1>2
  <2> DEFINE new == IF NameMatch(Names[n + 1], query) THEN Append(f[n], n + 1) ELSE f[n]
             g == [i \in 0 .. n + 1 |-> IF i <= n THEN f[i] ELSE new]
             s(i) == IF i = 0 THEN <<>>
                     ELSE IF NameMatch(Names[i], query) THEN Append(g[i - 1], i) ELSE g[i - 1]
  <2>2. \A i \in 0 .. n : f[i] = IF i = 0 THEN <<>>
                                 ELSE IF NameMatch(Names[i], query) THEN Append(f[i - 1], i) ELSE f[i - 1]
    <3> DEFINE step == [i \in 0 .. n |-> IF i = 0 THEN <<>>
                         ELSE IF NameMatch(Names[i], query) THEN Append(f[i - 1], i) ELSE f[i - 1]]
    <3>1. f = step
      BY Zenon, <2>1 DEF IsUpTo
    <3>2. \A i \in 0 .. n : step[i] = IF i = 0 THEN <<>>
                                ELSE IF NameMatch(Names[i], query) THEN Append(f[i - 1], i) ELSE f[i - 1]
      OBVIOUS
    <3> HIDE DEF step
    <3> QED BY <3>1, <3>2
  <2>3. new \in Seq(Nat)
    BY <2>1
  <2>4. (\A i \in 0 .. n : g[i] = f[i]) /\ g[n + 1] = new
    <3> HIDE DEF new
    <3> QED OBVIOUS
  <2>5. g = [i \in 0 .. n + 1 |-> g[i]]
    OBVIOUS
  <2> HIDE DEF g
  <2>6. ASSUME NEW i \in 0 .. n + 1 PROVE g[i] = s(i)
    <3>1. CASE i \in 0 .. n
      <4>1. g[i] = f[i] /\ (i # 0 => i - 1 \in 0 .. n)
        BY <2>4, <3>1
      <4>2. i # 0 => g[i - 1] = f[i - 1]
        BY <2>4, <4>1
      <4> QED BY <2>2, <3>1, <4>1, <4>2
    <3>2. CASE i = n + 1
      <4>1. i # 0 /\ i - 1 = n /\ g[i - 1] = f[n] /\ g[i] = new
        BY <2>4, <3>2
      <4> QED BY Zenon, <3>2, <4>1
    <3> QED BY <3>1, <3>2
  <2>7. g = [i \in 0 .. n + 1 |-> s(i)]
    <3> HIDE DEF s
    <3> QED BY <2>5, <2>6
  <2>8. IsUpTo(g, query, n + 1)
    BY Zenon, <2>7 DEF IsUpTo
  <2>9. g[n + 1] \in Seq(Nat)
    BY <2>3, <2>4
  <2> QED BY <2>8, <2>9
<1> HIDE DEF T
<1>3. Nat \subseteq T
  BY <1>1, <1>2, Induction
<1> QED BY <1>3 DEF T

LEMMA UpToUnique ==
  ASSUME NEW query, NEW m \in Nat, NEW f, NEW g, IsUpTo(f, query, m), IsUpTo(g, query, m)
  PROVE  f[m] = g[m]
<1> DEFINE T == {n \in Nat : n <= m => f[n] = g[n]}
           sf == [i \in 0 .. m |-> IF i = 0 THEN <<>>
                   ELSE IF NameMatch(Names[i], query) THEN Append(f[i - 1], i) ELSE f[i - 1]]
           sg == [i \in 0 .. m |-> IF i = 0 THEN <<>>
                   ELSE IF NameMatch(Names[i], query) THEN Append(g[i - 1], i) ELSE g[i - 1]]
<1>0. f = sf /\ g = sg
  BY Zenon DEF IsUpTo
<1>1. 0 \in T
  <2>1. sf[0] = <<>> /\ sg[0] = <<>>
    OBVIOUS
  <2> HIDE DEF sf, sg
  <2> QED BY <1>0, <2>1
<1>2. ASSUME NEW n \in Nat, n \in T PROVE n + 1 \in T
  <2> SUFFICES ASSUME n + 1 <= m PROVE f[n + 1] = g[n + 1]
    OBVIOUS
  <2>1. f[n] = g[n] /\ n + 1 \in 0 .. m /\ n + 1 # 0 /\ (n + 1) - 1 = n
    BY <1>2
  <2>2. /\ sf[n + 1] = IF NameMatch(Names[n + 1], query) THEN Append(f[n], n + 1) ELSE f[n]
        /\ sg[n + 1] = IF NameMatch(Names[n + 1], query) THEN Append(g[n], n + 1) ELSE g[n]
    BY <2>1
  <2> HIDE DEF sf, sg
  <2> QED BY <1>0, <2>1, <2>2
<1> HIDE DEF T
<1>3. Nat \subseteq T
  BY <1>1, <1>2, Induction
<1>4. m \in T /\ m <= m
  BY <1>3
<1> QED BY <1>4 DEF T

LEMMA MatchesType ==
  ASSUME NEW query
  PROVE  Matches(query) \in Seq(Nat) /\ Len(Matches(query)) \in Nat
<1> DEFINE n == Len(Names)
           upTo[i \in 0 .. n] ==
             IF i = 0 THEN <<>>
             ELSE IF NameMatch(Names[i], query) THEN Append(upTo[i - 1], i) ELSE upTo[i - 1]
<1>1. n \in Nat
  BY PanelsAssumption, LenProperties
<1>2. Matches(query) = upTo[n]
  BY DEF Matches
<1>3. upTo = CHOOSE f : IsUpTo(f, query, n)
  BY DEF upTo, IsUpTo
<1> HIDE DEF upTo, n
<1>4. PICK f : IsUpTo(f, query, n) /\ f[n] \in Seq(Nat)
  BY <1>1, UpToExists
<1>5. IsUpTo(upTo, query, n)
  BY <1>3, <1>4
<1>6. upTo[n] = f[n]
  BY <1>1, <1>4, <1>5, UpToUnique
<1> QED BY <1>2, <1>4, <1>6, LenProperties

\* What holds of the interface whatever is done with it.
BrowserOK(b) ==
  DOMAIN b = {"active", "files", "sel"} /\ Len(b.files) \in Nat /\ InList(b.sel, Len(b.files))

PickerOK(p) ==
  /\ DOMAIN p = {"active", "query", "sel"}
  /\ p.query \in Seq(Byte) /\ Len(p.query) < QUERY_MAX
  /\ p.active => InList(p.sel, Len(Matches(p.query)))

Views == {"none", "preview", "playing", "footer"}

UiOK(u) ==
  /\ DOMAIN u = {"br", "pk", "sel", "rec", "view", "running", "out"}
  /\ BrowserOK(u.br) /\ PickerOK(u.pk) /\ InList(u.sel, PLUGINS) /\ u.view \in Views

\* One field of the interface changes.
LEMMA SetBrowser ==
  ASSUME NEW u, UiOK(u), NEW b, BrowserOK(b)
  PROVE  UiOK([u EXCEPT !.br = b]) /\ [u EXCEPT !.br = b].view = u.view
  BY DEF UiOK

LEMMA SetPicker ==
  ASSUME NEW u, UiOK(u), NEW p, PickerOK(p)
  PROVE  UiOK([u EXCEPT !.pk = p]) /\ [u EXCEPT !.pk = p].view = u.view
  BY DEF UiOK

LEMMA SetView ==
  ASSUME NEW u, UiOK(u), NEW v \in Views
  PROVE  UiOK([u EXCEPT !.view = v])
  BY DEF UiOK

LEMMA SetOther ==
  ASSUME NEW u, UiOK(u), NEW x
  PROVE  /\ UiOK([u EXCEPT !.rec = x]) /\ [u EXCEPT !.rec = x].view = u.view
         /\ UiOK([u EXCEPT !.running = x]) /\ [u EXCEPT !.running = x].view = u.view
         /\ UiOK([u EXCEPT !.out = x]) /\ [u EXCEPT !.out = x].view = u.view
         /\ InList(x, PLUGINS) => UiOK([u EXCEPT !.sel = x]) /\ [u EXCEPT !.sel = x].view = u.view
  BY DEF UiOK

LEMMA GivenUi ==
  ASSUME NEW u, UiOK(u), NEW what
  PROVE  UiOK(Given(u, what)) /\ Given(u, what).view = u.view
<1> DEFINE o == [flip |-> 1 - u.out.flip, what |-> what]
<1>1. Given(u, what) = [u EXCEPT !.out = o]
  BY DEF Given
<1> HIDE DEF o
<1>2. UiOK([u EXCEPT !.out = o]) /\ [u EXCEPT !.out = o].view = u.view
  BY SetOther
<1> QED BY Zenon, <1>1, <1>2

LEMMA BrowserSteps ==
  ASSUME NEW b, BrowserOK(b)
  PROVE  /\ BrowserOK(BrowserUp(b)) /\ BrowserOK(BrowserDown(b))
         /\ BrowserOK([b EXCEPT !.active = FALSE]) /\ BrowserOK([b EXCEPT !.sel = 0])
         /\ BrowserOK([b EXCEPT !.sel = IF b.files = <<>> THEN 0 ELSE Len(b.files) - 1])
<1> DEFINE n == Len(b.files)
<1>1. \A x : InList(x, n) => BrowserOK([b EXCEPT !.sel = x])
  BY DEF BrowserOK
<1>2. n \in Nat /\ InList(b.sel, n)
  BY DEF BrowserOK
<1>3. BrowserOK(BrowserUp(b))
  <2> DEFINE x == IF b.sel > 0 THEN b.sel - 1 ELSE b.sel
  <2>1. InList(x, n)
    <3> HIDE DEF n
    <3> QED BY <1>2 DEF InList
  <2>2. BrowserUp(b) = [b EXCEPT !.sel = x]
    BY DEF BrowserUp
  <2> HIDE DEF x, n
  <2> QED BY <1>1, <2>1, <2>2
<1>4. BrowserOK(BrowserDown(b))
  <2> DEFINE x == IF b.sel < n - 1 THEN b.sel + 1 ELSE b.sel
  <2>1. InList(x, n)
    <3> HIDE DEF n
    <3> QED BY <1>2 DEF InList
  <2>2. BrowserDown(b) = [b EXCEPT !.sel = x]
    BY DEF BrowserDown
  <2> HIDE DEF x, n
  <2> QED BY <1>1, <2>1, <2>2
<1>5. BrowserOK([b EXCEPT !.active = FALSE])
  BY DEF BrowserOK
<1>6. BrowserOK([b EXCEPT !.sel = 0])
  <2>1. InList(0, n)
    BY DEF InList
  <2> HIDE DEF n
  <2> QED BY <1>1, <2>1
<1>7. BrowserOK([b EXCEPT !.sel = IF b.files = <<>> THEN 0 ELSE Len(b.files) - 1])
  <2> DEFINE x == IF b.files = <<>> THEN 0 ELSE Len(b.files) - 1
  <2>1. InList(x, n)
    <3>1. CASE b.files = <<>>
      BY <3>1 DEF InList
    <3>2. CASE b.files # <<>>
      <4>1. x = n - 1
        BY <3>2
      <4> HIDE DEF x
      <4>2. n \in Nat /\ (n # 0 \/ n = 0)
        BY <1>2
      <4> QED BY <1>2, <3>2, <4>1, <4>2 DEF InList
    <3> QED BY <3>1, <3>2
  <2> HIDE DEF x, n
  <2>2. BrowserOK([b EXCEPT !.sel = x])
    BY <1>1, <2>1
  <2> QED BY <2>2 DEF x
<1> QED BY <1>3, <1>4, <1>5, <1>6, <1>7

LEMMA NoQuery == <<>> \in Seq(Byte) /\ Len(<<>>) = 0 /\ 0 < QUERY_MAX
  BY PanelsAssumption, EmptySeq

LEMMA ShutPicker ==
  /\ PickerOK(Shut) /\ PickerOK([Shut EXCEPT !.active = TRUE])
<1>1. \A n : InList(0, n)
  BY DEF InList
<1> QED BY <1>1, NoQuery DEF PickerOK, Shut

LEMMA PickerSteps ==
  ASSUME NEW p, PickerOK(p), NEW c \in Byte, NEW d \in {-1, 1}
  PROVE  /\ PickerOK(PickerMove(p, d)) /\ PickerOK(Erased(p)) /\ PickerOK(Typed(p, c))
         /\ PickerOK([p EXCEPT !.active = FALSE])
<1>0. \A n : InList(0, n)
  BY DEF InList
<1>1. PickerOK(PickerMove(p, d))
  <2> DEFINE n == Len(Matches(p.query))
             x == (p.sel + d + n) % n
  <2>1. n \in Nat
    BY MatchesType
  <2>2. CASE n = 0
    BY <2>2 DEF PickerMove
  <2>3. CASE n # 0
    <3>1. PickerMove(p, d) = [p EXCEPT !.sel = x]
      BY <2>3 DEF PickerMove
    <3>2. p.active => InList(x, n)
      <4> SUFFICES ASSUME p.active PROVE InList(x, n)
        OBVIOUS
      <4>1. p.sel \in Nat
        BY DEF PickerOK, InList
      <4> DEFINE y == p.sel + d + n
      <4> HIDE DEF n
      <4>2. y \in Int
        BY <2>1, <4>1
      <4> HIDE DEF y
      <4>3. y % n \in 0 .. n - 1
        BY <2>1, <2>3, <4>2
      <4>4. y % n \in Nat /\ y % n < n
        BY <2>1, <4>3
      <4> QED BY <4>4 DEF InList, y
    <3> HIDE DEF x
    <3>3. PickerOK([p EXCEPT !.sel = x])
      BY <3>2 DEF PickerOK
    <3> QED BY <3>1, <3>3
  <2> QED BY <2>2, <2>3
<1>2. \A q : q \in Seq(Byte) /\ Len(q) < QUERY_MAX => PickerOK([p EXCEPT !.query = q, !.sel = 0])
  BY <1>0 DEF PickerOK
<1>3. PickerOK(Erased(p))
  <2>1. CASE p.query = <<>>
    BY <2>1 DEF Erased
  <2>2. CASE p.query # <<>>
    <3> DEFINE q == p.query
    <3>1. q \in Seq(Byte) /\ Len(q) < QUERY_MAX /\ Len(q) \in Nat /\ Len(q) > 0
      BY <2>2, EmptySeq DEF PickerOK
    <3>2. Erased(p) = [p EXCEPT !.query = Front(q), !.sel = 0]
      BY <2>2 DEF Erased
    <3> HIDE DEF q
    <3>3. Front(q) = SubSeq(q, 1, Len(q) - 1)
      BY DEF Front
    <3>4. (\A i \in 1 .. Len(q) - 1 : q[i] \in Byte) /\ 1 \in Int /\ Len(q) - 1 \in Int
      BY <3>1
    <3>5. Front(q) \in Seq(Byte) /\ Len(Front(q)) <= Len(q)
      BY <3>1, <3>3, <3>4, SubSeqProperties
    <3>6. Len(Front(q)) < QUERY_MAX
      BY <3>1, <3>5, LenProperties, PanelsAssumption
    <3> QED BY <1>2, <3>2, <3>5, <3>6
  <2> QED BY <2>1, <2>2
<1>4. PickerOK(Typed(p, c))
  <2>1. CASE c \in Printable /\ Len(p.query) + 1 < QUERY_MAX
    <3> DEFINE q == Append(p.query, c)
    <3>1. q \in Seq(Byte) /\ Len(q) < QUERY_MAX
      BY <2>1, AppendProperties DEF PickerOK
    <3>2. Typed(p, c) = [p EXCEPT !.query = q, !.sel = 0]
      BY <2>1 DEF Typed
    <3> HIDE DEF q
    <3> QED BY <1>2, <3>1, <3>2
  <2>2. CASE ~(c \in Printable /\ Len(p.query) + 1 < QUERY_MAX)
    BY <2>2 DEF Typed
  <2> QED BY <2>1, <2>2
<1>5. PickerOK([p EXCEPT !.active = FALSE])
  BY DEF PickerOK
<1> QED BY <1>1, <1>3, <1>4, <1>5

LEMMA BrowserKeyUi ==
  ASSUME NEW u, UiOK(u), NEW c, NEW v \in BrowserKey(u, c)
  PROVE  UiOK(v)
<1> DEFINE b == u.br
<1>1. BrowserOK(b)
  BY DEF UiOK
<1>2. ASSUME NEW x, BrowserOK(x) PROVE UiOK([u EXCEPT !.br = x])
  BY <1>2, SetBrowser
<1>3. UiOK(Opened(u))
  <2>1. Opened(u) \in {u, [u EXCEPT !.view = "preview"], [u EXCEPT !.view = "playing"]}
    BY DEF Opened
  <2>2. "preview" \in Views /\ "playing" \in Views
    BY DEF Views
  <2>3. UiOK([u EXCEPT !.view = "preview"]) /\ UiOK([u EXCEPT !.view = "playing"])
    BY <2>2, SetView
  <2> QED BY <2>1, <2>3
<1> DEFINE last == IF b.files = <<>> THEN 0 ELSE Len(b.files) - 1
<1>4. v \in {u, Opened(u), [u EXCEPT !.br = [b EXCEPT !.active = FALSE]], [u EXCEPT !.br = BrowserUp(b)],
             [u EXCEPT !.br = BrowserDown(b)], [u EXCEPT !.br = [b EXCEPT !.sel = 0]],
             [u EXCEPT !.br = [b EXCEPT !.sel = last]]}
  <2> HIDE DEF last
  <2>1. CASE c \in {"CR", "NL"}
    BY <2>1 DEF BrowserKey
  <2>2. CASE c \in {"b", "B", "q", "Q"}
    BY <2>2 DEF BrowserKey
  <2>3. CASE c = "k"
    BY <2>3 DEF BrowserKey
  <2>4. CASE c = "j"
    BY <2>4 DEF BrowserKey
  <2>5. CASE c = "g"
    BY <2>5 DEF BrowserKey
  <2>6. CASE c = "G"
    BY <2>6 DEF BrowserKey, last
  <2>7. CASE c \notin {"CR", "NL", "b", "B", "q", "Q", "k", "j", "g", "G"}
    BY <2>7 DEF BrowserKey
  <2> QED BY <2>1, <2>2, <2>3, <2>4, <2>5, <2>6, <2>7
<1>5. /\ UiOK([u EXCEPT !.br = [b EXCEPT !.active = FALSE]]) /\ UiOK([u EXCEPT !.br = BrowserUp(b)])
      /\ UiOK([u EXCEPT !.br = BrowserDown(b)]) /\ UiOK([u EXCEPT !.br = [b EXCEPT !.sel = 0]])
      /\ UiOK([u EXCEPT !.br = [b EXCEPT !.sel = last]])
  <2>1. /\ BrowserOK(BrowserUp(b)) /\ BrowserOK(BrowserDown(b))
        /\ BrowserOK([b EXCEPT !.active = FALSE]) /\ BrowserOK([b EXCEPT !.sel = 0])
        /\ BrowserOK([b EXCEPT !.sel = last])
    <3> HIDE DEF b
    <3> QED BY <1>1, BrowserSteps
  <2> HIDE DEF b, last
  <2> QED BY <1>2, <2>1
<1> HIDE DEF b, last
<1> QED BY <1>3, <1>4, <1>5

LEMMA PickerKeyUi ==
  ASSUME NEW u, UiOK(u), NEW c \in Byte
  PROVE  UiOK(PickerKey(u, c))
<1> DEFINE p == u.pk
<1>1. PickerOK(p) /\ 1 \in {-1, 1}
  BY DEF UiOK
<1>2. ASSUME NEW x, PickerOK(x) PROVE UiOK([u EXCEPT !.pk = x])
  BY <1>2, SetPicker
<1>3. PickerOK(Erased(p)) /\ PickerOK(Typed(p, c)) /\ PickerOK([p EXCEPT !.active = FALSE])
  <2> HIDE DEF p
  <2> QED BY <1>1, PickerSteps
<1>4. UiOK(Chosen(u))
  <2> DEFINE shut == [u EXCEPT !.pk.active = FALSE]
  <2>1. shut = [u EXCEPT !.pk = [p EXCEPT !.active = FALSE]]
    OBVIOUS
  <2>2. UiOK(shut)
    <3> HIDE DEF p, shut
    <3> QED BY <1>2, <1>3, <2>1
  <2>3. Chosen(u) = shut \/ \E w : Chosen(u) = Given(shut, w)
    <3> DEFINE m == Matches(u.pk.query)
               w == <<"load", m[IF u.pk.sel >= Len(m) THEN Len(m) ELSE u.pk.sel + 1]>>
    <3>1. Chosen(u) = IF m = <<>> THEN shut ELSE Given(shut, w)
      BY DEF Chosen
    <3> HIDE DEF m, w, shut
    <3> QED BY <3>1
  <2> HIDE DEF shut
  <2>4. \A w : UiOK(Given(shut, w))
    BY <2>2, GivenUi
  <2> QED BY <2>2, <2>3, <2>4
<1>5. PickerKey(u, c) \in {[u EXCEPT !.pk = Erased(p)], Chosen(u), [u EXCEPT !.pk = Typed(p, c)]}
  BY DEF PickerKey
<1> HIDE DEF p
<1>6. UiOK([u EXCEPT !.pk = Erased(p)]) /\ UiOK([u EXCEPT !.pk = Typed(p, c)])
  BY <1>2, <1>3
<1> QED BY <1>4, <1>5, <1>6

LEMMA HotkeyUi ==
  ASSUME NEW u, UiOK(u), NEW c, NEW v \in Hotkey(u, c)
  PROVE  UiOK(v)
<1>1. CASE c \in {"q", "Q"}
  <2>1. v = [u EXCEPT !.running = FALSE]
    BY <1>1 DEF Hotkey
  <2>2. \A x : UiOK([u EXCEPT !.running = x])
    BY SetOther
  <2> QED BY <2>1, <2>2
<1>2. CASE c \in {"b", "B"}
  <2>1. PICK l \in Lists : v = [u EXCEPT !.br = [active |-> TRUE, files |-> l, sel |-> 0]]
    BY <1>2 DEF Hotkey
  <2> DEFINE b == [active |-> TRUE, files |-> l, sel |-> 0]
  <2>2. l \in Seq({"cast", "ansi", "png"})
    BY PanelsAssumption
  <2>3. Len(l) \in Nat
    BY <2>2, LenProperties
  <2>4. BrowserOK(b)
    BY <2>3 DEF BrowserOK, InList
  <2> HIDE DEF b
  <2>5. UiOK([u EXCEPT !.br = b])
    BY <2>4, SetBrowser
  <2> QED BY <2>1, <2>5 DEF b
<1>3. CASE c \in {"t", "T"}
  <2>1. \E r : v = [u EXCEPT !.rec = r]
    BY <1>3 DEF Hotkey
  <2>2. \A x : UiOK([u EXCEPT !.rec = x])
    BY SetOther
  <2> QED BY <2>1, <2>2
<1>4. CASE c \notin {"q", "Q", "b", "B", "t", "T"}
  <2>1. v = Given(u, <<"key", c>>)
    BY <1>4 DEF Hotkey
  <2>2. \A w : UiOK(Given(u, w))
    BY GivenUi
  <2> QED BY <2>1, <2>2
<1> QED BY <1>1, <1>2, <1>3, <1>4

LEMMA KeyUi ==
  ASSUME NEW u, UiOK(u), NEW c \in Byte, NEW v \in Key(u, c)
  PROVE  UiOK(v)
<1>1. UiOK(Slash(u))
  <2> DEFINE p == [Shut EXCEPT !.active = TRUE]
  <2>1. Slash(u) = u \/ Slash(u) = [u EXCEPT !.pk = p]
    BY DEF Slash
  <2>2. PickerOK(p)
    BY ShutPicker
  <2> HIDE DEF p
  <2>3. UiOK([u EXCEPT !.pk = p])
    BY <2>2, SetPicker
  <2> QED BY <2>1, <2>3
<1>2. \/ v \in BrowserKey(u, c) \/ v = PickerKey(u, c) \/ v = Slash(u) \/ v \in Hotkey(u, c)
  <2>1. CASE u.br.active
    BY <2>1 DEF Key
  <2>2. CASE ~u.br.active /\ u.pk.active
    BY <2>2 DEF Key
  <2>3. CASE ~u.br.active /\ ~u.pk.active /\ c = "/"
    BY <2>3 DEF Key
  <2>4. CASE ~u.br.active /\ ~u.pk.active /\ c # "/"
    BY <2>4 DEF Key
  <2> QED BY <2>1, <2>2, <2>3, <2>4
<1> QED BY <1>1, <1>2, BrowserKeyUi, PickerKeyUi, HotkeyUi

\* What an arrow, ESC and the mouse do keeps what has the screen.
LEMMA ArrowUi ==
  ASSUME NEW u, UiOK(u), NEW d \in {-1, 1}
  PROVE  UiOK(Arrow(u, d)) /\ Arrow(u, d).view = u.view
<1>1. CASE u.br.active
  <2> DEFINE b == IF d < 0 THEN BrowserUp(u.br) ELSE BrowserDown(u.br)
  <2>1. Arrow(u, d) = [u EXCEPT !.br = b]
    BY <1>1 DEF Arrow
  <2>2. BrowserOK(b)
    <3>1. BrowserOK(u.br)
      BY DEF UiOK
    <3> QED BY <3>1, BrowserSteps
  <2> HIDE DEF b
  <2>3. UiOK([u EXCEPT !.br = b]) /\ [u EXCEPT !.br = b].view = u.view
    BY <2>2, SetBrowser
  <2> QED BY Zenon, <2>1, <2>3
<1>2. CASE ~u.br.active /\ u.pk.active
  <2> DEFINE p == PickerMove(u.pk, d)
  <2>1. Arrow(u, d) = [u EXCEPT !.pk = p]
    BY <1>2 DEF Arrow
  <2>2. PickerOK(p)
    <3>1. PickerOK(u.pk) /\ "A" \in Byte
      BY DEF UiOK, Byte, Marks
    <3> QED BY <3>1, PickerSteps
  <2> HIDE DEF p
  <2>3. UiOK([u EXCEPT !.pk = p]) /\ [u EXCEPT !.pk = p].view = u.view
    BY <2>2, SetPicker
  <2> QED BY Zenon, <2>1, <2>3
<1>3. CASE ~u.br.active /\ ~u.pk.active
  <2>1. CASE PLUGINS = 0
    BY <1>3, <2>1 DEF Arrow
  <2>2. CASE PLUGINS # 0
    <3> DEFINE y == u.sel + d + PLUGINS
               x == y % PLUGINS
    <3>1. Arrow(u, d) = [u EXCEPT !.sel = x]
      BY <1>3, <2>2 DEF Arrow
    <3>2. PLUGINS \in Nat /\ y \in Int
      BY PanelsAssumption DEF UiOK, InList
    <3> HIDE DEF y
    <3>3. x \in 0 .. PLUGINS - 1
      BY <2>2, <3>2
    <3>4. InList(x, PLUGINS)
      <4> HIDE DEF x
      <4> QED BY <3>2, <3>3 DEF InList
    <3> HIDE DEF x
    <3>5. UiOK([u EXCEPT !.sel = x]) /\ [u EXCEPT !.sel = x].view = u.view
      BY <3>4, SetOther
    <3> QED BY Zenon, <3>1, <3>5
  <2> QED BY <2>1, <2>2
<1> QED BY <1>1, <1>2, <1>3

LEMMA EscapeUi ==
  ASSUME NEW u, UiOK(u)
  PROVE  UiOK(Escape(u)) /\ Escape(u).view = u.view
<1> DEFINE b == [u.br EXCEPT !.active = FALSE]
           p == [u.pk EXCEPT !.active = FALSE]
<1>1. Escape(u) = [u EXCEPT !.br = b] \/ Escape(u) = [u EXCEPT !.pk = p]
  <2>1. CASE u.br.active
    BY <2>1 DEF Escape
  <2>2. CASE ~u.br.active
    BY <2>2 DEF Escape
  <2> QED BY <2>1, <2>2
<1>2. BrowserOK(u.br) /\ PickerOK(u.pk) /\ "A" \in Byte /\ 1 \in {-1, 1}
  BY DEF UiOK, Byte, Marks
<1>3. BrowserOK(b)
  BY <1>2, BrowserSteps
<1>4. PickerOK(p)
  BY <1>2, PickerSteps
<1> HIDE DEF b, p
<1>5. UiOK([u EXCEPT !.br = b]) /\ [u EXCEPT !.br = b].view = u.view
  BY <1>3, SetBrowser
<1>6. UiOK([u EXCEPT !.pk = p]) /\ [u EXCEPT !.pk = p].view = u.view
  BY <1>4, SetPicker
<1> QED BY <1>1, <1>5, <1>6

LEMMA ViewUi ==
  ASSUME NEW u, UiOK(u)
  PROVE  UiOK(Answered(u)) /\ UiOK(Played(u))
<1> DEFINE v == IF u.view = "playing" THEN "footer" ELSE "none"
<1>1. Answered(u) = [u EXCEPT !.view = v] /\ Played(u) = [u EXCEPT !.view = "footer"]
  BY DEF Answered, Played
<1>2. v \in Views /\ "footer" \in Views
  BY DEF Views
<1> HIDE DEF v
<1>3. UiOK([u EXCEPT !.view = v]) /\ UiOK([u EXCEPT !.view = "footer"])
  BY <1>2, SetView
<1> QED BY <1>1, <1>3

-----------------------------------------------------------------------------
(* The keyboard *)

ParserOK(p) == DOMAIN p = {"state", "val", "digits"} /\ p.state \in 0 .. 3 /\ p.digits \in 0 .. 5

\* What is not handled covers what is not read.
InboxOK(box, text) == box \in Seq(Entry) /\ Len(box) <= MaxPending /\ IsEnd(text, Bytes(box))

TextOK == tty \in Seq(Byte) /\ sending \in Seq(Byte)

LoopOK ==
  /\ pc \in {"loop", "esc", "csi", "skip", "end"}
  /\ skip \in 0 .. 3 /\ (pc = "skip" => skip # 0)
  /\ ParserOK(parser) /\ UiOK(ui) /\ ViewsInLoop

KeyInv == TextOK /\ LoopOK /\ InboxOK(inbox, tty \o sending)

LEMMA KeyInit ==
  ASSUME KeyboardInit
  PROVE  KeyInv
<1>1. <<>> \in Seq(Byte) /\ <<>> \in Seq(Entry) /\ Len(<<>>) = 0 /\ MaxPending \in Nat
  BY EmptySeq, EventsAssumption
<1>2. <<>> \o <<>> = <<>>
  BY <1>1, ConcatEmptySeq
<1>3. InboxOK(inbox, tty \o sending)
  <2>1. IsEnd(<<>>, Bytes(<<>>))
    BY <1>1, <1>2, BytesNone DEF IsEnd, EndIn
  <2> QED BY <1>1, <1>2, <2>1 DEF InboxOK, KeyboardInit
<1>4. UiOK(Ui0)
  <2>1. \A n : InList(0, n)
    BY DEF InList
  <2>2. BrowserOK(Closed)
    BY <1>1, <2>1 DEF BrowserOK, Closed
  <2>3. Ui0.br = Closed /\ Ui0.pk = Shut /\ Ui0.sel = 0 /\ Ui0.view = "none"
        /\ DOMAIN Ui0 = {"br", "pk", "sel", "rec", "view", "running", "out"}
    BY DEF Ui0
  <2> QED BY <2>1, <2>2, <2>3, ShutPicker DEF UiOK, Views
<1>5. ParserOK(NoReport)
  BY DEF ParserOK, NoReport
<1>6. ViewsInLoop
  BY DEF KeyboardInit, ViewsInLoop
<1> QED BY <1>1, <1>3, <1>4, <1>5, <1>6 DEF KeyInv, TextOK, LoopOK, KeyboardInit

\* What is left of text after reading.
LEMMA LeftText ==
  ASSUME KeyInv
  PROVE  /\ tty \o sending \in Seq(Byte) /\ IsEnd(sending, tty \o sending)
         /\ tty # <<>> => /\ Head(tty) \in Byte /\ Tail(tty) \in Seq(Byte)
                          /\ IsEnd(Tail(tty) \o sending, tty \o sending)
<1>1. tty \in Seq(Byte) /\ sending \in Seq(Byte)
  BY DEF KeyInv, TextOK
<1>2. tty \o sending \in Seq(Byte)
  BY <1>1, ConcatProperties
<1>3. IsEnd(sending, tty \o sending)
  BY <1>1 DEF IsEnd, EndIn
<1>4. ASSUME tty # <<>>
      PROVE  /\ Head(tty) \in Byte /\ Tail(tty) \in Seq(Byte)
             /\ IsEnd(Tail(tty) \o sending, tty \o sending)
  <2> DEFINE h == <<Head(tty)>>
             t == Tail(tty)
  <2>1. Head(tty) \in Byte /\ t \in Seq(Byte)
    BY <1>1, <1>4, HeadTailProperties
  <2>2. h \in Seq(Byte)
    BY <2>1
  <2>3. tty = h \o t
    BY <1>1, <1>4
  <2> HIDE DEF h, t
  <2>4. tty \o sending = h \o (t \o sending)
    BY <1>1, <2>1, <2>2, <2>3, ConcatAssociative
  <2>5. IsEnd(t \o sending, tty \o sending)
    BY <2>2, <2>4 DEF IsEnd, EndIn
  <2> QED BY <2>1, <2>5 DEF t
<1> QED BY <1>2, <1>3, <1>4

\* The next text is an end of the text.
Shortened ==
  /\ tty' \in Seq(Byte) /\ sending' \in Seq(Byte)
  /\ tty' \o sending' \in Seq(Byte) /\ Unread = Len(tty' \o sending')
  /\ IsEnd(tty' \o sending', Bytes(inbox)) /\ inbox \in Seq(Entry)

LEMMA ReadText ==
  ASSUME KeyInv, Read
  PROVE  Shortened /\ Head(tty) \in Byte
<1> DEFINE r == Tail(tty) \o sending
<1>1. tty' = Tail(tty) /\ sending' = sending /\ tty # <<>>
  BY DEF Read
<1>2. /\ Head(tty) \in Byte /\ Tail(tty) \in Seq(Byte) /\ sending \in Seq(Byte)
      /\ tty \o sending \in Seq(Byte) /\ IsEnd(r, tty \o sending)
  BY <1>1, LeftText DEF KeyInv, TextOK
<1>3. r \in Seq(Byte) /\ Len(r) = Len(Tail(tty)) + Len(sending)
  BY <1>2, ConcatProperties
<1>4. inbox \in Seq(Entry) /\ IsEnd(tty \o sending, Bytes(inbox))
  BY DEF KeyInv, InboxOK
<1>5. tty' \o sending' = r /\ Unread = Len(r)
  BY <1>1, <1>3 DEF Unread
<1> HIDE DEF r
<1>6. IsEnd(r, Bytes(inbox))
  BY <1>2, <1>3, <1>4, EndOfEnd
<1> QED BY <1>1, <1>2, <1>3, <1>4, <1>5, <1>6 DEF Shortened

LEMMA ClearedText ==
  ASSUME KeyInv, tty' = <<>>, sending' = sending
  PROVE  Shortened /\ tty' \o sending' = sending /\ Unread = Len(sending)
<1>1. sending \in Seq(Byte) /\ tty \o sending \in Seq(Byte) /\ IsEnd(sending, tty \o sending)
  BY LeftText DEF KeyInv, TextOK
<1>2. <<>> \in Seq(Byte) /\ <<>> \o sending = sending /\ Len(<<>>) = 0 /\ Len(sending) \in Nat
  BY <1>1, EmptySeq, ConcatEmptySeq, LenProperties
<1>3. inbox \in Seq(Entry) /\ IsEnd(tty \o sending, Bytes(inbox))
  BY DEF KeyInv, InboxOK
<1>4. IsEnd(sending, Bytes(inbox))
  BY <1>1, <1>3, EndOfEnd
<1>5. Unread = Len(sending)
  BY <1>2 DEF Unread
<1> QED BY <1>1, <1>2, <1>3, <1>4, <1>5 DEF Shortened

\* However the inbox follows the text, it still covers it.
Follows(n) ==
  inbox' \in {inbox, Unhandled(inbox, n), Cut(Unhandled(inbox, n), n), TornHead(Unhandled(inbox, n))}

LEMMA InboxFollows ==
  ASSUME KeyInv, Shortened, Follows(Unread)
  PROVE  TextOK' /\ InboxOK(inbox, tty \o sending)'
<1> DEFINE r == tty' \o sending'
           n == Unread
           q == Unhandled(inbox, n)
<1>1. inbox \in Seq(Entry) /\ r \in Seq(Byte) /\ IsEnd(r, Bytes(inbox)) /\ n = Len(r)
  BY DEF Shortened
<1>2. Len(inbox) <= MaxPending /\ Len(inbox) \in Nat /\ MaxPending \in Nat
  BY <1>1, EventsAssumption, LenProperties DEF KeyInv, InboxOK
<1>3. inbox' \in {inbox, q, Cut(q, n), TornHead(q)}
  BY DEF Follows
<1> HIDE DEF r, n
<1>4. Kept(q, inbox, r)
  BY <1>1, KeptUnhandled
<1>5. Kept(inbox, inbox, r)
  BY <1>1, <1>2 DEF Kept
<1> HIDE DEF q
<1>6. Kept(TornHead(q), inbox, r) /\ Kept(Cut(q, n), inbox, r)
  BY <1>4, KeptTorn
<1>7. Kept(inbox', inbox, r)
  BY <1>3, <1>4, <1>5, <1>6
<1>8. inbox' \in Seq(Entry) /\ Len(inbox') <= Len(inbox) /\ IsEnd(r, Bytes(inbox'))
  BY <1>7 DEF Kept
<1>9. Len(inbox') <= MaxPending
  BY <1>2, <1>8, LenProperties
<1>10. InboxOK(inbox', r)
  BY <1>8, <1>9 DEF InboxOK
<1> QED BY <1>10 DEF Shortened, TextOK, r

\* The events, and one done after them.
DoneOf(box, e, d) ==
  LET b == Len(box)
  IN  /\ d \in Seq(Entry) /\ Len(d) = b + 1 /\ Bytes(d) = Bytes(box) \o Encoding(e)
      /\ d[b + 1].ev = e /\ d[b + 1] \in Entry
      /\ \A i \in 1 .. b : d[i].ev = box[i].ev /\ (box[i].torn => d[i].torn) /\ (i < b => d[i] = box[i])
      /\ Promise!RunsOn(box) => d[b].torn /\ d[b + 1].torn
      /\ ~Promise!RunsOn(box) => /\ \A i \in 1 .. b : d[i] = box[i]
                                 /\ d[b + 1] = Promise!New(e)

LEMMA DoneIs ==
  ASSUME NEW box \in Seq(Entry), NEW e \in Events
  PROVE  DoneOf(box, e, Promise!Done(box, e))
<1> DEFINE b == Len(box)
           h == [box[b] EXCEPT !.torn = TRUE]
           k == IF Promise!RunsOn(box) THEN [box EXCEPT ![b] = h] ELSE box
           x == IF Promise!RunsOn(box) THEN [ev |-> e, torn |-> TRUE] ELSE Promise!New(e)
           d == Append(k, x)
<1>1. Promise!Done(box, e) = d
  BY DEF Promise!Done
<1>2. x \in Entry /\ x.ev = e /\ (Promise!RunsOn(box) => x.torn)
  BY DEF Entry, Promise!New
<1>3. b \in Nat /\ DOMAIN box = 1 .. b
  BY LenProperties
<1>4. /\ k \in Seq(Entry) /\ Len(k) = b /\ (~Promise!RunsOn(box) => k = box)
      /\ \A i \in 1 .. b : k[i].ev = box[i].ev /\ (box[i].torn => k[i].torn) /\ (i < b => k[i] = box[i])
      /\ Promise!RunsOn(box) => k[b].torn
  <2>1. CASE Promise!RunsOn(box)
    <3>1. b \in 1 .. b
      BY <1>3, <2>1 DEF Promise!RunsOn
    <3>2. h \in Entry /\ h.ev = box[b].ev /\ h.torn = TRUE
      <4>1. box[b] \in Entry
        BY <3>1
      <4> QED BY <4>1 DEF Entry
    <3> HIDE DEF h
    <3>3. k = [box EXCEPT ![b] = h]
      BY <2>1
    <3>4. /\ k \in Seq(Entry) /\ Len(k) = b
          /\ \A j \in 1 .. b : k[j] = IF j = b THEN h ELSE box[j]
      BY <3>1, <3>2, <3>3, ExceptSeq
    <3> HIDE DEF k
    <3>5. k[b] = h /\ box[b].ev = h.ev /\ h.torn
      BY <3>1, <3>2, <3>4
    <3>b. b \in Nat
      BY <1>3
    <3> HIDE DEF b
    <3>6. \A i \in 1 .. b : i < b => k[i] = box[i]
      BY <3>b, <3>4
    <3>7. \A i \in 1 .. b : i = b \/ i < b
      BY <3>b
    <3>8. \A i \in 1 .. b : k[i].ev = box[i].ev /\ (box[i].torn => k[i].torn) /\ (i < b => k[i] = box[i])
      BY Zenon, <3>5, <3>6, <3>7
    <3> QED BY Zenon, <2>1, <3>4, <3>5, <3>8
  <2>2. CASE ~Promise!RunsOn(box)
    <3>1. k = box
      BY <2>2
    <3> QED BY <2>2, <3>1
  <2> QED BY <2>1, <2>2
<1>5. Bytes(k) = Bytes(box)
  <2>1. DOMAIN k = 1 .. b
    BY <1>4, LenProperties
  <2>2. \A i \in 1 .. b : k[i].ev = box[i].ev
    BY <1>4
  <2> HIDE DEF k
  <2>3. Codes(k) = Codes(box)
    BY <1>3, <2>1, <2>2 DEF Codes
  <2>4. Bytes(k) = FlattenSeq(Codes(k)) /\ Bytes(box) = FlattenSeq(Codes(box))
    BY DEF Bytes, Codes
  <2> QED BY <2>3, <2>4
<1>6. ~Promise!RunsOn(box) => x = Promise!New(e)
  OBVIOUS
<1> HIDE DEF k, x
<1>7. Bytes(d) = Bytes(box) \o Encoding(e)
  BY <1>2, <1>4, <1>5, BytesAppend
<1>8. /\ d \in Seq(Entry) /\ Len(d) = b + 1 /\ d[b + 1] = x
      /\ \A i \in 1 .. b : d[i] = k[i]
  BY <1>2, <1>3, <1>4, AppendProperties
<1>9. Promise!RunsOn(box) => b \in 1 .. b
  BY <1>3 DEF Promise!RunsOn
<1> HIDE DEF d
<1> QED BY Zenon, <1>1, <1>2, <1>4, <1>6, <1>7, <1>8, <1>9 DEF DoneOf, b

LEMMA DoKeeps ==
  ASSUME KeyInv, NEW e \in Events, Do(e)
  PROVE  KeyInv'
<1> DEFINE c == Encoding(e)
<1>1. /\ sending = <<>> /\ sending' = c /\ inbox' = Promise!Done(inbox, e) /\ Len(inbox) < MaxPending
      /\ tty' = tty
  BY DEF Do
<1>2. c \in Seq(Byte)
  BY EncodingText
<1>3. tty \in Seq(Byte) /\ inbox \in Seq(Entry) /\ IsEnd(tty \o sending, Bytes(inbox))
  BY DEF KeyInv, TextOK, InboxOK
<1>4. inbox' \in Seq(Entry) /\ Len(inbox') = Len(inbox) + 1 /\ Bytes(inbox') = Bytes(inbox) \o c
  BY Zenon, <1>1, <1>3, DoneIs DEF DoneOf
<1> HIDE DEF c
<1>5. PICK a \in Seq(Byte) : Bytes(inbox) = a \o tty
  <2>1. tty \o sending = tty
    BY <1>1, <1>3, ConcatEmptySeq
  <2> QED BY <1>3, <2>1 DEF IsEnd, EndIn
<1>6. Bytes(inbox') = a \o (tty \o c)
  <2>1. Bytes(inbox') = (a \o tty) \o c
    BY Zenon, <1>4, <1>5
  <2> HIDE DEF c
  <2>2. a \in Seq(Byte) /\ tty \in Seq(Byte) /\ c \in Seq(Byte)
    BY Zenon, <1>2, <1>3
  <2>3. (a \o tty) \o c = a \o (tty \o c)
    BY <2>2, ConcatAssociative
  <2> QED BY Zenon, <2>1, <2>3
<1>7. IsEnd(tty \o c, Bytes(inbox'))
  BY <1>6 DEF IsEnd, EndIn
<1>8. inbox' \in Seq(Entry) /\ Len(inbox') = Len(inbox) + 1 /\ Len(inbox) \in Nat
  BY <1>3, <1>4, LenProperties
<1>9. Len(inbox') <= MaxPending
  BY <1>1, <1>8, EventsAssumption
<1>10. InboxOK(inbox', tty' \o sending')
  BY <1>1, <1>7, <1>8, <1>9 DEF InboxOK
<1>11. LoopOK'
  BY DEF Do, KeyInv, LoopOK, ViewsInLoop
<1> QED BY <1>1, <1>2, <1>3, <1>10, <1>11 DEF KeyInv, TextOK

LEMMA ArriveKeeps ==
  ASSUME KeyInv, Arrive
  PROVE  KeyInv'
<1> DEFINE h == Head(sending)
           t == Tail(sending)
<1>1. sending # <<>> /\ tty' = Append(tty, h) /\ sending' = t /\ inbox' = inbox
  BY DEF Arrive
<1>2. tty \in Seq(Byte) /\ sending \in Seq(Byte)
  BY DEF KeyInv, TextOK
<1>3. h \in Byte /\ t \in Seq(Byte) /\ sending = <<h>> \o t
  BY <1>1, <1>2, HeadTailProperties
<1> HIDE DEF h, t
<1>4. <<h>> \in Seq(Byte) /\ tty' = tty \o <<h>> /\ tty' \in Seq(Byte)
  BY <1>1, <1>2, <1>3, AppendIsConcat, AppendProperties
<1>5. tty' \o sending' = tty \o sending
  BY <1>1, <1>2, <1>3, <1>4, ConcatAssociative
<1>6. InboxOK(inbox', tty' \o sending')
  BY <1>1, <1>5 DEF KeyInv
<1>7. LoopOK'
  BY DEF Arrive, KeyInv, LoopOK, ViewsInLoop
<1> QED BY <1>1, <1>3, <1>4, <1>6, <1>7 DEF KeyInv, TextOK

LEMMA SettledFollows == ASSUME Settled PROVE Follows(Unread)
  BY DEF Settled, Follows

\* A step that reads a byte and keeps the rest of the loop in order.
LEMMA ReadKeeps ==
  ASSUME KeyInv, Read, Follows(Unread), LoopOK'
  PROVE  KeyInv'
<1>1. Shortened
  BY ReadText
<1>2. TextOK' /\ InboxOK(inbox, tty \o sending)'
  BY <1>1, InboxFollows
<1> QED BY <1>2 DEF KeyInv

\* A step after which nothing that has arrived is left.
LEMMA ClearKeeps ==
  ASSUME KeyInv, tty' = <<>>, sending' = sending, Follows(Len(sending)), LoopOK'
  PROVE  KeyInv'
<1>1. Shortened /\ Unread = Len(sending)
  BY ClearedText
<1>2. TextOK' /\ InboxOK(inbox, tty \o sending)'
  <2>1. Follows(Unread)
    BY <1>1
  <2> QED BY <1>1, <2>1, InboxFollows
<1> QED BY <1>2 DEF KeyInv

LEMMA DrainedFollows == ASSUME DrainedInbox PROVE Follows(Len(sending))
  BY DEF DrainedInbox, Follows

LEMMA ParserSteps ==
  ASSUME NEW p, ParserOK(p), NEW c, IsMore(p, c)
  PROVE  /\ IsDigit(c) => ParserOK(FedDigit(p, c))
         /\ ~IsDigit(c) => ParserOK(NextField(p))
<1>1. ASSUME IsDigit(c) PROVE ParserOK(FedDigit(p, c))
  <2>1. c # ";"
    <3>1. ~IsDigit(";")
      <4>1. Len(Numerals) = 9 /\ \A k \in 1 .. 9 : Numerals[k] # ";"
        BY SMT DEF Numerals
      <4>2. ToSet(Numerals) = {Numerals[k] : k \in 1 .. 9}
        <5>1. DOMAIN Numerals = 1 .. 9
          BY SMT DEF Numerals
        <5> QED BY <5>1 DEF ToSet
      <4> QED BY <4>1, <4>2 DEF IsDigit
    <3> QED BY <1>1, <3>1
  <2>2. p.digits < 5
    BY <2>1 DEF IsMore
  <2> DEFINE q == [p EXCEPT !.digits = p.digits + 1]
             v == [q.val EXCEPT ![p.state] = @ * 10 + ValueOf(c)]
  <2>3. FedDigit(p, c) = [q EXCEPT !.val = v]
    BY DEF FedDigit
  <2>4. ParserOK(q)
    BY <2>2 DEF ParserOK
  <2> HIDE DEF q, v
  <2>5. ParserOK([q EXCEPT !.val = v])
    BY <2>4 DEF ParserOK
  <2> QED BY <2>3, <2>5
<1>2. ASSUME ~IsDigit(c) PROVE ParserOK(NextField(p))
  <2>1. p.state < 3
    BY <1>2 DEF IsMore
  <2>2. ParserOK([p EXCEPT !.state = p.state + 1, !.digits = 0])
    BY <2>1 DEF ParserOK
  <2> QED BY <2>2 DEF NextField
<1> QED BY <1>1, <1>2

LEMMA FeedMoreKeeps ==
  ASSUME KeyInv, FeedMore
  PROVE  KeyInv'
<1>1. Read /\ Follows(Unread)
  BY SettledFollows DEF FeedMore, InLoop
<1>2. ParserOK(parser) /\ IsMore(parser, Head(tty))
  BY DEF KeyInv, LoopOK, FeedMore
<1>3. ParserOK(parser')
  BY <1>2, ParserSteps DEF FeedMore
<1>4. LoopOK'
  BY <1>3 DEF KeyInv, LoopOK, FeedMore, ViewsInLoop
<1> QED BY <1>1, <1>4, ReadKeeps

LEMMA FeedDoneKeeps ==
  ASSUME KeyInv, FeedDone
  PROVE  KeyInv'
<1> DEFINE r == Report(parser, Head(tty))
<1>1. Read /\ Follows(Unread) /\ pc = "loop" /\ ui.view = "none"
  BY DEF FeedDone, InLoop, Follows
<1>2. ui' = Given(ui, <<"mouse", r>>)
  BY DEF FeedDone, Mouse
<1>3. UiOK(ui)
  BY DEF KeyInv, LoopOK
<1> HIDE DEF r
<1>4. UiOK(ui') /\ ui'.view = ui.view
  BY <1>2, <1>3, GivenUi
<1>5. ParserOK(parser')
  BY DEF FeedDone, NoReport, ParserOK
<1>6. pc' \in {"loop", "end"} /\ skip' = skip
  BY <1>1 DEF FeedDone
<1>7. LoopOK'
  BY <1>1, <1>4, <1>5, <1>6 DEF KeyInv, LoopOK, ViewsInLoop
<1> QED BY <1>1, <1>7, ReadKeeps

LEMMA ReadEscKeeps ==
  ASSUME KeyInv, ReadEsc
  PROVE  KeyInv'
<1>1. Read /\ Follows(Unread)
  BY DEF ReadEsc, InLoop, Follows
<1>2. ParserOK(parser')
  BY DEF ReadEsc, NoReport, ParserOK
<1>3. LoopOK'
  BY <1>2 DEF KeyInv, LoopOK, ReadEsc, InLoop, ViewsInLoop
<1> QED BY <1>1, <1>3, ReadKeeps

LEMMA ReadKeyKeeps ==
  ASSUME KeyInv, ReadKey
  PROVE  KeyInv'
<1>1. Head(tty) \in Byte /\ UiOK(ui)
  BY LeftText DEF KeyInv, LoopOK, ReadKey
<1>2. UiOK(ui')
  BY <1>1, KeyUi DEF ReadKey
<1>3. ParserOK(parser')
  BY DEF ReadKey, NoReport, ParserOK
<1>4. LoopOK'
  BY <1>2, <1>3 DEF KeyInv, LoopOK, ReadKey, ViewsInLoop
<1>5. CASE ui'.view = "none"
  <2>1. Read /\ Follows(Unread)
    BY <1>5, SettledFollows DEF ReadKey
  <2> QED BY <1>4, <2>1, ReadKeeps
<1>6. CASE ui'.view # "none"
  <2>1. tty' = <<>> /\ sending' = sending /\ Follows(Len(sending))
    BY <1>6, DrainedFollows DEF ReadKey
  <2> QED BY <1>4, <2>1, ClearKeeps
<1> QED BY <1>5, <1>6

LEMMA AfterEscKeeps ==
  ASSUME KeyInv, AfterEsc
  PROVE  KeyInv'
<1>1. Read /\ Follows(Unread) /\ pc = "esc"
  BY SettledFollows DEF AfterEsc
<1>2. UiOK(ui) /\ ui.view = "none"
  BY <1>1 DEF KeyInv, LoopOK, ViewsInLoop
<1>3. UiOK(Escape(ui)) /\ Escape(ui).view = "none"
  BY <1>2, EscapeUi
<1>4. ui' \in {ui, Escape(ui)} /\ pc' \in {"skip", "csi", "loop"} /\ parser' = parser
      /\ skip' \in {skip, 1} /\ (pc' = "skip" => skip' = 1)
  <2>1. CASE Head(tty) = "O"
    BY <2>1 DEF AfterEsc
  <2>2. CASE Head(tty) = "["
    BY <2>2 DEF AfterEsc
  <2>3. CASE Head(tty) \notin {"O", "["}
    BY <2>3 DEF AfterEsc
  <2> QED BY <2>1, <2>2, <2>3
<1>5. UiOK(ui') /\ ui'.view = "none"
  BY <1>2, <1>3, <1>4
<1>6. LoopOK'
  BY <1>4, <1>5 DEF KeyInv, LoopOK, ViewsInLoop
<1> QED BY <1>1, <1>6, ReadKeeps

LEMMA AfterCsiKeeps ==
  ASSUME KeyInv, AfterCsi
  PROVE  KeyInv'
<1>1. Read /\ Follows(Unread) /\ pc = "csi"
  BY SettledFollows DEF AfterCsi
<1>2. UiOK(ui) /\ ui.view = "none" /\ 1 \in {-1, 1} /\ -1 \in {-1, 1}
  BY <1>1 DEF KeyInv, LoopOK, ViewsInLoop
<1>3. /\ UiOK(Arrow(ui, -1)) /\ Arrow(ui, -1).view = "none"
      /\ UiOK(Arrow(ui, 1)) /\ Arrow(ui, 1).view = "none"
  BY <1>2, ArrowUi
<1>4. ui' \in {ui, Arrow(ui, -1), Arrow(ui, 1)} /\ pc' \in {"skip", "loop"}
      /\ parser' \in {parser, Begun} /\ skip' \in {skip, 3} /\ (pc' = "skip" => skip' = 3)
  <2>1. CASE Head(tty) = "<"
    BY <2>1 DEF AfterCsi
  <2>2. CASE Head(tty) = "M"
    BY <2>2 DEF AfterCsi
  <2>3. CASE Head(tty) = "A"
    BY <2>3 DEF AfterCsi
  <2>4. CASE Head(tty) = "B"
    BY <2>4 DEF AfterCsi
  <2>5. CASE Head(tty) \notin {"<", "M", "A", "B"}
    BY <2>5 DEF AfterCsi
  <2> QED BY <2>1, <2>2, <2>3, <2>4, <2>5
<1>5. UiOK(ui') /\ ui'.view = "none"
  BY <1>2, <1>3, <1>4
<1>6. ParserOK(Begun) /\ ParserOK(parser)
  BY DEF Begun, ParserOK, KeyInv, LoopOK
<1>7. LoopOK'
  <2>1. ParserOK(parser')
    BY <1>4, <1>6
  <2> QED BY <1>4, <1>5, <2>1 DEF KeyInv, LoopOK, ViewsInLoop
<1> QED BY <1>1, <1>7, ReadKeeps

LEMMA SwallowKeeps ==
  ASSUME KeyInv, Swallow
  PROVE  KeyInv'
<1>1. Read /\ Follows(Unread) /\ pc = "skip"
  BY SettledFollows DEF Swallow
<1>2. ui.view = "none" /\ skip \in 1 .. 3
  BY <1>1 DEF KeyInv, LoopOK, ViewsInLoop
<1>3. ui' = ui /\ parser' = parser /\ skip' \in 0 .. 2 /\ pc' \in {"skip", "loop"}
      /\ (pc' = "skip" => skip' # 0)
  BY <1>2 DEF Swallow
<1>4. LoopOK'
  BY <1>2, <1>3 DEF KeyInv, LoopOK, ViewsInLoop
<1> QED BY <1>1, <1>4, ReadKeeps

LEMMA SilenceKeeps ==
  ASSUME KeyInv, Silence
  PROVE  KeyInv'
<1>1. tty = <<>> /\ tty' = <<>> /\ sending' = sending /\ pc \in {"esc", "csi", "skip"}
  BY DEF Silence
<1>2. Follows(Len(sending))
  BY DEF Silence, Follows
<1>3. UiOK(ui) /\ ui.view = "none"
  BY <1>1 DEF KeyInv, LoopOK, ViewsInLoop
<1>4. UiOK(Escape(ui)) /\ Escape(ui).view = "none"
  BY <1>3, EscapeUi
<1>5. UiOK(ui') /\ ui'.view = "none"
  BY <1>3, <1>4 DEF Silence
<1>6. LoopOK'
  BY <1>5 DEF KeyInv, LoopOK, Silence, ViewsInLoop
<1> QED BY <1>1, <1>2, <1>6, ClearKeeps

LEMMA ViewKeeps ==
  ASSUME KeyInv, ViewKey \/ AbortPlay \/ PlayedOut
  PROVE  KeyInv'
<1>1. UiOK(ui) /\ ui.view # "none" /\ pc = "loop"
  BY DEF KeyInv, LoopOK, ViewsInLoop, ViewKey, AbortPlay, PlayedOut
<1>2. UiOK(ui')
  BY <1>1, ViewUi DEF ViewKey, AbortPlay, PlayedOut
<1>3. LoopOK'
  BY <1>1, <1>2 DEF KeyInv, LoopOK, ViewsInLoop, ViewKey, AbortPlay, PlayedOut
<1>4. CASE ViewKey
  <2>1. Read /\ Follows(Unread)
    BY <1>4 DEF ViewKey, Follows
  <2> QED BY <1>3, <2>1, ReadKeeps
<1>5. CASE AbortPlay \/ PlayedOut
  <2>1. tty' = <<>> /\ sending' = sending /\ Follows(Len(sending))
    BY <1>5, DrainedFollows DEF AbortPlay, PlayedOut
  <2> QED BY <1>3, <2>1, ClearKeeps
<1> QED BY <1>4, <1>5

LEMMA InterruptKeeps ==
  ASSUME KeyInv, Interrupt
  PROVE  KeyInv'
<1>1. UiOK(ui)
  BY DEF KeyInv, LoopOK
<1>2. UiOK(ui') /\ ui'.view = ui.view
  <2>1. UiOK([ui EXCEPT !.running = FALSE]) /\ [ui EXCEPT !.running = FALSE].view = ui.view
    <3>1. \A x : UiOK([ui EXCEPT !.running = x]) /\ [ui EXCEPT !.running = x].view = ui.view
      BY <1>1, SetOther
    <3> QED BY <3>1
  <2> QED BY <2>1 DEF Interrupt
<1> QED BY <1>2 DEF Interrupt, KeyInv, TextOK, LoopOK, ViewsInLoop

LEMMA LeaveKeeps ==
  ASSUME KeyInv, Leave
  PROVE  KeyInv'
  BY DEF Leave, KeyInv, TextOK, LoopOK, ViewsInLoop

LEMMA KeyStep ==
  ASSUME KeyInv, KeyboardNext
  PROVE  KeyInv'
  BY DoKeeps, ArriveKeeps, FeedMoreKeeps, FeedDoneKeeps, ReadEscKeeps, ReadKeyKeeps, AfterEscKeeps,
     AfterCsiKeeps, SwallowKeeps, SilenceKeeps, ViewKeeps, InterruptKeeps, LeaveKeeps
  DEF KeyboardNext

\* The program touches the keyboard in its steps only.
LEMMA SessionOfKeys == [SessionNext]_all => KeyboardNext \/ UNCHANGED keyVars
<1> SUFFICES ASSUME [SessionNext]_all PROVE KeyboardNext \/ UNCHANGED keyVars
  OBVIOUS
<1> USE DEF Quiet, Keeps, Gets
<1>1. CASE \/ PlayProbe \/ PlayEnter \/ PlayEnd \/ PlayLeave \/ NoPlugin \/ CopyPlugin
  BY <1>1 DEF PlayProbe, PlayEnter, PlayEnd, PlayLeave, NoPlugin, CopyPlugin
<1>2. CASE LoadPlugin \/ LoadFailed \/ LoadRefused \/ LoadDone
  BY <1>2 DEF LoadPlugin, LoadFailed, LoadRefused, LoadDone
<1>3. CASE Camera \/ Gray \/ Rgb \/ NoPixels \/ Out \/ Thread \/ Enter
  BY <1>3 DEF Camera, Gray, Rgb, NoPixels, Out, Thread, Enter, NoMemory
<1>4. CASE RawMode \/ RawFlag \/ MouseOn \/ Clock
  BY <1>4 DEF RawMode, RawFlag, MouseOn, Clock
<1>5. CASE LoopKeys \/ LoopDone \/ CaptureFails
  BY <1>5 DEF LoopKeys, LoopDone, CaptureFails, KeyboardNext
<1>6. CASE MouseOff \/ Restore \/ RestoreFlag \/ LeaveScreen \/ FreeBuffers
  BY <1>6 DEF MouseOff, Restore, RestoreFlag, LeaveScreen, FreeBuffers
<1>7. CASE Plugins \/ StopThread \/ CloseCamera \/ Ask \/ Emergency
  BY <1>7 DEF Plugins, StopThread, CloseCamera, Ask, Emergency, KeyboardNext
<1>8. CASE UNCHANGED all
  BY <1>8 DEF all
<1> QED BY <1>1, <1>2, <1>3, <1>4, <1>5, <1>6, <1>7, <1>8 DEF SessionNext

LEMMA KeyKept ==
  ASSUME KeyInv, UNCHANGED keyVars
  PROVE  KeyInv'
  BY DEF keyVars, KeyInv, TextOK, LoopOK, ViewsInLoop

LEMMA KeyInvSound ==
  ASSUME KeyInv
  PROVE  KeyboardSound
<1>1. UiOK(ui) /\ LoopOK /\ InboxOK(inbox, tty \o sending)
  BY DEF KeyInv, LoopOK
<1>2. KeyboardTypeOK
  <2>1. ui.br.sel \in 0 .. Max({0, Len(ui.br.files) - 1})
    BY <1>1, CursorInList DEF UiOK, BrowserOK
  <2>2. ui.sel \in 0 .. Max({0, PLUGINS - 1})
    BY <1>1, CursorInList, PanelsAssumption DEF UiOK
  <2>3. Len(ui.pk.query) < QUERY_MAX /\ ui.view \in {"none", "preview", "playing", "footer"}
    BY <1>1 DEF UiOK, PickerOK, Views
  <2> QED BY <1>1, <2>1, <2>2, <2>3 DEF KeyboardTypeOK, LoopOK, ParserOK, InboxOK
<1>3. CursorOnMatch
  <2> SUFFICES ASSUME ui.pk.active
               PROVE  ui.pk.sel \in 0 .. Max({0, Len(Matches(ui.pk.query)) - 1})
    BY DEF CursorOnMatch
  <2> DEFINE n == Len(Matches(ui.pk.query))
  <2>1. n \in Nat /\ InList(ui.pk.sel, n)
    BY <1>1, MatchesType DEF UiOK, PickerOK
  <2> HIDE DEF n
  <2>2. ui.pk.sel \in 0 .. Max({0, n - 1})
    BY <2>1, CursorInList
  <2> QED BY <2>2 DEF n
<1>4. ViewsInLoop
  BY <1>1 DEF LoopOK
<1>5. InboxCovers
  <2>1. tty \o sending \in Seq(Byte) /\ Bytes(inbox) \in Seq(Byte)
    BY <1>1, LeftText, BytesText DEF InboxOK
  <2>2. \E a \in Seq(Byte) : Bytes(inbox) = a \o (tty \o sending)
    BY <1>1 DEF InboxOK, IsEnd, EndIn
  <2> DEFINE r == tty \o sending
             b == Bytes(inbox)
  <2>3. r \in Seq(Byte) /\ b \in Seq(Byte) /\ \E a \in Seq(Byte) : b = a \o r
    BY <2>1, <2>2
  <2> HIDE DEF r, b
  <2>4. r \in Suffixes(b)
    BY <2>3, SuffixIff
  <2> QED BY <2>4 DEF InboxCovers, r, b
<1> QED BY <1>2, <1>3, <1>4, <1>5 DEF KeyboardSound

LEMMA KeyInvariance == SessionSpec => []KeyInv
<1>1. SessionInit => KeyInv
  BY KeyInit DEF SessionInit
<1>2. KeyInv /\ [SessionNext]_all => KeyInv'
  BY SessionOfKeys, KeyStep, KeyKept
<1> QED BY <1>1, <1>2, PTL DEF SessionSpec

(***************************************************************************)
(* Whatever the user types and however late it arrives, no byte of an      *)
(* event is handled twice or lost between the events, and the cursors stay *)
(* on what is listed (the loop of src/main.c). A normal end gives back     *)
(* everything, the terminal included; a start that fails, all but a watch  *)
(* of a directory and colours got without grays (RefusedReleases); a fatal *)
(* signal, the terminal but for the alternate screen. Two ends are left    *)
(* out: without a clock, and torn between tcsetattr and its flag (main and *)
(* its signal handlers).                                                   *)
(***************************************************************************)
THEOREM SessionIsSound == SessionSpec => []SessionSound
<1>1. KeyInv /\ LifeInv /\ ImageInv => SessionSound
  BY KeyInvSound, LifeInvSound DEF SessionSound
<1> QED BY <1>1, KeyInvariance, LifeInvariance, ImageInvariance, PTL

-----------------------------------------------------------------------------
(* The events whose bytes are left *)

Tailed(box, q) == \E p \in Seq(Entry) : box = p \o q

LEMMA ShortestText ==
  ASSUME NEW e \in Events
  PROVE  Len(Encoding(e)) \in Nat /\ Len(Encoding(e)) > 0
<1>1. Encoding(e) \in Seq(Byte)
  BY EncodingText
<1>2. Encoding(e) # <<>>
  <2>1. CASE e.type = "key"
    BY <2>1 DEF Encoding
  <2>2. CASE e.type \in {"esc", "up", "down"}
    BY <2>2 DEF Encoding
  <2>3. CASE e.type = "unbound" /\ e.bytes # <<>>
    BY <2>3 DEF Encoding
  <2>4. CASE e.type = "mouse" /\ e.report \in [b : Nat, x : Nat, y : Nat, pressed : BOOLEAN]
    <3> DEFINE start == <<"ESC", "[", "<">> \o Decimal(e.report.b) \o <<";">> \o Decimal(e.report.x)
                          \o <<";">> \o Decimal(e.report.y)
               m == IF e.report.pressed THEN "M" ELSE "m"
    <3>1. Encoding(e) = start \o <<m>>
      BY Zenon, <2>4 DEF Encoding
    <3>2. e.report.b \in Nat /\ e.report.x \in Nat /\ e.report.y \in Nat
      BY <2>4
    <3>3. /\ Decimal(e.report.b) \in Seq(Byte) /\ Decimal(e.report.x) \in Seq(Byte)
          /\ Decimal(e.report.y) \in Seq(Byte)
      BY <3>2, DecimalText
    <3>4. {"ESC", "[", "<", ";"} \subseteq Byte
      BY DEF Byte, Marks
    <3>5. <<"ESC", "[", "<">> \in Seq(Byte) /\ <<";">> \in Seq(Byte)
      <4>1. \A u, v, w \in Byte : <<u>> \in Seq(Byte) /\ <<u, v, w>> \in Seq(Byte)
        OBVIOUS
      <4> QED BY <3>4, <4>1
    <3>6. start \in Seq(Byte)
      <4> DEFINE b == Decimal(e.report.b)
                 x == Decimal(e.report.x)
                 y == Decimal(e.report.y)
                 u == <<"ESC", "[", "<">>
                 v == <<";">>
      <4>1. b \in Seq(Byte) /\ x \in Seq(Byte) /\ y \in Seq(Byte) /\ u \in Seq(Byte) /\ v \in Seq(Byte)
        BY <3>3, <3>5
      <4> HIDE DEF b, x, y, u, v
      <4>2. u \o b \o v \in Seq(Byte)
        BY <4>1
      <4>3. u \o b \o v \o x \o v \in Seq(Byte)
        BY <4>1, <4>2
      <4>4. u \o b \o v \o x \o v \o y \in Seq(Byte)
        BY <4>1, <4>3
      <4> QED BY <4>4 DEF b, x, y, u, v
    <3> HIDE DEF start, m
    <3>7. start \o <<m>> = Append(start, m)
      BY <3>6, AppendIsConcat
    <3>8. Len(Append(start, m)) = Len(start) + 1 /\ Len(start) \in Nat
      BY <3>6
    <3>9. Len(<<>>) = 0
      OBVIOUS
    <3> QED BY <3>1, <3>7, <3>8, <3>9
  <2>5. \/ e.type = "key"
        \/ e.type \in {"esc", "up", "down"}
        \/ e.type = "unbound" /\ e.bytes # <<>>
        \/ e.type = "mouse" /\ e.report \in [b : Nat, x : Nat, y : Nat, pressed : BOOLEAN]
    <3> DEFINE reports == [b : Fields, x : Fields, y : Fields, pressed : BOOLEAN]
    <3>1. \A r \in reports : r \in [b : Nat, x : Nat, y : Nat, pressed : BOOLEAN]
      <4>1. Fields \subseteq Nat
        BY SMT DEF Fields
      <4> QED BY <4>1
    <3>2. \/ e.type = "key"
          \/ e.type \in {"esc", "up", "down"}
          \/ e.type = "unbound" /\ e.bytes # <<>>
          \/ e.type = "mouse" /\ e.report \in reports
      BY EventsAssumption
    <3> HIDE DEF reports
    <3> QED BY <3>1, <3>2
  <2> QED BY <2>1, <2>2, <2>3, <2>4, <2>5
<1> QED BY <1>1, <1>2, EmptySeq, LenProperties

LEMMA TailedOfTailed ==
  ASSUME NEW box \in Seq(Entry), NEW q \in Seq(Entry), NEW r \in Seq(Entry), Tailed(box, q), Tailed(q, r)
  PROVE  Tailed(box, r)
<1>1. PICK a \in Seq(Entry) : box = a \o q
  BY DEF Tailed
<1>2. PICK c \in Seq(Entry) : q = c \o r
  BY DEF Tailed
<1>3. a \o c \in Seq(Entry) /\ (a \o c) \o r = a \o (c \o r)
  <2>1. a \o c \in Seq(Entry)
    BY ConcatProperties
  <2>2. (a \o c) \o r = a \o (c \o r)
    BY ConcatAssociative
  <2> QED BY <2>1, <2>2
<1>4. box = (a \o c) \o r
  BY <1>1, <1>2, <1>3
<1> QED BY <1>3, <1>4 DEF Tailed

\* The first event's bytes, and those of the others.
LEMMA BytesHead ==
  ASSUME NEW box \in Seq(Entry), box # <<>>
  PROVE  /\ box[1] \in Entry /\ Tail(box) \in Seq(Entry) /\ Len(Tail(box)) = Len(box) - 1
         /\ box = <<box[1]>> \o Tail(box) /\ Tailed(box, Tail(box))
         /\ Bytes(box) = Encoding(box[1].ev) \o Bytes(Tail(box))
         /\ Size(box) = Len(Encoding(box[1].ev)) + Size(Tail(box))
         /\ Encoding(box[1].ev) \in Seq(Byte) /\ Len(Encoding(box[1].ev)) \in Nat \ {0}
<1> DEFINE x == box[1]
           e == Encoding(x.ev)
           t == Tail(box)
<1>1. x \in Entry /\ t \in Seq(Entry) /\ Len(t) = Len(box) - 1 /\ box = <<x>> \o t
  <2>1. Len(box) \in Nat \ {0}
    BY EmptySeq, LenProperties
  <2> QED BY <2>1, HeadTailProperties
<1>2. x.ev \in Events
  BY <1>1 DEF Entry
<1>3. e \in Seq(Byte) /\ Len(e) \in Nat \ {0}
  BY <1>2, EncodingText, ShortestText
<1> HIDE DEF x, t
<1>4. <<x>> \in Seq(Entry)
  BY <1>1
<1>5. Bytes(<<x>>) = e
  <2>1. Append(<<>>, x) = <<x>> /\ <<>> \in Seq(Entry)
    OBVIOUS
  <2>2. Bytes(Append(<<>>, x)) = Bytes(<<>>) \o Encoding(x.ev)
    BY <1>1, <2>1, BytesAppend
  <2>3. <<>> \o e = e
    BY <1>3, ConcatEmptySeq
  <2> QED BY <2>1, <2>2, <2>3, BytesNone
<1> HIDE DEF e
<1>6. Bytes(box) = e \o Bytes(t)
  BY <1>1, <1>4, <1>5, BytesConcat
<1>7. Bytes(t) \in Seq(Byte) /\ Size(t) = Len(Bytes(t)) /\ Size(box) = Len(Bytes(box))
  BY <1>1, BytesText
<1>8. Size(box) = Len(e) + Size(t)
  BY <1>3, <1>6, <1>7, ConcatProperties
<1>9. Tailed(box, t)
  BY <1>1, <1>4 DEF Tailed
<1> QED BY <1>1, <1>3, <1>6, <1>8, <1>9 DEF x, e, t

\* Longer ends have more bytes.
LEMMA SizeOrder ==
  ASSUME NEW box \in Seq(Entry), NEW q \in Seq(Entry), NEW r \in Seq(Entry),
         Tailed(box, q), Tailed(box, r), Len(r) <= Len(q)
  PROVE  Size(r) <= Size(q) /\ Tailed(q, r) /\ (Len(r) = Len(q) => r = q)
<1>1. PICK a \in Seq(Entry) : box = a \o q
  BY DEF Tailed
<1>2. PICK c \in Seq(Entry) : box = c \o r
  BY DEF Tailed
<1>3. EndIn(Entry, r, q)
  BY <1>1, <1>2, LongerSuffix, LenProperties
<1>4. PICK d \in Seq(Entry) : q = d \o r
  BY <1>3 DEF EndIn
<1>5. Bytes(q) = Bytes(d) \o Bytes(r) /\ Len(q) = Len(d) + Len(r) /\ Len(r) \in Nat /\ Len(d) \in Nat
  BY <1>4, BytesConcat, ConcatProperties, LenProperties
<1>6. /\ Bytes(d) \in Seq(Byte) /\ Bytes(r) \in Seq(Byte)
      /\ Size(q) = Len(Bytes(q)) /\ Size(r) = Len(Bytes(r))
  BY BytesText
<1>7. Len(Bytes(q)) = Len(Bytes(d)) + Len(Bytes(r)) /\ Len(Bytes(d)) \in Nat /\ Len(Bytes(r)) \in Nat
  BY <1>5, <1>6, ConcatProperties, LenProperties
<1>8. Size(r) <= Size(q)
  BY <1>6, <1>7
<1>9. ASSUME Len(r) = Len(q) PROVE r = q
  <2>1. d = <<>>
    BY <1>5, <1>9, EmptySeq
  <2> QED BY <1>4, <2>1, ConcatEmptySeq
<1> QED BY <1>4, <1>8, <1>9 DEF Tailed

LEMMA SuffixTailed ==
  ASSUME NEW box \in Seq(Entry), NEW s
  PROVE  s \in Suffixes(box) <=> s \in Seq(Entry) /\ Tailed(box, s)
<1>1. ASSUME s \in Suffixes(box) PROVE s \in Seq(Entry)
  <2>1. CASE s = <<>>
    BY <2>1, EmptySeq
  <2>2. CASE s # <<>>
    <3>1. PICK l \in 1 .. Len(box) : s = SubSeq(box, l, Len(box))
      BY <1>1, <2>2 DEF Suffixes
    <3>2. \A i \in l .. Len(box) : box[i] \in Entry
      OBVIOUS
    <3>3. l \in Int /\ Len(box) \in Int
      OBVIOUS
    <3> QED BY <3>1, <3>2, <3>3, SubSeqProperties
  <2> QED BY <2>1, <2>2
<1> QED BY <1>1, SuffixIff DEF Tailed

\* The shortest end that has n bytes.
LEMMA UnhandledIs ==
  ASSUME NEW box \in Seq(Entry), NEW q \in Seq(Entry), Tailed(box, q), q # <<>>,
         NEW n \in Nat, Size(Tail(q)) < n, n <= Size(q)
  PROVE  Unhandled(box, n) = q
<1> DEFINE good(s) == s \in Suffixes(box) /\ Size(s) >= n
           least(s) == good(s) /\ \A r \in Suffixes(box) : Size(r) >= n => Len(s) <= Len(r)
<1>1. /\ Tail(q) \in Seq(Entry) /\ Len(Tail(q)) = Len(q) - 1 /\ Tailed(q, Tail(q))
      /\ Size(q) \in Nat /\ Size(Tail(q)) \in Nat
  BY BytesHead, BytesText
<1>2. Tailed(box, Tail(q))
  BY <1>1, TailedOfTailed
<1>3. ASSUME NEW r \in Suffixes(box), Size(r) >= n PROVE Len(q) <= Len(r)
  <2>1. r \in Seq(Entry) /\ Tailed(box, r) /\ Len(r) \in Nat /\ Len(q) \in Nat /\ Size(r) \in Nat
    BY SuffixTailed, LenProperties, BytesText
  <2> SUFFICES ASSUME Len(r) <= Len(Tail(q)) PROVE FALSE
    BY <1>1, <2>1
  <2>2. Size(r) <= Size(Tail(q))
    BY <1>1, <1>2, <2>1, SizeOrder
  <2> QED BY <1>1, <1>3, <2>1, <2>2
<1>4. least(q)
  BY <1>1, <1>3, SuffixTailed
<1>5. ASSUME NEW s, least(s) PROVE s = q
  <2>1. s \in Seq(Entry) /\ Tailed(box, s) /\ Len(s) \in Nat /\ Len(q) \in Nat
    BY <1>5, SuffixTailed, LenProperties
  <2>2. Len(s) <= Len(q) /\ Len(q) <= Len(s)
    BY <1>3, <1>4, <1>5
  <2> QED BY <2>1, <2>2, SizeOrder
<1> DEFINE u == Unhandled(box, n)
<1>6. u = CHOOSE s \in Suffixes(box) : /\ Size(s) >= n
                                       /\ \A r \in Suffixes(box) : Size(r) >= n => Len(s) <= Len(r)
  BY <1>1 DEF Unhandled
<1> HIDE DEF u
<1>7. least(u)
  BY <1>4, <1>6
<1> QED BY <1>5, <1>7 DEF u

\* For any number of bytes there is one.
LEMMA UnhandledFits ==
  ASSUME NEW box \in Seq(Entry), NEW n \in Nat, 0 < n, n <= Size(box)
  PROVE  \E q \in Seq(Entry) : /\ Tailed(box, q) /\ q # <<>> /\ Unhandled(box, n) = q
                               /\ Size(Tail(q)) < n /\ n <= Size(q)
<1> DEFINE sizes == {Len(s) : s \in {r \in Suffixes(box) : Size(r) >= n}}
<1>1. sizes \subseteq Nat
  BY SuffixTailed, LenProperties
<1>2. Len(box) \in sizes
  <2>1. <<>> \in Seq(Entry) /\ box = <<>> \o box
    BY EmptySeq, ConcatEmptySeq
  <2>2. box \in Suffixes(box) /\ Size(box) \in Nat
    BY <2>1, SuffixIff, BytesText
  <2> QED BY <2>2
<1>3. PICK l \in sizes : \A x \in sizes : l <= x
  <2> HIDE DEF sizes
  <2> QED BY <1>1, <1>2, HasLeast
<1>4. PICK q \in Suffixes(box) : Size(q) >= n /\ Len(q) = l
  BY <1>3
<1>5. q \in Seq(Entry) /\ Tailed(box, q) /\ Size(q) \in Nat
  BY <1>4, SuffixTailed, BytesText
<1>6. q # <<>>
  <2>1. Size(<<>>) = 0
    BY BytesNone DEF Size
  <2> QED BY <1>4, <2>1
<1>7. /\ Tail(q) \in Seq(Entry) /\ Len(Tail(q)) = Len(q) - 1 /\ Tailed(q, Tail(q)) /\ Size(Tail(q)) \in Nat
      /\ Len(q) \in Nat
  BY <1>5, <1>6, BytesHead, BytesText, LenProperties
<1>8. Size(Tail(q)) < n
  <2> SUFFICES ASSUME Size(Tail(q)) >= n PROVE FALSE
    BY <1>7
  <2>1. Tailed(box, Tail(q))
    BY <1>5, <1>7, TailedOfTailed
  <2>2. Tail(q) \in Suffixes(box)
    BY <1>7, <2>1, SuffixTailed
  <2>3. Len(Tail(q)) \in sizes
    BY <2>2
  <2>4. l <= Len(Tail(q))
    BY <1>3, <2>3
  <2> QED BY <1>4, <1>7, <2>4
<1>9. n <= Size(q)
  BY <1>4, <1>5
<1>10. Unhandled(box, n) = q
  BY <1>5, <1>6, <1>8, <1>9, UnhandledIs
<1> QED BY <1>5, <1>6, <1>8, <1>9, <1>10

-----------------------------------------------------------------------------
(* The bytes of an event *)

Width(n) == Len(Decimal(n))
Powers == <<1, 10, 100, 1000, 10000, 100000>>

\* The number that the first j digits of n make.
Upper(n, j) == n \div Powers[Width(n) + 1 - j]
DigitAt(n, j) == Upper(n, j) % 10

LEMMA PowersAre ==
  /\ \A k \in 1 .. 6 : Powers[k] \in Nat \ {0}
  /\ \A k \in 1 .. 5 : Powers[k] = Places[k] /\ Powers[k] \in {1, 10, 100, 1000, 10000}
                       /\ Powers[k + 1] = 10 * Powers[k]
  /\ Powers[1] = 1 /\ Powers[6] = 100000
<1>1. /\ Powers[1] = 1 /\ Powers[2] = 10 /\ Powers[3] = 100 /\ Powers[4] = 1000 /\ Powers[5] = 10000
      /\ Powers[6] = 100000
  BY SMT DEF Powers
<1>2. /\ Places[1] = 1 /\ Places[2] = 10 /\ Places[3] = 100 /\ Places[4] = 1000 /\ Places[5] = 10000
  BY SMT DEF Places
<1>3. ASSUME NEW k \in 1 .. 5
      PROVE  /\ Powers[k] \in Nat \ {0} /\ Powers[k] = Places[k] /\ Powers[k] \in {1, 10, 100, 1000, 10000}
             /\ Powers[k + 1] = 10 * Powers[k]
  <2>1. CASE k = 1
    BY <1>1, <1>2, <2>1
  <2>2. CASE k = 2
    BY <1>1, <1>2, <2>2
  <2>3. CASE k = 3
    BY <1>1, <1>2, <2>3
  <2>4. CASE k = 4
    BY <1>1, <1>2, <2>4
  <2>5. CASE k = 5
    BY <1>1, <1>2, <2>5
  <2> QED BY <2>1, <2>2, <2>3, <2>4, <2>5
<1>4. Powers[6] \in Nat \ {0} /\ \A k \in 1 .. 6 : k = 6 \/ k \in 1 .. 5
  BY <1>1
<1> HIDE DEF Powers, Places
<1> QED BY <1>1, <1>3, <1>4

TenthOf(n, p) == n \div p = (n \div (10 * p)) * 10 + ((n \div p) % 10)

LEMMA DivTen ==
  ASSUME NEW n \in Nat, NEW p \in Nat \ {0}
  PROVE  TenthOf(n, p)
<1> DEFINE q == n \div p
           v == n \div (10 * p)
           u == q \div 10
           r == q % 10
<1>1. v = u
  OBVIOUS
<1>2. q \in Nat
  OBVIOUS
<1> HIDE DEF q, v
<1>3. u \in Nat /\ r \in Int /\ r = q - 10 * u
  BY <1>2
<1> HIDE DEF u, r
<1>4. q = v * 10 + r
  BY <1>1, <1>2, <1>3
<1> QED BY <1>4 DEF TenthOf, q, v, r

\* What holds of a field's bounds.
LEMMA FieldBound == \A n \in Fields : n \in Nat /\ n < 100000
<1>1. PICK x \in Nat : x = 99999
  BY SMT
<1>2. Fields = 0 .. x /\ x + 1 = 100000
  BY SMT, <1>1 DEF Fields
<1>3. \A n \in 0 .. x : n \in Nat /\ n < x + 1
  OBVIOUS
<1> QED BY SMT, <1>2, <1>3

LEMMA DecimalIs ==
  ASSUME NEW n \in Fields
  PROVE  /\ Decimal(n) \in Seq(Byte) /\ Width(n) \in 1 .. 5
         /\ Upper(n, 0) = 0 /\ Upper(n, Width(n)) = n
         /\ \A j \in 1 .. Width(n) : /\ DigitAt(n, j) \in 0 .. 9 /\ Decimal(n)[j] = Digit(DigitAt(n, j))
                                     /\ Upper(n, j) = Upper(n, j - 1) * 10 + DigitAt(n, j)
         /\ \A j \in 0 .. Width(n) : Upper(n, j) \in Nat
<1>0. n \in Nat /\ n < 100000
  BY FieldBound
<1> DEFINE places == {k \in 1 .. 5 : k = 1 \/ n >= Places[k]}
           w == Max(places)
<1>1. w \in places /\ \A k \in places : k <= w
  <2>1. places \subseteq 1 .. 5
    BY Zenon
  <2>2. 1 \in places
    <3>1. 1 \in 1 .. 5
      OBVIOUS
    <3> QED BY Zenon, <3>1
  <2> HIDE DEF places
  <2>3. PICK g \in places : \A x \in places : x <= g
    <3>1. places \subseteq 0 .. 5 /\ 5 \in Nat
      BY <2>1
    <3> QED BY Zenon, <2>2, <3>1, HasGreatest
  <2>4. \A x \in places : g >= x
    BY <2>1, <2>3
  <2>5. Max(places) \in places /\ \A x \in places : Max(places) >= x
    BY Zenon, <2>3, <2>4 DEF Max
  <2> QED BY <2>1, <2>5
<1>2. w \in 1 .. 5
  BY <1>1
<1>3. n < Powers[w + 1]
  <2>1. CASE w = 5
    <3>1. w + 1 = 6
      BY <2>1
    <3> QED BY <1>0, <3>1, PowersAre
  <2>2. CASE w # 5
    <3>1. w + 1 \in 1 .. 5 /\ ~(w + 1 <= w)
      BY <1>2, <2>2
    <3>2. w + 1 \notin places
      <4> HIDE DEF w
      <4> QED BY <1>1, <3>1
    <3> HIDE DEF w
    <3>3. ~(n >= Places[w + 1])
      BY <3>1, <3>2
    <3>4. Places[w + 1] \in Nat /\ Powers[w + 1] = Places[w + 1]
      BY <3>1, PowersAre
    <3> QED BY <1>0, <3>3, <3>4
  <2> QED BY <2>1, <2>2
<1>4. Decimal(n) = [k \in 1 .. w |-> Digit((n \div Places[w + 1 - k]) % 10)]
  BY DEF Decimal
<1>5. Decimal(n) \in Seq(Byte)
  BY <1>0, DecimalText
<1> HIDE DEF w
<1>6. Width(n) = w
  <2>1. DOMAIN Decimal(n) = 1 .. w
    BY <1>4
  <2> QED BY <1>2, <1>5, <2>1 DEF Width
<1>7. ASSUME NEW j \in 0 .. w
      PROVE  Upper(n, j) \in Nat /\ Upper(n, j) = n \div Powers[w + 1 - j]
  <2>1. w + 1 - j \in 1 .. 6
    BY <1>2
  <2> DEFINE p == Powers[w + 1 - j]
  <2>2. p \in Nat \ {0}
    BY <2>1, PowersAre
  <2>3. Upper(n, j) = n \div p
    BY <1>6 DEF Upper
  <2> HIDE DEF p
  <2>4. n \div p \in Nat
    BY <1>0, <2>2
  <2> QED BY <2>3, <2>4 DEF p
<1>8. ASSUME NEW j \in 1 .. w
      PROVE  /\ DigitAt(n, j) \in 0 .. 9 /\ Decimal(n)[j] = Digit(DigitAt(n, j))
             /\ Upper(n, j) = Upper(n, j - 1) * 10 + DigitAt(n, j)
  <2> DEFINE k == w + 1 - j
             p == Powers[k]
  <2>1. k \in 1 .. 5 /\ w + 1 - (j - 1) = k + 1 /\ j \in 0 .. w /\ j - 1 \in 0 .. w
    BY <1>2
  <2>2. p \in Nat \ {0} /\ p = Places[k] /\ Powers[k + 1] = 10 * p
    <3>1. k \in 1 .. 6
      BY <2>1
    <3> HIDE DEF k
    <3> QED BY <2>1, <3>1, PowersAre
  <2>3. Upper(n, j) = n \div p /\ Upper(n, j - 1) = n \div (10 * p) /\ Upper(n, j) \in Nat
    BY <1>7, <2>1, <2>2
  <2>4. Decimal(n)[j] = Digit((n \div p) % 10)
    BY <1>4, <2>2
  <2> HIDE DEF p
  <2>5. n \div p = (n \div (10 * p)) * 10 + ((n \div p) % 10)
    <3>1. p \in Nat \ {0}
      BY <2>2
    <3>2. n \in Nat
      BY <1>0
    <3>3. TenthOf(n, p)
      BY Zenon, <3>1, <3>2, DivTen
    <3> QED BY Zenon, <3>3 DEF TenthOf
  <2>6. DigitAt(n, j) = (n \div p) % 10
    BY <2>3 DEF DigitAt
  <2>7. DigitAt(n, j) \in 0 .. 9
    BY <2>3 DEF DigitAt
  <2> QED BY <2>3, <2>4, <2>5, <2>6, <2>7
<1>9. Upper(n, 0) = 0
  <2>1. Upper(n, 0) = n \div Powers[w + 1]
    <3>1. 0 \in 0 .. w /\ w + 1 - 0 = w + 1
      BY <1>2
    <3> QED BY <1>7, <3>1
  <2> DEFINE p == Powers[w + 1]
  <2>2. p \in Nat \ {0} /\ n < p
    <3>1. w + 1 \in 1 .. 6
      BY <1>2
    <3> QED BY <1>3, <3>1, PowersAre
  <2> HIDE DEF p
  <2>3. n \div p = 0
    BY <1>0, <2>2
  <2> QED BY <2>1, <2>3 DEF p
<1>10. Upper(n, w) = n
  <2>1. w \in 0 .. w /\ w + 1 - w = 1
    BY <1>2
  <2>2. Upper(n, w) = n \div 1
    BY <1>7, <2>1, PowersAre
  <2> QED BY <1>0, <2>2
<1> QED BY <1>2, <1>5, <1>6, <1>7, <1>8, <1>9, <1>10

\* The figures, and what is none.
LEMMA FiguresAre ==
  /\ DOMAIN Numerals = 1 .. 9 /\ ToSet(Numerals) = {Numerals[k] : k \in 1 .. 9}
  /\ \A k \in 1 .. 9 : Numerals[k] # "0" /\ Numerals[k] # "ESC" /\ Numerals[k] # ";"
                       /\ Numerals[k] # "M" /\ Numerals[k] # "m"
  /\ \A k, l \in 1 .. 9 : Numerals[k] = Numerals[l] => k = l
<1>1. DOMAIN Numerals = 1 .. 9
  BY SMT DEF Numerals
<1>2. ToSet(Numerals) = {Numerals[k] : k \in 1 .. 9}
  BY <1>1 DEF ToSet
<1>3. Len(Numerals) = 9 /\ \A k \in 1 .. 9 : Numerals[k] # "0"
  BY SMT DEF Numerals
<1>4. Len(Numerals) = 9 /\ \A k \in 1 .. 9 : Numerals[k] # "ESC"
  BY SMT DEF Numerals
<1>5. Len(Numerals) = 9 /\ \A k \in 1 .. 9 : Numerals[k] # ";"
  BY SMT DEF Numerals
<1>6. Len(Numerals) = 9 /\ \A k \in 1 .. 9 : Numerals[k] # "M"
  BY SMT DEF Numerals
<1>7. Len(Numerals) = 9 /\ \A k \in 1 .. 9 : Numerals[k] # "m"
  BY SMT DEF Numerals
<1>8. \A k, l \in 1 .. 9 : Numerals[k] = Numerals[l] => k = l
  BY SMT DEF Numerals
<1> QED BY Zenon, <1>1, <1>2, <1>3, <1>4, <1>5, <1>6, <1>7, <1>8

\* A digit's value, and what it is not.
LEMMA DigitIs ==
  ASSUME NEW d \in 0 .. 9
  PROVE  /\ IsDigit(Digit(d)) /\ ValueOf(Digit(d)) = d
         /\ Digit(d) # "ESC" /\ Digit(d) # ";" /\ Digit(d) # "M" /\ Digit(d) # "m"
<1>1. CASE d = 0
  <2>1. Digit(d) = "0"
    BY <1>1 DEF Digit
  <2> QED BY <1>1, <2>1 DEF IsDigit, ValueOf
<1>2. CASE d # 0
  <2>1. d \in 1 .. 9 /\ Digit(d) = Numerals[d]
    BY <1>2 DEF Digit
  <2>2. /\ Digit(d) # "0" /\ Digit(d) # "ESC" /\ Digit(d) # ";" /\ Digit(d) # "M" /\ Digit(d) # "m"
    BY Zenon, <2>1, FiguresAre
  <2>3. IsDigit(Digit(d))
    <3>1. Numerals[d] \in ToSet(Numerals)
      BY Zenon, <2>1, FiguresAre
    <3> QED BY Zenon, <2>1, <3>1 DEF IsDigit
  <2>4. ValueOf(Digit(d)) = CHOOSE n \in 1 .. 9 : Numerals[n] = Digit(d)
    <3>1. \A c : c # "0" => ValueOf(c) = CHOOSE n \in 1 .. 9 : Numerals[n] = c
      BY DEF ValueOf
    <3> QED BY <2>2, <3>1
  <2>5. ValueOf(Digit(d)) = d
    <3>1. \A n \in 1 .. 9 : Numerals[n] = Digit(d) <=> n = d
      BY Zenon, <2>1, FiguresAre
    <3>2. (CHOOSE n \in 1 .. 9 : Numerals[n] = Digit(d)) = d
      BY <2>1, <3>1
    <3> QED BY <2>4, <3>2
  <2> QED BY Zenon, <2>2, <2>3, <2>5
<1> QED BY Zenon, <1>1, <1>2

LEMMA NoDigit == ~IsDigit(";") /\ ~IsDigit("M") /\ ~IsDigit("m")
<1>1. ";" # "0" /\ "M" # "0" /\ "m" # "0"
  OBVIOUS
<1>2. ";" \notin ToSet(Numerals) /\ "M" \notin ToSet(Numerals) /\ "m" \notin ToSet(Numerals)
  BY FiguresAre
<1> QED BY Zenon, <1>1, <1>2 DEF IsDigit

LEMMA ConcatAt ==
  ASSUME NEW a \in Seq(Byte), NEW b \in Seq(Byte)
  PROVE  /\ a \o b \in Seq(Byte) /\ Len(a \o b) = Len(a) + Len(b) /\ Len(a) \in Nat /\ Len(b) \in Nat
         /\ \A i \in 1 .. Len(a) : (a \o b)[i] = a[i]
         /\ \A i \in 1 .. Len(b) : (a \o b)[Len(a) + i] = b[i]
<1>1. /\ a \o b \in Seq(Byte) /\ Len(a \o b) = Len(a) + Len(b) /\ Len(a) \in Nat /\ Len(b) \in Nat
      /\ \A i \in 1 .. Len(a) + Len(b) : (a \o b)[i] = IF i <= Len(a) THEN a[i] ELSE b[i - Len(a)]
  BY ConcatProperties, LenProperties
<1> DEFINE c == a \o b
           la == Len(a)
           lb == Len(b)
<1> HIDE DEF c, la, lb
<1>2. /\ la \in Nat /\ lb \in Nat
      /\ \A i \in 1 .. la + lb : c[i] = IF i <= la THEN a[i] ELSE b[i - la]
  BY <1>1 DEF c, la, lb
<1>3. \A i \in 1 .. la : c[i] = a[i]
  BY <1>2
<1>4. \A i \in 1 .. lb : c[la + i] = b[i]
  BY <1>2
<1> QED BY <1>1, <1>3, <1>4 DEF c, la, lb

\* t begins with a; b is in t behind n bytes.
Begins(t, a) == \A i \in 1 .. Len(a) : t[i] = a[i]
Holds(t, n, b) == \A i \in 1 .. Len(b) : t[n + i] = b[i]

\* The parts of a text that is put together.
LEMMA Piece ==
  ASSUME NEW t, NEW a \in Seq(Byte), NEW b \in Seq(Byte), Begins(t, a \o b)
  PROVE  Begins(t, a) /\ Holds(t, Len(a), b)
<1> DEFINE c == a \o b
           la == Len(a)
           lb == Len(b)
<1>1. /\ Len(c) = la + lb /\ la \in Nat /\ lb \in Nat
      /\ \A i \in 1 .. la : c[i] = a[i]
      /\ \A i \in 1 .. lb : c[la + i] = b[i]
  BY ConcatAt
<1>2. \A i \in 1 .. Len(c) : t[i] = c[i]
  BY DEF Begins
<1> HIDE DEF c, la, lb
<1>3. \A i \in 1 .. la : t[i] = a[i]
  BY <1>1, <1>2
<1>4. \A i \in 1 .. lb : t[la + i] = b[i]
  <2> SUFFICES ASSUME NEW i \in 1 .. lb PROVE t[la + i] = b[i]
    OBVIOUS
  <2>1. la + i \in 1 .. Len(c)
    BY <1>1
  <2> QED BY <1>1, <1>2, <2>1
<1> QED BY <1>3, <1>4 DEF la, lb, Begins, Holds

Reports == [b : Fields, x : Fields, y : Fields, pressed : BOOLEAN]

\* t is what a terminal sends for report r.
ReportText(t, r) ==
  /\ Len(t) = 6 + Width(r.b) + Width(r.x) + Width(r.y)
  /\ t[1] = "ESC" /\ t[2] = "[" /\ t[3] = "<"
  /\ \A j \in 1 .. Width(r.b) : t[3 + j] = Decimal(r.b)[j]
  /\ t[4 + Width(r.b)] = ";"
  /\ \A j \in 1 .. Width(r.x) : t[4 + Width(r.b) + j] = Decimal(r.x)[j]
  /\ t[5 + Width(r.b) + Width(r.x)] = ";"
  /\ \A j \in 1 .. Width(r.y) : t[5 + Width(r.b) + Width(r.x) + j] = Decimal(r.y)[j]
  /\ t[6 + Width(r.b) + Width(r.x) + Width(r.y)] = IF r.pressed THEN "M" ELSE "m"

LEMMA MouseText ==
  ASSUME NEW e, e.type = "mouse", e.report \in Reports
  PROVE  ReportText(Encoding(e), e.report)
<1> DEFINE r == e.report
           h == <<"ESC", "[", "<">>
           s == <<";">>
           m == IF r.pressed THEN "M" ELSE "m"
           z == <<m>>
           db == Decimal(r.b)
           dx == Decimal(r.x)
           dy == Decimal(r.y)
           t == Encoding(e)
           t1 == h \o db
           t2 == t1 \o s
           t3 == t2 \o dx
           t4 == t3 \o s
           t5 == t4 \o dy
           wb == Width(r.b)
           wx == Width(r.x)
           wy == Width(r.y)
<1>1. t = t5 \o z
  BY Zenon DEF Encoding
<1>2. r.b \in Fields /\ r.x \in Fields /\ r.y \in Fields
  BY DEF Reports
<1>3. /\ db \in Seq(Byte) /\ dx \in Seq(Byte) /\ dy \in Seq(Byte)
      /\ wb \in Nat /\ wx \in Nat /\ wy \in Nat
      /\ Len(db) = wb /\ Len(dx) = wx /\ Len(dy) = wy
  <2>1. db \in Seq(Byte) /\ wb \in 1 .. 5
    BY Zenon, <1>2, DecimalIs
  <2>2. dx \in Seq(Byte) /\ wx \in 1 .. 5
    BY Zenon, <1>2, DecimalIs
  <2>3. dy \in Seq(Byte) /\ wy \in 1 .. 5
    BY Zenon, <1>2, DecimalIs
  <2>4. Len(db) = wb /\ Len(dx) = wx /\ Len(dy) = wy
    BY DEF Width
  <2> HIDE DEF db, dx, dy, wb, wx, wy
  <2> QED BY <2>1, <2>2, <2>3, <2>4
<1>4. {"ESC", "[", "<", ";", m} \subseteq Byte
  BY DEF Byte, Marks
<1>5. h \in Seq(Byte) /\ s \in Seq(Byte) /\ z \in Seq(Byte)
  <2>1. \A u, v, w \in Byte : <<u>> \in Seq(Byte) /\ <<u, v, w>> \in Seq(Byte)
    OBVIOUS
  <2> QED BY <1>4, <2>1
<1>6. Len(h) = 3 /\ Len(s) = 1 /\ Len(z) = 1
  OBVIOUS
<1>7. h[1] = "ESC" /\ h[2] = "[" /\ h[3] = "<" /\ s[1] = ";" /\ z[1] = m
  OBVIOUS
<1> HIDE DEF h, s, z, m, db, dx, dy, t, t1, t2, t3, t4, t5, wb, wx, wy
<1>8. t1 \in Seq(Byte) /\ Len(t1) = 3 + wb
  <2>1. t1 \in Seq(Byte) /\ Len(t1) = Len(h) + Len(db)
    BY Zenon, <1>3, <1>5, ConcatAt DEF t1
  <2> QED BY <1>3, <1>6, <2>1
<1>9. t2 \in Seq(Byte) /\ Len(t2) = 4 + wb
  <2>1. t2 \in Seq(Byte) /\ Len(t2) = Len(t1) + Len(s)
    BY Zenon, <1>5, <1>8, ConcatAt DEF t2
  <2> QED BY <1>3, <1>6, <1>8, <2>1
<1>10. t3 \in Seq(Byte) /\ Len(t3) = 4 + wb + wx
  <2>1. t3 \in Seq(Byte) /\ Len(t3) = Len(t2) + Len(dx)
    BY Zenon, <1>3, <1>9, ConcatAt DEF t3
  <2> QED BY <1>3, <1>9, <2>1
<1>11. t4 \in Seq(Byte) /\ Len(t4) = 5 + wb + wx
  <2>1. t4 \in Seq(Byte) /\ Len(t4) = Len(t3) + Len(s)
    BY Zenon, <1>5, <1>10, ConcatAt DEF t4
  <2> QED BY <1>3, <1>6, <1>10, <2>1
<1>12. t5 \in Seq(Byte) /\ Len(t5) = 5 + wb + wx + wy
  <2>1. t5 \in Seq(Byte) /\ Len(t5) = Len(t4) + Len(dy)
    BY Zenon, <1>3, <1>11, ConcatAt DEF t5
  <2> QED BY <1>3, <1>11, <2>1
<1>13. t \in Seq(Byte) /\ Len(t) = 6 + wb + wx + wy
  <2>1. t \in Seq(Byte) /\ Len(t) = Len(t5) + Len(z)
    BY Zenon, <1>1, <1>5, <1>12, ConcatAt
  <2> QED BY <1>3, <1>6, <1>12, <2>1
<1>14. Begins(t, t5) /\ Holds(t, Len(t5), z)
  <2>1. Begins(t, t5 \o z)
    BY <1>1 DEF Begins
  <2> QED BY Zenon, <1>5, <1>12, <2>1, Piece
<1>15. Begins(t, t4) /\ Holds(t, Len(t4), dy)
  BY Zenon, <1>3, <1>11, <1>14, Piece DEF t5
<1>16. Begins(t, t3) /\ Holds(t, Len(t3), s)
  BY Zenon, <1>5, <1>10, <1>15, Piece DEF t4
<1>17. Begins(t, t2) /\ Holds(t, Len(t2), dx)
  BY Zenon, <1>3, <1>9, <1>16, Piece DEF t3
<1>18. Begins(t, t1) /\ Holds(t, Len(t1), s)
  BY Zenon, <1>5, <1>8, <1>17, Piece DEF t2
<1>19. Begins(t, h) /\ Holds(t, Len(h), db)
  BY Zenon, <1>3, <1>5, <1>18, Piece DEF t1
<1>20. \A n, b : Holds(t, n, b) /\ Len(b) = 1 => t[n + 1] = b[1]
  BY DEF Holds
<1>21. t[Len(t5) + 1] = m /\ t[Len(t3) + 1] = ";" /\ t[Len(t1) + 1] = ";"
  BY Zenon, <1>6, <1>7, <1>14, <1>16, <1>18, <1>20
<1>22. Len(t5) + 1 = 6 + wb + wx + wy /\ Len(t3) + 1 = 5 + wb + wx /\ Len(t1) + 1 = 4 + wb
  BY <1>3, <1>8, <1>10, <1>12
<1>23. t[1] = h[1] /\ t[2] = h[2] /\ t[3] = h[3]
  <2>1. \A i \in 1 .. 3 : t[i] = h[i]
    BY <1>6, <1>19 DEF Begins
  <2> QED BY <2>1
<1>24. /\ \A j \in 1 .. wb : t[3 + j] = db[j]
       /\ \A j \in 1 .. wx : t[4 + wb + j] = dx[j]
       /\ \A j \in 1 .. wy : t[5 + wb + wx + j] = dy[j]
  BY Zenon, <1>3, <1>6, <1>9, <1>11, <1>15, <1>17, <1>19 DEF Holds
<1> QED BY Zenon, <1>7, <1>13, <1>21, <1>22, <1>23, <1>24
        DEF ReportText, t, m, db, dx, dy, wb, wx, wy

\* What a terminal sends for an event.
KeyText(e, t) == e.type = "key" /\ Len(t) = 1 /\ t[1] = e.key /\ t[1] # "ESC"
EscText(e, t) == e.type = "esc" /\ Len(t) = 1 /\ t[1] = "ESC"
UpText(e, t) == e.type = "up" /\ Len(t) = 3 /\ t[1] = "ESC" /\ t[2] = "[" /\ t[3] = "A"
DownText(e, t) == e.type = "down" /\ Len(t) = 3 /\ t[1] = "ESC" /\ t[2] = "[" /\ t[3] = "B"
UnboundText(e, t) ==
  e.type = "unbound" /\ t = e.bytes /\ t[1] = "ESC" /\ \A i \in 2 .. Len(t) : t[i] # "ESC"
DragText(e, t) == e.type = "mouse" /\ e.report \in Reports /\ ReportText(t, e.report)
Spelled(e, t) ==
  KeyText(e, t) \/ EscText(e, t) \/ UpText(e, t) \/ DownText(e, t) \/ UnboundText(e, t) \/ DragText(e, t)

\* What no key is bound to.
Escaped(t) ==
  t \in Seq(STRING) /\ t # <<>> /\ \A k \in 1 .. Len(t) : t[k] = "ESC" <=> k = 1

LEMMA EncodingIs ==
  ASSUME NEW e \in Events
  PROVE  Spelled(e, Encoding(e)) /\ Encoding(e) \in Seq(Byte) /\ Len(Encoding(e)) \in Nat \ {0}
<1>1. Encoding(e) \in Seq(Byte) /\ Len(Encoding(e)) \in Nat \ {0}
  BY EncodingText, ShortestText
<1> SUFFICES Spelled(e, Encoding(e))
  BY <1>1
<1>2. \A x : Len(<<x>>) = 1 /\ <<x>>[1] = x
  OBVIOUS
<1>3. CASE e.type = "key" /\ e.key \in STRING \ {"ESC"}
  <2>1. Encoding(e) = <<e.key>> /\ e.key # "ESC"
    BY <1>3 DEF Encoding
  <2> QED BY Zenon, <1>2, <1>3, <2>1 DEF Spelled, KeyText
<1>4. CASE e.type = "esc"
  <2>1. Encoding(e) = <<"ESC">>
    BY <1>4 DEF Encoding
  <2> QED BY Zenon, <1>2, <1>4, <2>1 DEF Spelled, EscText
<1>5. CASE e.type = "up" \/ e.type = "down"
  <2>1. CASE e.type = "up"
    <3>1. Encoding(e) = <<"ESC", "[", "A">>
      BY <2>1 DEF Encoding
    <3>2. \A t : t = <<"ESC", "[", "A">> => Len(t) = 3 /\ t[1] = "ESC" /\ t[2] = "[" /\ t[3] = "A"
      OBVIOUS
    <3>3. UpText(e, Encoding(e))
      BY Zenon, <2>1, <3>1, <3>2 DEF UpText
    <3> QED BY <3>3 DEF Spelled
  <2>2. CASE e.type = "down"
    <3>1. Encoding(e) = <<"ESC", "[", "B">>
      BY <2>2 DEF Encoding
    <3>2. \A t : t = <<"ESC", "[", "B">> => Len(t) = 3 /\ t[1] = "ESC" /\ t[2] = "[" /\ t[3] = "B"
      OBVIOUS
    <3>3. DownText(e, Encoding(e))
      BY Zenon, <2>2, <3>1, <3>2 DEF DownText
    <3> QED BY <3>3 DEF Spelled
  <2> QED BY <1>5, <2>1, <2>2
<1>6. CASE \/ e.type = "unbound" /\ Escaped(e.bytes)
           \/ e.type = "mouse" /\ e.report \in Reports
  <2>1. CASE e.type = "unbound" /\ Escaped(e.bytes)
    <3>1. Encoding(e) = e.bytes
      BY <2>1 DEF Encoding
    <3>2. e.bytes[1] = "ESC" /\ \A i \in 2 .. Len(e.bytes) : e.bytes[i] # "ESC"
      <4> DEFINE t == e.bytes
                 l == Len(t)
      <4>1. l \in Nat /\ l > 0
        BY <2>1, EmptySeq, LenProperties DEF Escaped
      <4>2. \A i \in 1 .. l : t[i] = "ESC" <=> i = 1
        BY <2>1 DEF Escaped
      <4> HIDE DEF l, t
      <4>3. 1 \in 1 .. l /\ \A i \in 2 .. l : i \in 1 .. l /\ i # 1
        BY <4>1
      <4>4. t[1] = "ESC" /\ \A i \in 2 .. l : t[i] # "ESC"
        BY Zenon, <4>2, <4>3
      <4> QED BY Zenon, <4>4 DEF l, t
    <3> QED BY Zenon, <2>1, <3>1, <3>2 DEF Spelled, UnboundText
  <2>2. CASE e.type = "mouse" /\ e.report \in Reports
    BY Zenon, <2>2, MouseText DEF Spelled, DragText
  <2> QED BY <1>6, <2>1, <2>2
<1>7. \/ e.type = "key" /\ e.key \in STRING \ {"ESC"}
      \/ e.type \in {"esc", "up", "down"}
      \/ e.type = "unbound" /\ Escaped(e.bytes)
      \/ e.type = "mouse" /\ e.report \in Reports
  BY EventsAssumption DEF Reports, Escaped
<1> QED BY Zenon, <1>1, <1>3, <1>4, <1>5, <1>6, <1>7

\* Only the first byte is an ESC.
LEMMA NoEsc ==
  ASSUME NEW e \in Events, NEW i \in 2 .. Len(Encoding(e))
  PROVE  Encoding(e)[i] # "ESC"
<1> DEFINE t == Encoding(e)
           l == Len(t)
<1>1. Spelled(e, t) /\ l \in Nat
  BY EncodingIs
<1> HIDE DEF t
<1>2. CASE l = 1 \/ (l = 3 /\ t[2] # "ESC" /\ t[3] # "ESC")
  <2>1. l = 1 \/ l = 3
    BY <1>2
  <2>2. i \in 2 .. l
    BY DEF t
  <2> HIDE DEF l
  <2>3. l = 3 /\ (i = 2 \/ i = 3)
    BY <2>1, <2>2
  <2>4. t[2] # "ESC" /\ t[3] # "ESC"
    <3>1. l # 1
      BY <2>3
    <3> QED BY Zenon, <1>2, <3>1 DEF l
  <2> QED BY Zenon, <2>3, <2>4 DEF t
<1>3. CASE UnboundText(e, t)
  <2>1. \A j \in 2 .. Len(t) : t[j] # "ESC"
    BY Zenon, <1>3 DEF UnboundText
  <2>2. i \in 2 .. Len(t)
    BY DEF t
  <2> QED BY Zenon, <2>1, <2>2 DEF t
<1>4. CASE e.report \in Reports /\ ReportText(t, e.report)
  <2> DEFINE r == e.report
             wb == Width(r.b)
             wx == Width(r.x)
             wy == Width(r.y)
  <2>1. r.b \in Fields /\ r.x \in Fields /\ r.y \in Fields
    BY <1>4 DEF Reports
  <2>2. ASSUME NEW n \in Fields
        PROVE  Width(n) \in 1 .. 5 /\ \A j \in 1 .. Width(n) : Decimal(n)[j] # "ESC"
    <3>1. /\ Width(n) \in 1 .. 5
          /\ \A j \in 1 .. Width(n) : DigitAt(n, j) \in 0 .. 9 /\ Decimal(n)[j] = Digit(DigitAt(n, j))
      BY Zenon, DecimalIs
    <3>2. \A d \in 0 .. 9 : Digit(d) # "ESC"
      BY Zenon, DigitIs
    <3> QED BY Zenon, <3>1, <3>2
  <2>3. /\ wb \in 1 .. 5 /\ wx \in 1 .. 5 /\ wy \in 1 .. 5
        /\ \A j \in 1 .. wb : Decimal(r.b)[j] # "ESC"
        /\ \A j \in 1 .. wx : Decimal(r.x)[j] # "ESC"
        /\ \A j \in 1 .. wy : Decimal(r.y)[j] # "ESC"
    BY Zenon, <2>1, <2>2
  <2>4. /\ l = 6 + wb + wx + wy
        /\ t[2] = "[" /\ t[3] = "<"
        /\ \A j \in 1 .. wb : t[3 + j] = Decimal(r.b)[j]
        /\ t[4 + wb] = ";"
        /\ \A j \in 1 .. wx : t[4 + wb + j] = Decimal(r.x)[j]
        /\ t[5 + wb + wx] = ";"
        /\ \A j \in 1 .. wy : t[5 + wb + wx + j] = Decimal(r.y)[j]
        /\ t[6 + wb + wx + wy] \in {"M", "m"}
    BY Zenon, <1>4 DEF ReportText
  <2> HIDE DEF l, r, wb, wx, wy
  <2>5. i \in 2 .. 6 + wb + wx + wy
    BY <2>4 DEF l, t
  <2>6. \/ i = 2 \/ i = 3 \/ i = 4 + wb \/ i = 5 + wb + wx \/ i = 6 + wb + wx + wy
        \/ \E j \in 1 .. wb : i = 3 + j
        \/ \E j \in 1 .. wx : i = 4 + wb + j
        \/ \E j \in 1 .. wy : i = 5 + wb + wx + j
    <3>1. wb \in Nat /\ wx \in Nat /\ wy \in Nat /\ i \in Int
      BY <2>3
    <3>2. CASE i \in 4 .. 3 + wb
      <4>1. i - 3 \in 1 .. wb /\ i = 3 + (i - 3)
        BY <3>1, <3>2
      <4> QED BY <4>1
    <3>3. CASE i \in 5 + wb .. 4 + wb + wx
      <4>1. i - (4 + wb) \in 1 .. wx /\ i = 4 + wb + (i - (4 + wb))
        BY <3>1, <3>3
      <4> QED BY <4>1
    <3>4. CASE i \in 6 + wb + wx .. 5 + wb + wx + wy
      <4>1. i - (5 + wb + wx) \in 1 .. wy /\ i = 5 + wb + wx + (i - (5 + wb + wx))
        BY <3>1, <3>4
      <4> QED BY <4>1
    <3>5. \/ i = 2 \/ i = 3 \/ i = 4 + wb \/ i = 5 + wb + wx \/ i = 6 + wb + wx + wy
          \/ i \in 4 .. 3 + wb \/ i \in 5 + wb .. 4 + wb + wx \/ i \in 6 + wb + wx .. 5 + wb + wx + wy
      BY <2>5, <3>1
    <3> QED BY <3>2, <3>3, <3>4, <3>5
  <2>7. t[i] # "ESC"
    <3>1. CASE \/ i = 2 \/ i = 3 \/ i = 4 + wb \/ i = 5 + wb + wx \/ i = 6 + wb + wx + wy
      BY <2>4, <3>1
    <3>2. CASE \E j \in 1 .. wb : i = 3 + j
      <4>1. PICK j \in 1 .. wb : i = 3 + j
        BY <3>2
      <4>2. t[3 + j] = Decimal(r.b)[j] /\ Decimal(r.b)[j] # "ESC"
        BY Zenon, <2>3, <2>4
      <4> QED BY <4>1, <4>2
    <3>3. CASE \E j \in 1 .. wx : i = 4 + wb + j
      <4>1. PICK j \in 1 .. wx : i = 4 + wb + j
        BY <3>3
      <4>2. t[4 + wb + j] = Decimal(r.x)[j] /\ Decimal(r.x)[j] # "ESC"
        BY Zenon, <2>3, <2>4
      <4> QED BY <4>1, <4>2
    <3>4. CASE \E j \in 1 .. wy : i = 5 + wb + wx + j
      <4>1. PICK j \in 1 .. wy : i = 5 + wb + wx + j
        BY <3>4
      <4>2. t[5 + wb + wx + j] = Decimal(r.y)[j] /\ Decimal(r.y)[j] # "ESC"
        BY Zenon, <2>3, <2>4
      <4> QED BY <4>1, <4>2
    <3> QED BY <2>6, <3>1, <3>2, <3>3, <3>4
  <2> QED BY <2>7 DEF t
<1>5. CASE KeyText(e, t) \/ EscText(e, t) \/ UpText(e, t) \/ DownText(e, t)
  <2>1. "[" # "ESC" /\ "A" # "ESC" /\ "B" # "ESC"
    OBVIOUS
  <2>2. CASE KeyText(e, t) \/ EscText(e, t)
    <3>1. l = 1
      BY Zenon, <2>2 DEF KeyText, EscText
    <3> QED BY Zenon, <1>2, <3>1
  <2>3. CASE UpText(e, t) \/ DownText(e, t)
    <3>1. l = 3 /\ t[2] # "ESC" /\ t[3] # "ESC"
      BY Zenon, <2>1, <2>3 DEF UpText, DownText
    <3>2. l = 1 \/ (l = 3 /\ t[2] # "ESC" /\ t[3] # "ESC")
      BY Zenon, <3>1
    <3> HIDE DEF l
    <3> QED BY Zenon, <1>2, <3>2
  <2> QED BY <1>5, <2>2, <2>3
<1>6. CASE DragText(e, t)
  BY <1>4, <1>6 DEF DragText
<1> QED BY Zenon, <1>1, <1>3, <1>5, <1>6 DEF Spelled, t

-----------------------------------------------------------------------------
(* What is left to handle *)

\* A sequence the loop does not drop as a whole is torn, and so is an event the
\* loop is open to, with all that is behind it, unless it is an ESC and the last.
Torn(box) == \A i \in 1 .. Len(box) : box[i].torn
EntrySpread(box, i) ==
  /\ box[i].ev.type = "unbound" /\ ~box[i].torn => Promise!Swallowed(box[i].ev.bytes)
  /\ Promise!Open(box[i].ev) => \/ i = Len(box) /\ box[i].ev.type = "esc"
                                \/ \A j \in i .. Len(box) : box[j].torn
Spread(box) == \A i \in 1 .. Len(box) : EntrySpread(box, i)

\* m bytes of the events are left, all of the first one if it is whole.
Resumable(box, m) ==
  box # <<>> => /\ m <= Size(box) /\ Size(box) - m < Len(Encoding(box[1].ev))
                /\ ~box[1].torn => m = Size(box)

LEMMA EndSpread ==
  ASSUME NEW box \in Seq(Entry), Spread(box), NEW q \in Seq(Entry), Tailed(box, q)
  PROVE  Spread(q) /\ (Torn(box) => Torn(q))
<1>1. PICK p \in Seq(Entry) : box = p \o q
  BY DEF Tailed
<1> DEFINE n == Len(p)
           l == Len(q)
           k == Len(box)
<1>2. /\ n \in Nat /\ l \in Nat /\ k = n + l
      /\ \A i \in 1 .. n + l : box[i] = IF i <= n THEN p[i] ELSE q[i - n]
  BY <1>1, ConcatProperties, LenProperties
<1>3. \A i \in 1 .. k : EntrySpread(box, i)
  BY DEF Spread
<1>4. Torn(box) => \A i \in 1 .. k : box[i].torn
  BY DEF Torn
<1> HIDE DEF n, l, k
<1>5. \A i \in 1 .. l : n + i \in 1 .. k /\ box[n + i] = q[i]
  <2> SUFFICES ASSUME NEW i \in 1 .. l PROVE n + i \in 1 .. k /\ box[n + i] = q[i]
    OBVIOUS
  <2>1. n + i \in 1 .. n + l /\ ~(n + i <= n) /\ n + i - n = i
    BY <1>2
  <2> QED BY <1>2, <2>1
<1>6. ASSUME NEW i \in 1 .. l PROVE EntrySpread(q, i)
  <2>1. n + i \in 1 .. k /\ box[n + i] = q[i] /\ EntrySpread(box, n + i)
    BY Zenon, <1>3, <1>5
  <2>2. (n + i = k => i = l) /\ \A j \in i .. l : n + j \in n + i .. k /\ j \in 1 .. l
    BY <1>2
  <2>3. (\A j \in n + i .. k : box[j].torn) => \A j \in i .. l : q[j].torn
    BY Zenon, <1>5, <2>2
  <2> QED BY Zenon, <2>1, <2>2, <2>3 DEF EntrySpread, k, l
<1>7. Torn(box) => \A i \in 1 .. l : q[i].torn
  BY Zenon, <1>4, <1>5
<1> QED BY Zenon, <1>6, <1>7 DEF Spread, Torn, l

\* The same events, more of them torn.
LEMMA MoreTorn ==
  ASSUME NEW q, NEW t, Len(t) = Len(q), Spread(q),
         \A j \in 1 .. Len(q) : t[j].ev = q[j].ev /\ (q[j].torn => t[j].torn)
  PROVE  Spread(t) /\ (Torn(q) => Torn(t))
<1> DEFINE l == Len(q)
<1>1. \A i \in 1 .. l : EntrySpread(q, i)
  BY DEF Spread
<1>2. \A i \in 1 .. l : t[i].ev = q[i].ev /\ (q[i].torn => t[i].torn)
  OBVIOUS
<1>3. ASSUME NEW i \in 1 .. l PROVE EntrySpread(t, i)
  <2>1. (\A j \in i .. l : q[j].torn) => \A j \in i .. l : t[j].torn
    <3>1. \A j \in i .. l : j \in 1 .. l
      OBVIOUS
    <3> QED BY Zenon, <1>2, <3>1
  <2> QED BY Zenon, <1>1, <1>2, <1>3, <2>1 DEF EntrySpread
<1>4. Torn(q) => Torn(t)
  BY Zenon, <1>2 DEF Torn
<1> QED BY Zenon, <1>3, <1>4 DEF Spread

LEMMA TornSpread ==
  ASSUME NEW q \in Seq(Entry), q # <<>>
  PROVE  /\ TornHead(q) \in Seq(Entry) /\ TornHead(q) # <<>> /\ Size(TornHead(q)) = Size(q)
         /\ TornHead(q)[1].torn /\ TornHead(q)[1].ev = q[1].ev
         /\ TornHead(q) = [q EXCEPT ![1].torn = TRUE]
         /\ q[1].torn => TornHead(q) = q
         /\ Spread(q) => Spread(TornHead(q))
<1> DEFINE h == [q[1] EXCEPT !.torn = TRUE]
           t == [q EXCEPT ![1] = h]
<1>1. TornHead(q) = t /\ t = [q EXCEPT ![1].torn = TRUE]
  BY DEF TornHead
<1>2. 1 \in 1 .. Len(q) /\ Len(q) \in Nat
  BY EmptySeq
<1>3. q[1] \in Entry
  BY <1>2
<1>4. h \in Entry /\ h.ev = q[1].ev /\ h.torn = TRUE
  BY <1>3 DEF Entry
<1>5. q[1].torn => h = q[1]
  BY <1>3 DEF Entry
<1> HIDE DEF h
<1>6. /\ t \in Seq(Entry) /\ Len(t) = Len(q)
      /\ \A j \in 1 .. Len(q) : t[j] = IF j = 1 THEN h ELSE q[j]
  BY <1>2, <1>4, ExceptSeq
<1>7. Size(TornHead(q)) = Size(q)
  BY TornKeepsBytes DEF Size
<1> HIDE DEF t
<1>8. t # <<>> /\ t[1] = h
  BY <1>2, <1>6, EmptySeq
<1>9. ASSUME q[1].torn PROVE t = q
  <2>1. \A j \in 1 .. Len(q) : t[j] = q[j]
    BY <1>5, <1>6, <1>9
  <2> QED BY <1>6, <2>1, SeqEqual
<1>10. ASSUME Spread(q) PROVE Spread(t)
  <2>1. \A j \in 1 .. Len(q) : t[j].ev = q[j].ev /\ (q[j].torn => t[j].torn)
    BY <1>4, <1>6
  <2> QED BY Zenon, <1>6, <1>10, <2>1, MoreTorn
<1> QED BY <1>1, <1>4, <1>6, <1>7, <1>8, <1>9, <1>10

\* Keys and Keyboard have the same panels.
LEMMA SameSuffixes == \A b : Promise!Suffixes(b) = Suffixes(b)
  BY DEF Suffixes, Promise!Suffixes

LEMMA SameMatches == \A q : Promise!Matches(q) = Matches(q)
  BY DEF Matches, NameMatch, Promise!Matches, Promise!NameMatch

LEMMA SameCursor ==
  /\ \A b : Promise!BrowserUp(b) = BrowserUp(b) /\ Promise!BrowserDown(b) = BrowserDown(b)
  /\ \A u : Promise!Opened(u) = Opened(u)
  BY DEF BrowserUp, Promise!BrowserUp, BrowserDown, Promise!BrowserDown, Opened, Promise!Opened

LEMMA SameBrowserKey == \A u, c : Promise!BrowserKey(u, c) = BrowserKey(u, c)
  BY SameCursor DEF BrowserKey, Promise!BrowserKey

LEMMA SameGiven == \A u, x : Promise!Given(u, x) = Given(u, x)
  BY DEF Given, Promise!Given

LEMMA SamePicker ==
  /\ \A p, d : Promise!PickerMove(p, d) = PickerMove(p, d)
  /\ \A p : Promise!Erased(p) = Erased(p)
  /\ \A p, c : Promise!Typed(p, c) = Typed(p, c)
  /\ \A u : Promise!Chosen(u) = Chosen(u)
<1>1. \A p, d : Promise!PickerMove(p, d) = PickerMove(p, d)
  BY SameMatches DEF PickerMove, Promise!PickerMove
<1>2. \A p : Promise!Erased(p) = Erased(p)
  BY DEF Erased, Promise!Erased, Front, Promise!Front
<1>3. \A p, c : Promise!Typed(p, c) = Typed(p, c)
  BY DEF Typed, Promise!Typed
<1>4. \A u : Promise!Chosen(u) = Chosen(u)
  BY SameMatches, SameGiven DEF Chosen, Promise!Chosen
<1> QED BY <1>1, <1>2, <1>3, <1>4

LEMMA SamePickerKey == \A u, c : Promise!PickerKey(u, c) = PickerKey(u, c)
  BY SamePicker DEF PickerKey, Promise!PickerKey

LEMMA SameKey == \A u, c : Promise!Key(u, c) = Key(u, c)
<1>1. \A u : Promise!Slash(u) = Slash(u)
  BY DEF Slash, Promise!Slash, Shut, Promise!Shut
<1>2. \A u, c : Promise!Hotkey(u, c) = Hotkey(u, c)
  BY SameGiven DEF Hotkey, Promise!Hotkey
<1> QED BY <1>1, <1>2, SameBrowserKey, SamePickerKey DEF Key, Promise!Key

LEMMA SameAnswers ==
  /\ \A u, d : Promise!Arrow(u, d) = Arrow(u, d)
  /\ \A u : Promise!Escape(u) = Escape(u)
  /\ \A u, m : Promise!Mouse(u, m) = Mouse(u, m)
  /\ \A u : Promise!Answered(u) = Answered(u) /\ Promise!Played(u) = Played(u)
  /\ Promise!Ui0 = Ui0
<1>1. \A u, d : Promise!Arrow(u, d) = Arrow(u, d)
  BY SameCursor, SamePicker DEF Arrow, Promise!Arrow
<1>2. \A u : Promise!Escape(u) = Escape(u)
  BY DEF Escape, Promise!Escape
<1>3. \A u, m : Promise!Mouse(u, m) = Mouse(u, m)
  BY SameGiven DEF Mouse, Promise!Mouse
<1>4. \A u : Promise!Answered(u) = Answered(u) /\ Promise!Played(u) = Played(u)
  BY DEF Answered, Promise!Answered, Played, Promise!Played
<1>5. Promise!Ui0 = Ui0
  BY DEF Ui0, Promise!Ui0, Closed, Promise!Closed, Shut, Promise!Shut
<1> QED BY <1>1, <1>2, <1>3, <1>4, <1>5

LEMMA InDrained ==
  ASSUME NEW b, NEW s \in Suffixes(b)
  PROVE  s \in Promise!Drained(b) /\ (s # <<>> => [s EXCEPT ![1].torn = TRUE] \in Promise!Drained(b))
<1>1. s \in Promise!Suffixes(b)
  BY SameSuffixes
<1> QED BY <1>1 DEF Promise!Drained

\* What the last m bytes belong to.
LastOf(box, m, q) ==
  /\ q \in Seq(Entry) /\ q \in Suffixes(box) /\ Spread(q) /\ (Torn(box) => Torn(q))
  /\ Size(q) \in Nat /\ m <= Size(q)
  /\ q # <<>> => Size(q) - m < Len(Encoding(q[1].ev))

LEMMA LastBytes ==
  ASSUME NEW box \in Seq(Entry), Spread(box), NEW m \in Nat, m <= Size(box)
  PROVE  LastOf(box, m, Unhandled(box, m))
<1>1. CASE m = 0
  <2>1. Unhandled(box, m) = <<>> /\ Size(<<>>) = 0
    BY <1>1, BytesNone DEF Unhandled, Size
  <2>4. Size(<<>>) \in Nat /\ m <= Size(<<>>)
    BY <1>1, <2>1
  <2>2. <<>> \in Suffixes(box) /\ <<>> \in Seq(Entry) /\ Len(<<>>) = 0
    BY EmptySeq DEF Suffixes
  <2>3. Spread(<<>>) /\ Torn(<<>>)
    <3>1. \A i \in 1 .. 0 : FALSE
      OBVIOUS
    <3> QED BY Zenon, <2>2, <3>1 DEF Spread, Torn
  <2> QED BY Zenon, <2>1, <2>2, <2>3, <2>4 DEF LastOf
<1>2. CASE m # 0
  <2>1. PICK q \in Seq(Entry) : /\ Tailed(box, q) /\ q # <<>> /\ Unhandled(box, m) = q
                                /\ Size(Tail(q)) < m /\ m <= Size(q)
    <3>1. 0 < m
      BY <1>2
    <3> QED BY <3>1, UnhandledFits
  <2>2. Spread(q) /\ (Torn(box) => Torn(q))
    BY <2>1, EndSpread
  <2>3. q \in Suffixes(box)
    BY <2>1, SuffixTailed
  <2> DEFINE l == Len(Encoding(q[1].ev))
  <2>4. /\ Size(q) = l + Size(Tail(q)) /\ l \in Nat \ {0}
        /\ Size(Tail(q)) \in Nat /\ Size(q) \in Nat
    BY <2>1, BytesHead, BytesText
  <2>5. Size(q) - m < l
    <3> HIDE DEF l
    <3> QED BY <2>1, <2>4
  <2> QED BY Zenon, <2>1, <2>2, <2>3, <2>4, <2>5 DEF LastOf, l
<1> QED BY <1>1, <1>2

\* Throwing away all but the last m bytes.
LEMMA Drains ==
  ASSUME NEW box \in Seq(Entry), Spread(box), NEW m \in Nat, m <= Size(box)
  PROVE  LET c == Cut(Unhandled(box, m), m)
         IN  c \in Promise!Drained(box) /\ c \in Seq(Entry) /\ Spread(c) /\ Resumable(c, m)
<1> DEFINE q == Unhandled(box, m)
           c == Cut(q, m)
<1>1. LastOf(box, m, q)
  BY LastBytes
<1> HIDE DEF q
<1>2. /\ q \in Seq(Entry) /\ q \in Suffixes(box) /\ Spread(q) /\ Size(q) \in Nat /\ m <= Size(q)
      /\ q # <<>> => Size(q) - m < Len(Encoding(q[1].ev))
  BY <1>1 DEF LastOf
<1>3. CASE ~(m < Size(q))
  <2>1. c = q /\ m = Size(q)
    BY <1>2, <1>3 DEF Cut
  <2>2. Resumable(q, m)
    BY Zenon, <1>2, <2>1 DEF Resumable
  <2>3. q \in Promise!Drained(box)
    BY <1>2, InDrained
  <2> QED BY Zenon, <1>2, <2>1, <2>2, <2>3 DEF q
<1>4. CASE m < Size(q)
  <2>1. q # <<>>
    <3>1. Size(<<>>) = 0
      BY BytesNone, EmptySeq DEF Size
    <3> QED BY <1>4, <3>1
  <2> DEFINE u == TornHead(q)
  <2>2. c = u
    BY <1>4 DEF Cut
  <2>3. /\ u \in Seq(Entry) /\ u # <<>> /\ Size(u) = Size(q) /\ u[1].torn /\ u[1].ev = q[1].ev
        /\ u = [q EXCEPT ![1].torn = TRUE] /\ Spread(u)
    BY Zenon, <1>2, <2>1, TornSpread
  <2> HIDE DEF u
  <2>4. Resumable(u, m)
    BY Zenon, <1>2, <2>1, <2>3 DEF Resumable
  <2>5. u \in Promise!Drained(box)
    BY Zenon, <1>2, <2>1, <2>3, InDrained
  <2> QED BY Zenon, <2>2, <2>3, <2>4, <2>5 DEF q
<1> QED BY <1>3, <1>4

\* Bytes of the first event are left: it stays.
LEMMA Stays ==
  ASSUME NEW box \in Seq(Entry), box # <<>>, NEW m \in Nat, Size(Tail(box)) < m, m <= Size(box)
  PROVE  Unhandled(box, m) = box
<1>1. <<>> \in Seq(Entry) /\ box = <<>> \o box
  BY EmptySeq, ConcatEmptySeq
<1>2. Tailed(box, box)
  BY <1>1 DEF Tailed
<1> QED BY <1>2, UnhandledIs

\* None are left: what stays is an end of the others.
LEMMA Skips ==
  ASSUME NEW box \in Seq(Entry), box # <<>>, NEW m \in Nat, m <= Size(Tail(box))
  PROVE  Unhandled(box, m) = Unhandled(Tail(box), m)
<1> DEFINE t == Tail(box)
<1>1. t \in Seq(Entry) /\ Tailed(box, t)
  BY BytesHead
<1> HIDE DEF t
<1>2. CASE m = 0
  BY <1>2 DEF Unhandled
<1>3. CASE m # 0
  <2>1. PICK q \in Seq(Entry) : /\ Tailed(t, q) /\ q # <<>> /\ Unhandled(t, m) = q
                                /\ Size(Tail(q)) < m /\ m <= Size(q)
    <3>1. 0 < m /\ m <= Size(t)
      BY <1>3 DEF t
    <3> QED BY <1>1, <3>1, UnhandledFits
  <2>2. Tailed(box, q)
    BY <1>1, <2>1, TailedOfTailed
  <2>3. Unhandled(box, m) = q
    BY <2>1, <2>2, UnhandledIs
  <2> QED BY <2>1, <2>3 DEF t
<1> QED BY <1>2, <1>3

LEMMA Shifts ==
  ASSUME NEW box \in Seq(Entry), box # <<>>
  PROVE  Unhandled(box, Size(Tail(box))) = Tail(box)
<1> DEFINE t == Tail(box)
           m == Size(t)
<1>1. t \in Seq(Entry) /\ m \in Nat
  BY BytesHead, BytesText
<1>2. Unhandled(box, m) = Unhandled(t, m)
  <2>1. m <= Size(Tail(box))
    BY <1>1
  <2> HIDE DEF m, t
  <2> QED BY <1>1, <2>1, Skips DEF t
<1>3. CASE t = <<>>
  <2>1. m = 0
    BY <1>3, BytesNone, EmptySeq DEF Size
  <2> QED BY <1>2, <1>3, <2>1 DEF Unhandled
<1>4. CASE t # <<>>
  <2>1. /\ Size(t) = Len(Encoding(t[1].ev)) + Size(Tail(t)) /\ Len(Encoding(t[1].ev)) \in Nat \ {0}
        /\ Tail(t) \in Seq(Entry)
    BY <1>1, <1>4, BytesHead
  <2>2. Size(Tail(t)) \in Nat
    BY <2>1, BytesText
  <2>3. Size(Tail(t)) < m /\ m <= Size(t)
    BY <1>1, <2>1, <2>2
  <2> HIDE DEF m, t
  <2>4. Unhandled(t, m) = t
    BY <1>1, <1>4, <2>3, Stays
  <2> QED BY <1>2, <2>4 DEF m, t
<1> QED BY <1>3, <1>4

-----------------------------------------------------------------------------
(* A mouse report, byte by byte *)

Parsing(s, v, j) == [state |-> s, val |-> v, digits |-> j]

\* What the parser holds when k bytes of report r are read.
InFirst(r, k, p) == \E j \in 0 .. Width(r.b) :
  k = 3 + j /\ p = Parsing(1, <<Upper(r.b, j), 0, 0>>, j)
InSecond(r, k, p) == \E j \in 0 .. Width(r.x) :
  k = 4 + Width(r.b) + j /\ p = Parsing(2, <<r.b, Upper(r.x, j), 0>>, j)
InThird(r, k, p) == \E j \in 0 .. Width(r.y) :
  k = 5 + Width(r.b) + Width(r.x) + j /\ p = Parsing(3, <<r.b, r.x, Upper(r.y, j)>>, j)
InReport(r, k, p) == InFirst(r, k, p) \/ InSecond(r, k, p) \/ InThird(r, k, p)

\* A digit is taken in.
Taken(n, j, s, v, p, c) ==
  /\ IsMore(p, c) /\ ~IsDone(p, c) /\ IsDigit(c)
  /\ FedDigit(p, c) = Parsing(s, [v EXCEPT ![s] = Upper(n, j)], j)

LEMMA DigitStep ==
  ASSUME NEW n \in Fields, NEW j \in 1 .. Width(n), NEW s \in 1 .. 3, NEW v, v[s] = Upper(n, j - 1)
  PROVE  Taken(n, j, s, v, Parsing(s, v, j - 1), Decimal(n)[j])
<1> DEFINE p == Parsing(s, v, j - 1)
           c == Decimal(n)[j]
           d == DigitAt(n, j)
<1>1. /\ Width(n) \in 1 .. 5 /\ d \in 0 .. 9 /\ c = Digit(d)
      /\ Upper(n, j) = Upper(n, j - 1) * 10 + d
  BY Zenon, DecimalIs
<1>2. IsDigit(c) /\ ValueOf(c) = d /\ c # "M" /\ c # "m"
  <2> HIDE DEF c, d
  <2>1. IsDigit(Digit(d)) /\ ValueOf(Digit(d)) = d /\ Digit(d) # "M" /\ Digit(d) # "m"
    BY Zenon, <1>1, DigitIs
  <2> QED BY Zenon, <1>1, <2>1
<1>3. p.state = s /\ p.val = v /\ p.digits = j - 1
  BY DEF Parsing
<1> HIDE DEF c, d
<1>4. j - 1 < 5 /\ (j - 1) + 1 = j
  BY <1>1
<1>5. IsMore(p, c)
  BY <1>2, <1>3, <1>4 DEF IsMore
<1>6. ~IsDone(p, c)
  BY <1>2 DEF IsDone
<1>7. FedDigit(p, c) = Parsing(s, [v EXCEPT ![s] = Upper(n, j)], j)
  <2> DEFINE u == Upper(n, j)
             w == Upper(n, j - 1)
  <2>1. FedDigit(p, c) = [state |-> s, val |-> [v EXCEPT ![s] = v[s] * 10 + ValueOf(c)], digits |-> (j - 1) + 1]
    <3> DEFINE q == [p EXCEPT !.digits = p.digits + 1]
    <3>1. q = [state |-> s, val |-> v, digits |-> (j - 1) + 1] /\ q.val = v
      BY DEF Parsing
    <3> DEFINE x == [q.val EXCEPT ![p.state] = @ * 10 + ValueOf(c)]
    <3>2. FedDigit(p, c) = [q EXCEPT !.val = x]
      BY DEF FedDigit
    <3>3. x = [v EXCEPT ![s] = v[s] * 10 + ValueOf(c)]
      BY Zenon, <1>3, <3>1
    <3> HIDE DEF q, x
    <3>4. [q EXCEPT !.val = x] = [state |-> s, val |-> x, digits |-> (j - 1) + 1]
      BY <3>1
    <3> QED BY Zenon, <3>2, <3>3, <3>4
  <2>2. v[s] * 10 + ValueOf(c) = u
    BY Zenon, <1>1, <1>2
  <2> HIDE DEF u
  <2>3. FedDigit(p, c) = [state |-> s, val |-> [v EXCEPT ![s] = u], digits |-> j]
    BY Zenon, <1>4, <2>1, <2>2
  <2> QED BY <2>3 DEF Parsing, u
<1> QED BY Zenon, <1>2, <1>5, <1>6, <1>7 DEF Taken, c

\* A semicolon ends a number.
LEMMA SemicolonStep ==
  ASSUME NEW s \in 1 .. 2, NEW v, NEW j \in 1 .. 5
  PROVE  LET p == Parsing(s, v, j)
         IN  /\ IsMore(p, ";") /\ ~IsDone(p, ";") /\ ~IsDigit(";")
             /\ NextField(p) = Parsing(s + 1, v, 0)
<1> DEFINE p == Parsing(s, v, j)
<1>1. p.state = s /\ p.val = v /\ p.digits = j
  BY DEF Parsing
<1>2. IsMore(p, ";")
  <2>1. p.state < 3 /\ p.digits > 0
    BY <1>1
  <2> QED BY Zenon, <2>1 DEF IsMore
<1>3. ~IsDone(p, ";")
  BY DEF IsDone
<1>4. NextField(p) = Parsing(s + 1, v, 0)
  <2>1. p = [state |-> s, val |-> v, digits |-> j]
    BY DEF Parsing
  <2> DEFINE x == s + 1
  <2>2. [p EXCEPT !.state = @ + 1, !.digits = 0] = [p EXCEPT !.state = x, !.digits = 0]
    BY Zenon, <1>1
  <2> HIDE DEF p, x
  <2>3. [p EXCEPT !.state = x, !.digits = 0] = [state |-> x, val |-> v, digits |-> 0]
    <3> DEFINE q == [p EXCEPT !.state = x]
    <3>1. q = [state |-> x, val |-> v, digits |-> j]
      BY <2>1
    <3> HIDE DEF q
    <3>2. [q EXCEPT !.digits = 0] = [state |-> x, val |-> v, digits |-> 0]
      BY <3>1
    <3> QED BY Zenon, <3>2 DEF q
  <2>4. [p EXCEPT !.state = @ + 1, !.digits = 0] = [state |-> s + 1, val |-> v, digits |-> 0]
    BY Zenon, <2>2, <2>3 DEF x
  <2> QED BY Zenon, <2>4 DEF NextField, Parsing
<1> QED BY <1>2, <1>3, <1>4, NoDigit

\* What the parser does with the byte behind the first k: it goes on in the
\* report, or has all of it with the last byte.
Onward(r, t, k, p) ==
  /\ k + 1 < Len(t) /\ IsMore(p, t[k + 1]) /\ ~IsDone(p, t[k + 1])
  /\ InReport(r, k + 1, IF IsDigit(t[k + 1]) THEN FedDigit(p, t[k + 1]) ELSE NextField(p))
Through(r, t, k, p) ==
  k + 1 = Len(t) /\ IsDone(p, t[k + 1]) /\ ~IsMore(p, t[k + 1]) /\ Report(p, t[k + 1]) = r

LEMMA ReportStep ==
  ASSUME NEW r \in Reports, NEW t, ReportText(t, r), NEW k, NEW p, InReport(r, k, p)
  PROVE  p.state # 0 /\ k >= 3 /\ (Onward(r, t, k, p) \/ Through(r, t, k, p))
<1> DEFINE wb == Width(r.b)
           wx == Width(r.x)
           wy == Width(r.y)
           c == t[k + 1]
<1>1. r.b \in Fields /\ r.x \in Fields /\ r.y \in Fields /\ r.pressed \in BOOLEAN
  BY DEF Reports
<1>2. ASSUME NEW n \in Fields PROVE Width(n) \in 1 .. 5 /\ Upper(n, 0) = 0 /\ Upper(n, Width(n)) = n
  BY Zenon, DecimalIs
<1>3. wb \in 1 .. 5 /\ wx \in 1 .. 5 /\ wy \in 1 .. 5
  BY Zenon, <1>1, <1>2
<1>4. Len(t) = 6 + wb + wx + wy
  BY DEF ReportText
<1>5. /\ \A j \in 1 .. wb : t[3 + j] = Decimal(r.b)[j]
      /\ \A j \in 1 .. wx : t[4 + wb + j] = Decimal(r.x)[j]
      /\ \A j \in 1 .. wy : t[5 + wb + wx + j] = Decimal(r.y)[j]
  BY Zenon DEF ReportText
<1>6. t[4 + wb] = ";" /\ t[5 + wb + wx] = ";"
  BY Zenon DEF ReportText
<1>7. t[6 + wb + wx + wy] = IF r.pressed THEN "M" ELSE "m"
  BY Zenon DEF ReportText
<1> HIDE DEF wb, wx, wy
<1>8. CASE InFirst(r, k, p)
  <2>1. PICK j \in 0 .. wb : k = 3 + j /\ p = Parsing(1, <<Upper(r.b, j), 0, 0>>, j)
    BY <1>8 DEF InFirst, wb
  <2>2. p.state = 1 /\ k >= 3
    BY <2>1 DEF Parsing
  <2>3. CASE j < wb
    <3> DEFINE i == j + 1
    <3>1. i \in 1 .. wb /\ i - 1 = j /\ k + 1 = 3 + i /\ k + 1 < 6 + wb + wx + wy
      BY <1>3, <2>1, <2>3
    <3> DEFINE v == <<Upper(r.b, j), 0, 0>>
               w == <<Upper(r.b, i), 0, 0>>
    <3>2. v[1] = Upper(r.b, j) /\ [v EXCEPT ![1] = Upper(r.b, i)] = w
      BY SMT
    <3> HIDE DEF i, v, w
    <3>3. c = Decimal(r.b)[i]
      BY Zenon, <1>5, <3>1
    <3>4. /\ IsMore(p, c) /\ ~IsDone(p, c) /\ IsDigit(c)
          /\ FedDigit(p, c) = Parsing(1, w, i)
      <4>1. 1 \in 1 .. 3 /\ i \in 1 .. Width(r.b) /\ v[1] = Upper(r.b, i - 1) /\ p = Parsing(1, v, i - 1)
        BY <2>1, <3>1, <3>2 DEF wb, v
      <4>2. Taken(r.b, i, 1, v, p, c)
        BY Zenon, <1>1, <3>3, <4>1, DigitStep
      <4> QED BY Zenon, <3>2, <4>2 DEF Taken
    <3>5. InFirst(r, k + 1, Parsing(1, w, i))
      <4>1. i \in 0 .. wb
        BY <3>1
      <4> QED BY <3>1, <4>1 DEF InFirst, w, wb
    <3>6. Onward(r, t, k, p)
      BY Zenon, <1>4, <3>1, <3>4, <3>5 DEF Onward, InReport, c
    <3> QED BY <2>2, <3>6
  <2>4. CASE j = wb
    <3> DEFINE v == <<r.b, 0, 0>>
    <3>1. p = Parsing(1, v, wb)
      BY Zenon, <1>1, <1>2, <2>1, <2>4 DEF wb
    <3>2. k + 1 = 4 + wb /\ k + 1 < 6 + wb + wx + wy /\ k + 1 = 4 + wb + 0 /\ 0 \in 0 .. wx
      BY <1>3, <2>1, <2>4
    <3>3. c = ";"
      BY Zenon, <1>6, <3>2
    <3> HIDE DEF c
    <3>4. IsMore(p, c) /\ ~IsDone(p, c) /\ ~IsDigit(c) /\ NextField(p) = Parsing(2, v, 0)
      <4>1. 1 \in 1 .. 2 /\ 1 + 1 = 2
        OBVIOUS
      <4> HIDE DEF v
      <4> QED BY Zenon, <1>3, <3>1, <3>3, <4>1, SemicolonStep
    <3>5. InSecond(r, k + 1, Parsing(2, v, 0))
      <4>1. v = <<r.b, Upper(r.x, 0), 0>>
        BY Zenon, <1>1, <1>2
      <4> HIDE DEF v
      <4> QED BY Zenon, <3>2, <4>1 DEF InSecond, wb, wx
    <3>6. Onward(r, t, k, p)
      BY Zenon, <1>4, <3>2, <3>4, <3>5 DEF Onward, InReport, c
    <3> QED BY <2>2, <3>6
  <2> QED BY <1>3, <2>1, <2>3, <2>4
<1>9. CASE InSecond(r, k, p)
  <2>1. PICK j \in 0 .. wx : k = 4 + wb + j /\ p = Parsing(2, <<r.b, Upper(r.x, j), 0>>, j)
    BY <1>9 DEF InSecond, wb, wx
  <2>2. p.state = 2 /\ k >= 3
    <3>1. p.state = 2
      BY <2>1 DEF Parsing
    <3>2. k >= 3
      BY <1>3, <2>1
    <3> QED BY <3>1, <3>2
  <2>3. CASE j < wx
    <3> DEFINE i == j + 1
    <3>1. i \in 1 .. wx /\ i - 1 = j /\ k + 1 = 4 + wb + i /\ k + 1 < 6 + wb + wx + wy
      BY <1>3, <2>1, <2>3
    <3> DEFINE v == <<r.b, Upper(r.x, j), 0>>
               w == <<r.b, Upper(r.x, i), 0>>
    <3>2. v[2] = Upper(r.x, j) /\ [v EXCEPT ![2] = Upper(r.x, i)] = w
      BY SMT
    <3> HIDE DEF i, v, w
    <3>3. c = Decimal(r.x)[i]
      BY Zenon, <1>5, <3>1
    <3>4. /\ IsMore(p, c) /\ ~IsDone(p, c) /\ IsDigit(c)
          /\ FedDigit(p, c) = Parsing(2, w, i)
      <4>1. 2 \in 1 .. 3 /\ i \in 1 .. Width(r.x) /\ v[2] = Upper(r.x, i - 1) /\ p = Parsing(2, v, i - 1)
        BY <2>1, <3>1, <3>2 DEF wx, v
      <4>2. Taken(r.x, i, 2, v, p, c)
        BY Zenon, <1>1, <3>3, <4>1, DigitStep
      <4> QED BY Zenon, <3>2, <4>2 DEF Taken
    <3>5. InSecond(r, k + 1, Parsing(2, w, i))
      <4>1. i \in 0 .. wx
        BY <3>1
      <4> QED BY <3>1, <4>1 DEF InSecond, w, wb, wx
    <3>6. Onward(r, t, k, p)
      BY Zenon, <1>4, <3>1, <3>4, <3>5 DEF Onward, InReport, c
    <3> QED BY <2>2, <3>6
  <2>4. CASE j = wx
    <3> DEFINE v == <<r.b, r.x, 0>>
    <3>1. p = Parsing(2, v, wx)
      BY Zenon, <1>1, <1>2, <2>1, <2>4 DEF wx
    <3>2. k + 1 = 5 + wb + wx /\ k + 1 < 6 + wb + wx + wy /\ k + 1 = 5 + wb + wx + 0 /\ 0 \in 0 .. wy
      BY <1>3, <2>1, <2>4
    <3>3. c = ";"
      BY Zenon, <1>6, <3>2
    <3> HIDE DEF c
    <3>4. IsMore(p, c) /\ ~IsDone(p, c) /\ ~IsDigit(c) /\ NextField(p) = Parsing(3, v, 0)
      <4>1. 2 \in 1 .. 2 /\ 2 + 1 = 3
        OBVIOUS
      <4> HIDE DEF v
      <4> QED BY Zenon, <1>3, <3>1, <3>3, <4>1, SemicolonStep
    <3>5. InThird(r, k + 1, Parsing(3, v, 0))
      <4>1. v = <<r.b, r.x, Upper(r.y, 0)>>
        BY Zenon, <1>1, <1>2
      <4> HIDE DEF v
      <4> QED BY Zenon, <3>2, <4>1 DEF InThird, wb, wx, wy
    <3>6. Onward(r, t, k, p)
      BY Zenon, <1>4, <3>2, <3>4, <3>5 DEF Onward, InReport, c
    <3> QED BY <2>2, <3>6
  <2> QED BY <1>3, <2>1, <2>3, <2>4
<1>10. CASE InThird(r, k, p)
  <2>1. PICK j \in 0 .. wy : k = 5 + wb + wx + j /\ p = Parsing(3, <<r.b, r.x, Upper(r.y, j)>>, j)
    BY <1>10 DEF InThird, wb, wx, wy
  <2>2. p.state = 3 /\ k >= 3
    <3>1. p.state = 3
      BY <2>1 DEF Parsing
    <3>2. k >= 3
      BY <1>3, <2>1
    <3> QED BY <3>1, <3>2
  <2>3. CASE j < wy
    <3> DEFINE i == j + 1
    <3>1. i \in 1 .. wy /\ i - 1 = j /\ k + 1 = 5 + wb + wx + i /\ k + 1 < 6 + wb + wx + wy
      BY <1>3, <2>1, <2>3
    <3> DEFINE v == <<r.b, r.x, Upper(r.y, j)>>
               w == <<r.b, r.x, Upper(r.y, i)>>
    <3>2. v[3] = Upper(r.y, j) /\ [v EXCEPT ![3] = Upper(r.y, i)] = w
      BY SMT
    <3> HIDE DEF i, v, w
    <3>3. c = Decimal(r.y)[i]
      BY Zenon, <1>5, <3>1
    <3>4. /\ IsMore(p, c) /\ ~IsDone(p, c) /\ IsDigit(c)
          /\ FedDigit(p, c) = Parsing(3, w, i)
      <4>1. 3 \in 1 .. 3 /\ i \in 1 .. Width(r.y) /\ v[3] = Upper(r.y, i - 1) /\ p = Parsing(3, v, i - 1)
        BY <2>1, <3>1, <3>2 DEF wy, v
      <4>2. Taken(r.y, i, 3, v, p, c)
        BY Zenon, <1>1, <3>3, <4>1, DigitStep
      <4> QED BY Zenon, <3>2, <4>2 DEF Taken
    <3>5. InThird(r, k + 1, Parsing(3, w, i))
      <4>1. i \in 0 .. wy
        BY <3>1
      <4> QED BY <3>1, <4>1 DEF InThird, w, wb, wx, wy
    <3>6. Onward(r, t, k, p)
      BY Zenon, <1>4, <3>1, <3>4, <3>5 DEF Onward, InReport, c
    <3> QED BY <2>2, <3>6
  <2>4. CASE j = wy
    <3> DEFINE v == <<r.b, r.x, r.y>>
               m == IF r.pressed THEN "M" ELSE "m"
    <3>1. p = Parsing(3, v, wy)
      BY Zenon, <1>1, <1>2, <2>1, <2>4 DEF wy
    <3>2. k + 1 = 6 + wb + wx + wy
      BY <1>3, <2>1, <2>4
    <3>3. c = m
      BY Zenon, <1>7, <3>2
    <3>4. p.state = 3 /\ p.digits = wy /\ p.val = v
      BY <3>1 DEF Parsing
    <3>5. m \in {"M", "m"} /\ m # ";" /\ (m = "M" <=> r.pressed)
      BY <1>1
    <3>6. ~IsDigit(m)
      BY Zenon, <3>5, NoDigit
    <3>7. v[1] = r.b /\ v[2] = r.x /\ v[3] = r.y
      BY SMT
    <3>8. r = [b |-> r.b, x |-> r.x, y |-> r.y, pressed |-> r.pressed]
      BY DEF Reports
    <3> HIDE DEF c, v, m
    <3>9. IsDone(p, c) /\ ~IsMore(p, c)
      <4>1. wy > 0
        BY <1>3
      <4> QED BY Zenon, <3>3, <3>4, <3>5, <3>6, <4>1 DEF IsDone, IsMore
    <3>10. Report(p, c) = r
      <4>1. (c = "M") = r.pressed
        BY <1>1, <3>3, <3>5
      <4>2. Report(p, c) = [b |-> v[1], x |-> v[2], y |-> v[3], pressed |-> c = "M"]
        BY Zenon, <3>4 DEF Report
      <4> QED BY Zenon, <3>7, <3>8, <4>1, <4>2
    <3>11. Through(r, t, k, p)
      BY Zenon, <1>4, <3>2, <3>9, <3>10 DEF Through, c
    <3> QED BY <2>2, <3>11
  <2> QED BY <1>3, <2>1, <2>3, <2>4
<1> QED BY <1>8, <1>9, <1>10 DEF InReport

-----------------------------------------------------------------------------
(* Where the loop is in the first event *)

Resting(c, p) == c = "loop" /\ p.state = 0

\* k bytes of a whole event are read, and read_escape_byte or the parser wait
\* for the next one: c, s and p are pc, skip and parser.
AtStart(k, c, p) == k = 0 /\ Resting(c, p)
AtEsc(e, k, c, p) == k = 1 /\ e.type # "key" /\ c = "esc" /\ p.state = 0
AtCsi(e, k, c, p) == k = 2 /\ Encoding(e)[2] = "[" /\ c = "csi" /\ p.state = 0
AtSkip(e, k, c, s, p) ==
  /\ k >= 2 /\ k < Len(Encoding(e)) /\ s = Len(Encoding(e)) - k
  /\ e.type = "unbound" /\ c = "skip" /\ p.state = 0
AtDrag(e, k, c, p) == e.type = "mouse" /\ c = "loop" /\ InReport(e.report, k, p)

Place(e, k, c, s, p) ==
  \/ AtStart(k, c, p) \/ AtEsc(e, k, c, p) \/ AtCsi(e, k, c, p)
  \/ AtSkip(e, k, c, s, p) \/ AtDrag(e, k, c, p)

\* n bytes of the events in box are left.
Headed(box, n, c, s, p) ==
  LET e == box[1].ev
      k == Size(box) - n
  IN  /\ k < Len(Encoding(e)) \/ (e.type = "esc" /\ k = 1)
      /\ Place(e, k, c, s, p) \/ (box[1].torn /\ Resting(c, p))

\* Behind an event the loop is open to it may be anywhere.
Lost(box) == box # <<>> /\ Promise!Open(box[1].ev) /\ Torn(box)
Astray(box, c, p) == Lost(box) /\ (c # "loop" => p.state = 0)

InStep(box, n, c, s, p, view) ==
  c # "end" => /\ Spread(box)
               /\ \/ box = <<>> /\ Resting(c, p)
                  \/ box # <<>> /\ ~Lost(box) /\ Headed(box, n, c, s, p)
                  \/ Astray(box, c, p)
               /\ view # "none" => p.state = 0

Left == Len(tty) + Len(sending)

(***************************************************************************)
(* The loop and the user are in step: the parser has taken in what has     *)
(* been read of the first event, and an event that was torn has left it    *)
(* idle.                                                                   *)
(***************************************************************************)
Synced == InStep(inbox, Left, pc, skip, parser, ui.view)

LEMMA SyncedNext == Synced' <=> InStep(inbox', Unread, pc', skip', parser', ui'.view)
  BY DEF Synced, Left, Unread

\* Nothing of the first event is read, or what is read of it is lost.
LEMMA Resumes ==
  ASSUME NEW box, Spread(box), NEW n, Resumable(box, n), Size(box) \in Nat, n \in Nat,
         NEW c, NEW s, NEW p, NEW view, c = "end" \/ Resting(c, p)
  PROVE  InStep(box, n, c, s, p, view)
<1> SUFFICES ASSUME c # "end" PROVE InStep(box, n, c, s, p, view)
  BY DEF InStep
<1>1. Resting(c, p)
  OBVIOUS
<1>2. ASSUME box # <<>> PROVE Headed(box, n, c, s, p)
  <2> DEFINE k == Size(box) - n
             l == Len(Encoding(box[1].ev))
  <2>1. k < l /\ (~box[1].torn => n = Size(box))
    BY <1>2 DEF Resumable
  <2>2. n = Size(box) => k = 0
    OBVIOUS
  <2> HIDE DEF k
  <2>3. Place(box[1].ev, k, c, s, p) \/ (box[1].torn /\ Resting(c, p))
    BY Zenon, <1>1, <2>1, <2>2 DEF Place, AtStart
  <2> QED BY Zenon, <2>1, <2>3 DEF Headed, k
<1> QED BY Zenon, <1>1, <1>2 DEF InStep, Resting, Astray

\* The first event is handled.
LEMMA Rested ==
  ASSUME NEW box \in Seq(Entry), box # <<>>, Spread(box)
  PROVE  /\ Spread(Tail(box)) /\ Resumable(Tail(box), Size(Tail(box)))
         /\ Size(Tail(box)) \in Nat /\ Tail(box) \in Seq(Entry)
<1> DEFINE t == Tail(box)
<1>1. t \in Seq(Entry) /\ Tailed(box, t)
  BY BytesHead
<1>2. Size(t) \in Nat
  BY <1>1, BytesText
<1> HIDE DEF t
<1>3. Spread(t)
  BY <1>1, EndSpread
<1>4. Resumable(t, Size(t))
  <2> SUFFICES ASSUME t # <<>> PROVE Size(t) - Size(t) < Len(Encoding(t[1].ev)) /\ Size(t) <= Size(t)
    BY Zenon DEF Resumable
  <2>1. Len(Encoding(t[1].ev)) \in Nat \ {0}
    BY <1>1, BytesHead
  <2> QED BY <1>2, <2>1
<1> QED BY <1>1, <1>2, <1>3, <1>4 DEF t

\* What is left of the first event is lost.
LEMMA TornRests ==
  ASSUME NEW box \in Seq(Entry), box # <<>>, Spread(box),
         NEW m \in Nat, Size(Tail(box)) < m, m < Size(box)
  PROVE  Resumable(TornHead(box), m) /\ Spread(TornHead(box)) /\ Size(TornHead(box)) \in Nat
<1> DEFINE u == TornHead(box)
           l == Len(Encoding(box[1].ev))
<1>1. /\ u # <<>> /\ Size(u) = Size(box) /\ u[1].torn /\ u[1].ev = box[1].ev
      /\ u = [box EXCEPT ![1].torn = TRUE] /\ Spread(u)
  BY Zenon, TornSpread
<1>2. Size(box) = l + Size(Tail(box)) /\ l \in Nat \ {0} /\ Tail(box) \in Seq(Entry)
  BY BytesHead
<1>3. Size(Tail(box)) \in Nat /\ Size(box) \in Nat
  BY <1>2, BytesText
<1> HIDE DEF u, l
<1>4. m <= Size(box) /\ Size(box) - m < l
  BY <1>2, <1>3
<1>5. Resumable(u, m)
  BY Zenon, <1>1, <1>4 DEF Resumable, l
<1> QED BY <1>1, <1>3, <1>5 DEF u

\* What is left is no more than there is.
LEMMA LeftOver ==
  ASSUME KeyInv
  PROVE  /\ Len(tty) \in Nat /\ Len(sending) \in Nat /\ Left \in Nat /\ inbox \in Seq(Entry)
         /\ Size(inbox) \in Nat /\ Left <= Size(inbox) /\ (tty # <<>> => Len(tty) > 0)
         /\ \E a \in Seq(Byte) : Bytes(inbox) = a \o (tty \o sending) /\ Len(a) = Size(inbox) - Left
<1>1. /\ tty \in Seq(Byte) /\ sending \in Seq(Byte) /\ inbox \in Seq(Entry)
      /\ IsEnd(tty \o sending, Bytes(inbox))
  BY DEF KeyInv, TextOK, InboxOK
<1>2. PICK a \in Seq(Byte) : Bytes(inbox) = a \o (tty \o sending)
  BY <1>1 DEF IsEnd, EndIn
<1>3. /\ Len(tty \o sending) = Len(tty) + Len(sending) /\ Len(tty) \in Nat /\ Len(sending) \in Nat
      /\ tty \o sending \in Seq(Byte)
  BY <1>1, ConcatAt
<1>4. Len(Bytes(inbox)) = Len(a) + Len(tty \o sending) /\ Len(a) \in Nat
  BY <1>2, <1>3, ConcatAt
<1>5. Size(inbox) = Len(Bytes(inbox)) /\ Size(inbox) \in Nat
  BY <1>1, BytesText
<1>6. tty # <<>> => Len(tty) > 0
  BY <1>1, <1>3, EmptySeq
<1>7. Left \in Nat /\ Left <= Size(inbox) /\ Len(a) = Size(inbox) - Left
  BY <1>3, <1>4, <1>5 DEF Left
<1> QED BY <1>1, <1>2, <1>3, <1>5, <1>6, <1>7

Seen == Size(inbox) - Left
First == inbox[1].ev

\* The loop and the user are in step, and it knows where it is.
Orderly == Synced /\ ~Lost(inbox)

\* An event the loop is open to is an ESC, and nothing has been done since.
LEMMA OpenAlone ==
  ASSUME inbox \in Seq(Entry), inbox # <<>>, Spread(inbox), ~Lost(inbox), Promise!Open(First)
  PROVE  1 = Len(inbox) /\ First.type = "esc" /\ ~inbox[1].torn
<1> DEFINE l == Len(inbox)
<1>1. 1 \in 1 .. l /\ l \in Nat
  BY EmptySeq, LenProperties
<1>2. ~Torn(inbox)
  BY Zenon DEF Lost, First
<1>3. EntrySpread(inbox, 1)
  BY Zenon, <1>1 DEF Spread, l
<1>4. 1 = l /\ First.type = "esc"
  BY Zenon, <1>2, <1>3 DEF EntrySpread, Torn, First, l
<1> HIDE DEF l
<1>5. ~inbox[1].torn
  <2> SUFFICES ASSUME inbox[1].torn PROVE FALSE
    OBVIOUS
  <2>1. \A i \in 1 .. l : i = 1
    BY <1>4
  <2> QED BY Zenon, <1>2, <2>1 DEF Torn, l
<1> QED BY Zenon, <1>4, <1>5 DEF l

\* A sequence that is not dropped as a whole is torn.
LEMMA LongTorn ==
  ASSUME inbox \in Seq(Entry), inbox # <<>>, Spread(inbox), First.type = "unbound",
         ~Promise!Swallowed(Encoding(First))
  PROVE  inbox[1].torn
<1>1. 1 \in 1 .. Len(inbox)
  BY EmptySeq
<1>2. Encoding(First) = First.bytes
  BY DEF Encoding
<1> QED BY Zenon, <1>1, <1>2 DEF Spread, EntrySpread, First

\* The byte at hand is the next one of the first event.
LEMMA Reading ==
  ASSUME KeyInv, Orderly, pc # "end", tty # <<>>
  PROVE  /\ inbox # <<>> /\ First \in Events /\ inbox[1] \in Entry
         /\ Seen \in Nat /\ Seen < Len(Encoding(First)) /\ Head(tty) = Encoding(First)[Seen + 1]
         /\ Spread(inbox) /\ Headed(inbox, Left, pc, skip, parser)
<1> DEFINE k == Seen
           e == Encoding(First)
           l == Len(e)
           t == Tail(inbox)
<1>1. /\ Len(tty) \in Nat /\ Len(sending) \in Nat /\ Left \in Nat /\ inbox \in Seq(Entry)
      /\ Size(inbox) \in Nat /\ Left <= Size(inbox) /\ Len(tty) > 0
  BY LeftOver
<1>2. inbox # <<>>
  <2>1. Size(<<>>) = 0
    BY BytesNone, EmptySeq DEF Size
  <2>2. Left > 0
    BY <1>1 DEF Left
  <2> QED BY <1>1, <2>1, <2>2
<1>3. /\ inbox[1] \in Entry /\ t \in Seq(Entry) /\ Len(t) = Len(inbox) - 1
      /\ Bytes(inbox) = e \o Bytes(t) /\ Size(inbox) = l + Size(t)
      /\ e \in Seq(Byte) /\ l \in Nat \ {0}
  BY <1>1, <1>2, BytesHead DEF First
<1>4. First \in Events
  BY <1>3 DEF Entry, First
<1>5. Spread(inbox) /\ Headed(inbox, Left, pc, skip, parser)
  BY Zenon, <1>2 DEF Orderly, Synced, InStep, Astray
<1>6. k \in Nat
  BY <1>1 DEF Seen
<1>7. k < l
  <2>1. k < l \/ (First.type = "esc" /\ k = 1)
    BY Zenon, <1>5 DEF Headed, First, Seen
  <2>2. CASE First.type = "esc" /\ k = 1
    <3>1. Len(inbox) \in Nat /\ Len(inbox) > 0
      BY <1>1, <1>2, EmptySeq, LenProperties
    <3>2. 1 = Len(inbox)
      BY Zenon, <1>1, <1>2, <1>5, <2>2, OpenAlone DEF Promise!Open, First, Orderly
    <3>3. t = <<>>
      <4>1. Len(t) = Len(inbox) - 1 /\ t \in Seq(Entry)
        BY Zenon, <1>3
      <4> HIDE DEF t
      <4>2. Len(t) = 0
        BY <3>2, <4>1
      <4> QED BY <4>1, <4>2, EmptySeq
    <3>4. Size(t) = 0
      BY <3>3, BytesNone, EmptySeq DEF Size
    <3>5. l = 1
      <4>1. Encoding(First) = <<"ESC">>
        BY <2>2 DEF Encoding
      <4>2. \A x : Len(<<x>>) = 1
        OBVIOUS
      <4> QED BY Zenon, <4>1, <4>2
    <3>6. k = 1
      BY <2>2
    <3>7. Size(inbox) = l + Size(t) /\ k = Size(inbox) - Left
      BY Zenon, <1>3 DEF Seen
    <3>8. Left = Len(tty) + Len(sending)
      BY DEF Left
    <3> HIDE DEF k, l, t
    <3> QED BY <1>1, <3>4, <3>5, <3>6, <3>7, <3>8
  <2> QED BY <2>1, <2>2
<1>8. Head(tty) = e[k + 1]
  <2>1. PICK a \in Seq(Byte) : Bytes(inbox) = a \o (tty \o sending) /\ Len(a) = k
    BY Zenon, LeftOver DEF Seen
  <2> DEFINE r == tty \o sending
  <2>2. tty \in Seq(Byte) /\ sending \in Seq(Byte)
    BY DEF KeyInv, TextOK
  <2>3. r \in Seq(Byte) /\ Len(r) = Len(tty) + Len(sending) /\ \A i \in 1 .. Len(tty) : r[i] = tty[i]
    BY Zenon, <2>2, ConcatAt
  <2>4. r[1] = Head(tty) /\ 1 \in 1 .. Len(r)
    <3>1. 1 \in 1 .. Len(tty) /\ tty[1] = Head(tty)
      BY <1>1, <2>2
    <3>2. 1 \in 1 .. Len(r)
      BY <1>1, <2>3
    <3> QED BY Zenon, <2>3, <3>1, <3>2
  <2> HIDE DEF r
  <2>5. Bytes(inbox)[k + 1] = r[1]
    <3>1. \A i \in 1 .. Len(r) : (a \o r)[Len(a) + i] = r[i]
      BY Zenon, <2>3, ConcatAt
    <3> QED BY Zenon, <2>1, <2>4, <3>1 DEF r
  <2>6. Bytes(inbox)[k + 1] = e[k + 1]
    <3>1. k + 1 \in 1 .. l
      BY <1>3, <1>6, <1>7
    <3>2. \A i \in 1 .. Len(e) : (e \o Bytes(t))[i] = e[i]
      <4>1. Bytes(t) \in Seq(Byte)
        BY <1>3, BytesText
      <4> QED BY Zenon, <1>3, <4>1, ConcatAt
    <3> QED BY Zenon, <1>3, <3>1, <3>2
  <2> QED BY <2>4, <2>5, <2>6
<1> QED BY Zenon, <1>2, <1>3, <1>4, <1>5, <1>6, <1>7, <1>8

\* After a byte is read: the event stays, or its last byte is gone.
ReadOn ==
  /\ Unread \in Nat /\ Unread = Size(inbox) - (Seen + 1) /\ Size(Tail(inbox)) <= Unread
  /\ Seen + 1 < Len(Encoding(First)) => /\ Unhandled(inbox, Unread) = inbox /\ Size(Tail(inbox)) < Unread
  /\ Seen + 1 = Len(Encoding(First)) => /\ Unhandled(inbox, Unread) = Tail(inbox)
                                         /\ Unread = Size(Tail(inbox))

LEMMA ReadsOn ==
  ASSUME KeyInv, Orderly, pc # "end", Read
  PROVE  ReadOn
<1> DEFINE k == Seen
           l == Len(Encoding(First))
           n == Size(Tail(inbox))
<1>1. tty # <<>> /\ tty' = Tail(tty) /\ sending' = sending
  BY DEF Read
<1>2. inbox # <<>> /\ k \in Nat /\ k < l
  BY <1>1, Reading
<1>3. /\ Len(tty) \in Nat /\ Len(sending) \in Nat /\ Left \in Nat /\ inbox \in Seq(Entry)
      /\ Size(inbox) \in Nat /\ Len(tty) > 0
  BY <1>1, LeftOver
<1>4. Len(tty') = Len(tty) - 1
  <2>1. tty \in Seq(Byte)
    BY DEF KeyInv, TextOK
  <2> QED BY <1>1, <2>1, HeadTailProperties
<1>5. Size(inbox) = l + n /\ l \in Nat \ {0} /\ Tail(inbox) \in Seq(Entry)
  BY <1>2, <1>3, BytesHead DEF First
<1>6. n \in Nat
  BY <1>5, BytesText
<1>7. Unread = Left - 1 /\ Left = Size(inbox) - k
  <2>1. Unread = Len(tty') + Len(sending) /\ Left = Len(tty) + Len(sending)
    BY Zenon, <1>1 DEF Unread, Left
  <2>2. k = Size(inbox) - Left
    BY Zenon DEF Seen
  <2> HIDE DEF k
  <2> QED BY <1>2, <1>3, <1>4, <2>1, <2>2
<1> HIDE DEF k, l, n
<1>8. /\ Unread \in Nat /\ Unread = Size(inbox) - (k + 1) /\ n <= Unread /\ Unread <= Size(inbox)
      /\ (k + 1 < l => n < Unread) /\ (k + 1 = l => Unread = n)
  BY <1>2, <1>3, <1>5, <1>6, <1>7
<1>9. k + 1 < l => Unhandled(inbox, Unread) = inbox
  BY <1>2, <1>3, <1>8, Stays DEF n
<1>10. k + 1 = l => Unhandled(inbox, Unread) = Tail(inbox)
  BY <1>2, <1>3, <1>8, Shifts DEF n
<1> QED BY Zenon, <1>8, <1>9, <1>10 DEF ReadOn, k, l, n

-----------------------------------------------------------------------------
(* Every step keeps the promise *)

\* What the promise says of each kind of event.
LEMMA ViewEffect ==
  ASSUME NEW u, NEW e, u.view # "none"
  PROVE  Promise!Effect(u, e) = {Answered(u)}
<1>1. Promise!Effect(u, e) = {Promise!Answered(u)}
  BY DEF Promise!Effect
<1> QED BY <1>1, SameAnswers

LEMMA KeyEffect ==
  ASSUME NEW u, NEW e, u.view = "none", e.type = "key"
  PROVE  Promise!Effect(u, e) = Key(u, e.key)
<1>1. Promise!Effect(u, e) = Promise!Key(u, e.key)
  BY DEF Promise!Effect
<1> QED BY <1>1, SameKey

LEMMA UpEffect ==
  ASSUME NEW u, NEW e, u.view = "none", e.type = "up"
  PROVE  Promise!Effect(u, e) = {Arrow(u, -1)}
<1>1. Promise!Effect(u, e) = {Promise!Arrow(u, -1)}
  BY DEF Promise!Effect
<1> QED BY <1>1, SameAnswers

LEMMA DownEffect ==
  ASSUME NEW u, NEW e, u.view = "none", e.type = "down"
  PROVE  Promise!Effect(u, e) = {Arrow(u, 1)}
<1>1. Promise!Effect(u, e) = {Promise!Arrow(u, 1)}
  BY DEF Promise!Effect
<1> QED BY <1>1, SameAnswers

LEMMA EscEffect ==
  ASSUME NEW u, NEW e, u.view = "none", e.type = "esc"
  PROVE  Promise!Effect(u, e) = {Escape(u)}
<1>1. Promise!Effect(u, e) = {Promise!Escape(u)}
  BY DEF Promise!Effect
<1> QED BY <1>1, SameAnswers

LEMMA MouseEffect ==
  ASSUME NEW u, NEW e, u.view = "none", e.type = "mouse"
  PROVE  Promise!Effect(u, e) = {Mouse(u, e.report)}
<1>1. Promise!Effect(u, e) = {Promise!Mouse(u, e.report)}
  BY DEF Promise!Effect
<1> QED BY <1>1, SameAnswers

LEMMA UnboundEffect ==
  ASSUME NEW u, NEW e, u.view = "none", e.type = "unbound"
  PROVE  Promise!Effect(u, e) = {u}
  BY DEF Promise!Effect

\* The first event does what it is to do, and is gone.
LEMMA Handles ==
  ASSUME inbox \in Seq(Entry), inbox # <<>>, ~inbox[1].torn, ui' \in Promise!Effect(ui, First),
         \/ ui'.view \in {"none", ui.view} /\ inbox' = Tail(inbox)
         \/ ui'.view \notin {"none", ui.view} /\ inbox' \in Promise!Drained(Tail(inbox))
  PROVE  Promise!Next
<1>1. Head(inbox) = inbox[1]
  OBVIOUS
<1>2. inbox' \in IF ui'.view \notin {"none", ui.view} THEN Promise!Drained(Tail(inbox)) ELSE {Tail(inbox)}
  OBVIOUS
<1>3. Promise!Handle
  BY Zenon, <1>1, <1>2 DEF Promise!Handle, First
<1> QED BY <1>3 DEF Promise!Next

LEMMA EndsIn ==
  ASSUME NEW box \in Seq(Entry), box # <<>>
  PROVE  /\ box \in Promise!Suffixes(box) /\ Tail(box) \in Promise!Suffixes(box)
         /\ Len(box) - Len(box) = 0 /\ Len(box) - Len(Tail(box)) = 1
<1>1. <<>> \in Seq(Entry) /\ box = <<>> \o box
  BY EmptySeq, ConcatEmptySeq
<1>2. Tailed(box, box)
  BY <1>1 DEF Tailed
<1>3. Tailed(box, Tail(box)) /\ Tail(box) \in Seq(Entry) /\ Len(Tail(box)) = Len(box) - 1 /\ Len(box) \in Nat
  BY BytesHead, LenProperties
<1>4. box \in Suffixes(box) /\ Tail(box) \in Suffixes(box)
  BY <1>2, <1>3, SuffixTailed
<1> QED BY <1>3, <1>4, SameSuffixes

\* What a torn event may do: it stays, or it is gone, and torn ones with it.
LEMMA Misreads ==
  ASSUME inbox \in Seq(Entry), inbox # <<>>, inbox[1].torn, DOMAIN ui' = DOMAIN ui,
         \/ inbox' \in {inbox, Tail(inbox)}
         \/ Torn(inbox) /\ inbox' \in Suffixes(inbox) /\ Len(inbox') \in Nat
         \/ ui'.view \notin {"none", ui.view} /\ inbox' \in Promise!Drained(Tail(inbox))
  PROVE  Promise!Next
<1>1. Head(inbox) = inbox[1]
  OBVIOUS
<1> DEFINE n == Len(inbox) - Len(inbox')
<1>2. /\ inbox \in Promise!Suffixes(inbox) /\ Tail(inbox) \in Promise!Suffixes(inbox)
      /\ Len(inbox) - Len(inbox) = 0 /\ Len(inbox) - Len(Tail(inbox)) = 1
  BY EndsIn
<1>3. CASE inbox' \in {inbox, Tail(inbox)}
  <2>1. inbox' \in Promise!Suffixes(inbox) /\ n \in {0, 1}
    BY <1>2, <1>3
  <2> HIDE DEF n
  <2>2. \A k \in 1 .. n : k = 1
    BY <2>1
  <2>3. Promise!AllTorn(inbox, n)
    BY Zenon, <2>2 DEF Promise!AllTorn
  <2>4. Promise!Misread
    BY Zenon, <1>1, <2>1, <2>3 DEF Promise!Misread, n
  <2> QED BY <2>4 DEF Promise!Next
<1>4. CASE Torn(inbox) /\ inbox' \in Suffixes(inbox) /\ Len(inbox') \in Nat
  <2>1. inbox' \in Promise!Suffixes(inbox)
    BY <1>4, SameSuffixes
  <2> DEFINE l == Len(inbox)
             m == Len(inbox')
  <2>2. l \in Nat /\ m \in Nat
    BY <1>4, LenProperties
  <2> HIDE DEF l, m
  <2>3. \A k \in 1 .. l - m : k \in 1 .. l
    BY <2>2
  <2>4. Promise!AllTorn(inbox, n)
    BY Zenon, <1>4, <2>3 DEF Promise!AllTorn, Torn, l, m
  <2> HIDE DEF n
  <2>5. Promise!Misread
    BY Zenon, <1>1, <2>1, <2>4 DEF Promise!Misread, n
  <2> QED BY <2>5 DEF Promise!Next
<1>5. CASE ui'.view \notin {"none", ui.view} /\ inbox' \in Promise!Drained(Tail(inbox))
  <2>1. inbox' \in (IF ui'.view \notin {"none", ui.view} THEN Promise!Drained(Tail(inbox)) ELSE {})
    BY <1>5
  <2>2. Promise!Misread
    BY Zenon, <1>1, <2>1 DEF Promise!Misread
  <2> QED BY <2>2 DEF Promise!Next
<1> QED BY Zenon, <1>3, <1>4, <1>5

\* Part of a sequence is late, or taken by something else.
LEMMA TearsHead ==
  ASSUME inbox \in Seq(Entry), inbox # <<>>, First.type # "key", inbox' = TornHead(inbox),
         ui' \in {ui, Escape(ui), Answered(ui)}
  PROVE  Promise!Next
<1>1. Head(inbox).ev = First
  BY DEF First
<1>2. inbox' = Promise!TornHead(inbox)
  BY DEF TornHead, Promise!TornHead
<1>3. ui' \in {ui, Promise!Escape(ui), Promise!Answered(ui)}
  BY Zenon, SameAnswers
<1>4. Promise!Tear
  BY Zenon, <1>1, <1>2, <1>3 DEF Promise!Tear
<1> QED BY <1>4 DEF Promise!Next

Promised == Promise!Next \/ UNCHANGED <<ui, inbox>>
Faithful == Synced' /\ Promised

\* The event goes on.
LEMMA Continues ==
  ASSUME KeyInv, Orderly, pc # "end", tty # <<>>, ReadOn, inbox' = inbox,
         Seen + 1 < Len(Encoding(First)) \/ (First.type = "esc" /\ Seen + 1 = 1),
         Place(First, Seen + 1, pc', skip', parser') \/ (inbox[1].torn /\ Resting(pc', parser')),
         ui'.view = "none" \/ parser'.state = 0
  PROVE  Synced'
<1>1. inbox # <<>> /\ Spread(inbox) /\ Seen \in Nat
  BY Zenon, Reading
<1>2. Unread \in Nat /\ Unread = Size(inbox) - (Seen + 1) /\ Size(inbox) \in Nat
  BY LeftOver DEF ReadOn
<1> DEFINE k == Seen + 1
           n == Size(inbox) - Unread
<1>3. n = k /\ k > 0
  <2> HIDE DEF n
  <2>1. n = Size(inbox) - Unread
    BY DEF n
  <2> QED BY <1>1, <1>2, <2>1
<1>4. Headed(inbox, Unread, pc', skip', parser')
  <2>1. k > 0 /\ (k < Len(Encoding(First)) \/ (First.type = "esc" /\ k = 1))
    BY Zenon, <1>3
  <2>2. Place(First, k, pc', skip', parser') \/ (inbox[1].torn /\ Resting(pc', parser'))
    OBVIOUS
  <2> HIDE DEF k
  <2> QED BY Zenon, <1>3, <2>1, <2>2 DEF Headed, First
<1>5. InStep(inbox', Unread, pc', skip', parser', ui'.view)
  <2>1. ui'.view # "none" => parser'.state = 0
    OBVIOUS
  <2>2. ~Lost(inbox)
    BY DEF Orderly
  <2> QED BY Zenon, <1>1, <1>4, <2>1, <2>2 DEF InStep
<1> QED BY <1>5, SyncedNext

\* Its last byte is read.
LEMMA Consumes ==
  ASSUME KeyInv, Orderly, pc # "end", tty # <<>>, ReadOn, Seen + 1 = Len(Encoding(First)),
         inbox' = Unhandled(inbox, Unread), pc' = "end" \/ Resting(pc', parser')
  PROVE  Synced' /\ inbox' = Tail(inbox)
<1>1. inbox # <<>> /\ Spread(inbox) /\ inbox \in Seq(Entry)
  BY Zenon, Reading, LeftOver
<1>2. inbox' = Tail(inbox) /\ Unread = Size(Tail(inbox))
  BY Zenon DEF ReadOn
<1> DEFINE t == Tail(inbox)
<1>3. Spread(t) /\ Resumable(t, Size(t)) /\ Size(t) \in Nat
  BY Zenon, <1>1, Rested
<1> HIDE DEF t
<1>4. InStep(t, Size(t), pc', skip', parser', ui'.view)
  BY <1>3, Resumes
<1>5. InStep(inbox', Unread, pc', skip', parser', ui'.view)
  BY Zenon, <1>2, <1>4 DEF t
<1> QED BY <1>2, <1>5, SyncedNext

\* What has arrived is thrown away.
LEMMA ThrowsAway ==
  ASSUME KeyInv, Orderly, pc # "end", tty # <<>>, tty' = <<>>, sending' = sending, DrainedInbox,
         Resting(pc', parser')
  PROVE  /\ Synced'
         /\ \/ Len(sending) <= Size(Tail(inbox)) /\ inbox' \in Promise!Drained(Tail(inbox))
            \/ Len(sending) > Size(Tail(inbox)) /\ inbox' = TornHead(inbox)
<1> DEFINE m == Len(sending)
           t == Tail(inbox)
<1>1. inbox # <<>> /\ Spread(inbox)
  BY Zenon, Reading
<1>2. /\ Len(tty) \in Nat /\ m \in Nat /\ Left \in Nat /\ inbox \in Seq(Entry) /\ Len(tty) > 0
      /\ Size(inbox) \in Nat /\ Left <= Size(inbox)
  BY LeftOver
<1>3. Unread = m
  BY <1>2, ClearedText
<1>4. m < Size(inbox)
  <2>1. Left = Len(tty) + m
    BY DEF Left
  <2> HIDE DEF m
  <2> QED BY <1>2, <2>1
<1>5. t \in Seq(Entry) /\ Spread(t) /\ Size(t) \in Nat
  BY Zenon, <1>1, <1>2, Rested
<1>6. inbox' = Cut(Unhandled(inbox, m), m)
  BY DEF DrainedInbox
<1> HIDE DEF m, t
<1>7. CASE m <= Size(t)
  <2>1. Unhandled(inbox, m) = Unhandled(t, m)
    BY <1>1, <1>2, <1>7, Skips DEF t
  <2> DEFINE c == Cut(Unhandled(t, m), m)
  <2>2. c \in Promise!Drained(t) /\ c \in Seq(Entry) /\ Spread(c) /\ Resumable(c, m)
    BY <1>2, <1>5, <1>7, Drains
  <2>3. inbox' = c
    BY Zenon, <1>6, <2>1
  <2> HIDE DEF c
  <2>4. Size(c) \in Nat
    BY <2>2, BytesText
  <2>5. InStep(c, m, pc', skip', parser', ui'.view)
    BY <1>2, <2>2, <2>4, Resumes
  <2>6. Synced'
    BY Zenon, <1>3, <2>3, <2>5, SyncedNext
  <2> QED BY Zenon, <1>7, <2>2, <2>3, <2>6 DEF m, t
<1>8. CASE m > Size(t)
  <2>1. Unhandled(inbox, m) = inbox
    <3>1. Size(Tail(inbox)) < m /\ m <= Size(inbox)
      BY <1>2, <1>4, <1>5, <1>8 DEF t
    <3> QED BY <1>1, <1>2, <3>1, Stays
  <2>2. inbox' = TornHead(inbox)
    BY Zenon, <1>4, <1>6, <2>1 DEF Cut
  <2> DEFINE c == TornHead(inbox)
  <2>3. Resumable(c, m) /\ Spread(c) /\ Size(c) \in Nat
    <3>1. Size(Tail(inbox)) < m
      BY <1>2, <1>5, <1>8 DEF t
    <3> QED BY Zenon, <1>1, <1>2, <1>4, <3>1, TornRests
  <2> HIDE DEF c
  <2>4. InStep(c, m, pc', skip', parser', ui'.view)
    BY <1>2, <2>3, Resumes
  <2>5. Synced'
    BY Zenon, <1>3, <2>2, <2>4, SyncedNext DEF c
  <2> QED BY Zenon, <1>8, <2>2, <2>5 DEF m, t
<1> QED BY <1>2, <1>5, <1>7, <1>8

-----------------------------------------------------------------------------
(* Each step *)

\* The sequences that start with ESC [.
CsiForm(e, t) ==
  \/ e.type = "up" /\ Len(t) = 3 /\ t[3] = "A"
  \/ e.type = "down" /\ Len(t) = 3 /\ t[3] = "B"
  \/ e.type = "mouse" /\ Len(t) > 3 /\ t[3] = "<"
  \/ e.type = "unbound" /\ Len(t) = 6 /\ t[3] = "M"
  \/ e.type = "unbound" /\ Len(t) = 3 /\ t[3] \notin {"A", "B", "M", "<"}
  \/ e.type = "unbound" /\ ~Promise!Swallowed(t) /\ Len(t) > 3 /\ t[3] \notin {"M", "<"}

Form(e, t) ==
  \/ e.type = "key" /\ Len(t) = 1 /\ t[1] = e.key /\ t[1] # "ESC"
  \/ e.type = "esc" /\ Len(t) = 1 /\ t[1] = "ESC"
  \/ e.type = "unbound" /\ Len(t) = 3 /\ t[1] = "ESC" /\ t[2] = "O"
  \/ e.type = "unbound" /\ ~Promise!Swallowed(t) /\ Len(t) > 1 /\ t[1] = "ESC" /\ t[2] \notin {"[", "O"}
  \/ t[1] = "ESC" /\ t[2] = "[" /\ CsiForm(e, t)

LEMMA FormIs ==
  ASSUME NEW e \in Events
  PROVE  /\ e.type = "esc" \/ ~Promise!Open(e) => Form(e, Encoding(e))
         /\ Len(Encoding(e)) \in Nat \ {0}
         /\ e.type = "mouse" => e.report \in Reports /\ ReportText(Encoding(e), e.report)
<1> DEFINE t == Encoding(e)
<1>1. Spelled(e, t) /\ Len(t) \in Nat \ {0}
  BY EncodingIs
<1> HIDE DEF t
<1>2. CASE KeyText(e, t) \/ EscText(e, t)
  <2>1. Form(e, t)
    BY Zenon, <1>2 DEF KeyText, EscText, Form
  <2>2. e.type \in {"key", "esc"}
    BY Zenon, <1>2 DEF KeyText, EscText
  <2>3. e.type # "mouse"
    BY <2>2
  <2> QED BY Zenon, <1>1, <2>1, <2>3 DEF t
<1>3. CASE UpText(e, t) \/ DownText(e, t)
  <2>1. Form(e, t)
    BY Zenon, <1>3 DEF UpText, DownText, Form, CsiForm
  <2>2. e.type \in {"up", "down"}
    BY Zenon, <1>3 DEF UpText, DownText
  <2>3. e.type # "mouse"
    BY <2>2
  <2> QED BY Zenon, <1>1, <2>1, <2>3 DEF t
<1>4. CASE UnboundText(e, t)
  <2>1. e.type = "unbound" /\ t = e.bytes /\ t[1] = "ESC"
    BY Zenon, <1>4 DEF UnboundText
  <2>2. e.type # "mouse" /\ e.type # "esc"
    BY <2>1
  <2>3. CASE Promise!Swallowed(t)
    <3>1. Form(e, t)
      BY Zenon, <2>1, <2>3 DEF Promise!Swallowed, Form, CsiForm
    <3> QED BY Zenon, <1>1, <2>2, <3>1 DEF t
  <2>4. CASE ~Promise!Swallowed(t) /\ Promise!Longer(t)
    <3>1. Form(e, t)
      BY Zenon, <2>1, <2>4 DEF Promise!Longer, Form, CsiForm
    <3> QED BY Zenon, <1>1, <2>2, <3>1 DEF t
  <2>5. CASE ~Promise!Swallowed(t) /\ ~Promise!Longer(t)
    <3>1. Promise!Open(e)
      BY Zenon, <2>1, <2>5 DEF Promise!Open
    <3> QED BY Zenon, <1>1, <2>2, <3>1 DEF t
  <2> QED BY <2>3, <2>4, <2>5
<1>5. CASE DragText(e, t)
  <2> DEFINE wb == Width(e.report.b)
             wx == Width(e.report.x)
             wy == Width(e.report.y)
             l == Len(t)
  <2>1. e.type = "mouse" /\ e.report \in Reports /\ ReportText(t, e.report)
    BY Zenon, <1>5 DEF DragText
  <2>2. l = 6 + wb + wx + wy /\ t[1] = "ESC" /\ t[2] = "[" /\ t[3] = "<"
    BY Zenon, <2>1 DEF ReportText
  <2>3. e.report.b \in Fields /\ e.report.x \in Fields /\ e.report.y \in Fields
    BY <2>1 DEF Reports
  <2>4. wb \in 1 .. 5 /\ wx \in 1 .. 5 /\ wy \in 1 .. 5
    BY Zenon, <2>3, DecimalIs
  <2>5. l = 6 + wb + wx + wy
    BY <2>2
  <2> HIDE DEF wb, wx, wy, l
  <2>6. l > 3
    BY <2>4, <2>5
  <2>7. Form(e, t)
    BY Zenon, <2>1, <2>2, <2>6 DEF Form, CsiForm, l
  <2> QED BY Zenon, <1>1, <2>1, <2>7 DEF t
<1> QED BY Zenon, <1>1, <1>2, <1>3, <1>4, <1>5 DEF Spelled

\* What is read of the first event.
LEMMA Where ==
  ASSUME KeyInv, Orderly, pc # "end", tty # <<>>
  PROVE  Place(First, Seen, pc, skip, parser) \/ (inbox[1].torn /\ Resting(pc, parser))
  BY Zenon, Reading DEF Headed, First, Seen

\* What its bytes are.
LEMMA Shaped ==
  ASSUME KeyInv, Orderly, pc # "end", tty # <<>>
  PROVE  /\ Form(First, Encoding(First)) /\ Len(Encoding(First)) \in Nat \ {0}
         /\ First.type = "unbound" /\ ~Promise!Swallowed(Encoding(First)) => inbox[1].torn
<1>1. inbox # <<>> /\ First \in Events /\ Spread(inbox) /\ inbox \in Seq(Entry)
  BY Zenon, Reading, LeftOver
<1>2. First.type = "esc" \/ ~Promise!Open(First)
  BY Zenon, <1>1, OpenAlone DEF Orderly
<1> QED BY Zenon, <1>1, <1>2, FormIs, LongTorn

LEMMA SameFields ==
  ASSUME KeyInv, KeyInv'
  PROVE  DOMAIN ui' = DOMAIN ui
  BY DEF KeyInv, LoopOK, UiOK

\* A byte of an event that was torn, for the keys.
LEMMA TornReads ==
  ASSUME KeyInv, KeyInv', Orderly, pc # "end", Read, inbox[1].torn,
         inbox' = Unhandled(inbox, Unread), Resting(pc', parser')
  PROVE  Faithful
<1>1. tty # <<>> /\ ReadOn
  BY ReadsOn DEF Read
<1>2. inbox # <<>> /\ inbox \in Seq(Entry) /\ Seen \in Nat /\ Seen < Len(Encoding(First)) /\ Spread(inbox)
  BY <1>1, Reading, LeftOver
<1>3. DOMAIN ui' = DOMAIN ui
  BY SameFields
<1>4. CASE Seen + 1 < Len(Encoding(First))
  <2>1. inbox' = inbox
    BY Zenon, <1>1, <1>4 DEF ReadOn
  <2>2. Synced'
    <3>1. parser'.state = 0
      BY DEF Resting
    <3> QED BY Zenon, <1>1, <1>4, <2>1, <3>1, Continues
  <2>3. inbox' \in {inbox, Tail(inbox)}
    BY <2>1
  <2>4. Promise!Next
    BY Zenon, <1>2, <1>3, <2>3, Misreads
  <2> QED BY <2>2, <2>4 DEF Faithful, Promised
<1>5. CASE Seen + 1 = Len(Encoding(First))
  <2>1. Synced' /\ inbox' \in {inbox, Tail(inbox)}
    BY Zenon, <1>1, <1>5, Consumes
  <2>2. Promise!Next
    BY Zenon, <1>2, <1>3, <2>1, Misreads
  <2> QED BY <2>1, <2>2 DEF Faithful, Promised
<1>6. Seen + 1 < Len(Encoding(First)) \/ Seen + 1 = Len(Encoding(First))
  <2>1. Len(Encoding(First)) \in Nat
    BY <1>1, Reading, FormIs
  <2> DEFINE l == Len(Encoding(First))
             k == Seen
  <2>2. k \in Nat /\ l \in Nat /\ k < l
    BY <1>2, <2>1
  <2> HIDE DEF l, k
  <2>3. k + 1 < l \/ k + 1 = l
    BY <2>2
  <2> QED BY Zenon, <2>3 DEF l, k
<1> QED BY <1>4, <1>5, <1>6

\* The last byte of an event.
LEMMA LastByte ==
  ASSUME KeyInv, KeyInv', Orderly, pc # "end", Read, Seen + 1 = Len(Encoding(First)),
         inbox' = Unhandled(inbox, Unread), pc' = "end" \/ Resting(pc', parser'),
         ui' \in Promise!Effect(ui, First), ui'.view \in {"none", ui.view}
  PROVE  Faithful
<1>1. tty # <<>> /\ ReadOn
  BY ReadsOn DEF Read
<1>2. inbox # <<>> /\ inbox \in Seq(Entry)
  BY <1>1, Reading, LeftOver
<1>3. Synced' /\ inbox' = Tail(inbox)
  BY Zenon, <1>1, Consumes
<1>4. Promise!Next
  <2>1. CASE inbox[1].torn
    <3>1. DOMAIN ui' = DOMAIN ui /\ inbox' \in {inbox, Tail(inbox)}
      BY <1>3, SameFields
    <3> QED BY Zenon, <1>2, <2>1, <3>1, Misreads
  <2>2. CASE ~inbox[1].torn
    BY Zenon, <1>2, <1>3, <2>2, Handles
  <2> QED BY <2>1, <2>2
<1> QED BY <1>3, <1>4 DEF Faithful, Promised

\* A byte of an event, and not the last one.
LEMMA OneByte ==
  ASSUME KeyInv, Orderly, pc # "end", Read, Settled, ui' = ui,
         Seen + 1 < Len(Encoding(First)),
         Place(First, Seen + 1, pc', skip', parser'), ui.view = "none" \/ parser'.state = 0
  PROVE  Faithful
<1>1. tty # <<>> /\ ReadOn
  BY ReadsOn DEF Read
<1>2. inbox' = inbox
  <2>1. Unhandled(inbox, Unread) = inbox
    BY Zenon, <1>1 DEF ReadOn
  <2> QED BY <2>1 DEF Settled
<1>3. Synced'
  <2>1. ui'.view = "none" \/ parser'.state = 0
    OBVIOUS
  <2> QED BY Zenon, <1>1, <1>2, <2>1, Continues
<1> QED BY <1>2, <1>3 DEF Faithful, Promised

\* A byte while a report is read.
LEMMA Dragging ==
  ASSUME KeyInv, Orderly, pc = "loop", tty # <<>>, ~Resting(pc, parser)
  PROVE  /\ First.type = "mouse" /\ First.report \in Reports
         /\ InReport(First.report, Seen, parser)
         /\ \/ Onward(First.report, Encoding(First), Seen, parser)
            \/ Through(First.report, Encoding(First), Seen, parser)
         /\ Head(tty) = Encoding(First)[Seen + 1]
<1>1. pc # "end" /\ pc # "esc" /\ pc # "csi" /\ pc # "skip"
  OBVIOUS
<1>2. First \in Events /\ Head(tty) = Encoding(First)[Seen + 1]
  BY Zenon, <1>1, Reading
<1>3. AtDrag(First, Seen, pc, parser)
  BY Zenon, <1>1, Where DEF Place, AtStart, AtEsc, AtCsi, AtSkip
<1>4. First.type = "mouse" /\ InReport(First.report, Seen, parser)
  BY Zenon, <1>3 DEF AtDrag
<1>5. First.report \in Reports /\ ReportText(Encoding(First), First.report)
  BY Zenon, <1>2, <1>4, FormIs
<1>6. \/ Onward(First.report, Encoding(First), Seen, parser)
      \/ Through(First.report, Encoding(First), Seen, parser)
  BY Zenon, <1>4, <1>5, ReportStep
<1> QED BY Zenon, <1>2, <1>3, <1>4, <1>5, <1>6

LEMMA FeedMoreFaithful ==
  ASSUME KeyInv, KeyInv', Orderly, FeedMore
  PROVE  Faithful
<1> DEFINE c == Head(tty)
           q == IF IsDigit(c) THEN FedDigit(parser, c) ELSE NextField(parser)
           r == First.report
<1>1. /\ pc = "loop" /\ ui.view = "none" /\ Read /\ parser.state # 0 /\ IsMore(parser, c)
      /\ parser' = q /\ pc' = pc /\ ui' = ui /\ Settled
  BY DEF FeedMore, InLoop
<1>2. tty # <<>> /\ ~Resting(pc, parser) /\ pc # "end"
  BY <1>1 DEF Read, Resting
<1>3. /\ First.type = "mouse" /\ c = Encoding(First)[Seen + 1]
      /\ \/ Onward(r, Encoding(First), Seen, parser)
         \/ Through(r, Encoding(First), Seen, parser)
  BY Zenon, <1>1, <1>2, Dragging
<1>4. Onward(r, Encoding(First), Seen, parser)
  BY Zenon, <1>1, <1>3 DEF Through
<1>5. Seen + 1 < Len(Encoding(First)) /\ InReport(r, Seen + 1, q)
  BY Zenon, <1>3, <1>4 DEF Onward
<1> HIDE DEF c, q
<1>6. Place(First, Seen + 1, pc', skip', parser')
  BY Zenon, <1>1, <1>3, <1>5 DEF Place, AtDrag
<1> QED BY Zenon, <1>1, <1>2, <1>3, <1>5, <1>6, OneByte

LEMMA FeedDoneFaithful ==
  ASSUME KeyInv, KeyInv', Orderly, FeedDone
  PROVE  Faithful
<1> DEFINE c == Head(tty)
           r == First.report
<1>1. /\ pc = "loop" /\ ui.view = "none" /\ Read /\ parser.state # 0 /\ IsDone(parser, c)
      /\ parser' = NoReport /\ ui' = Mouse(ui, Report(parser, c)) /\ pc' \in {pc, "end"}
      /\ inbox' = Unhandled(inbox, Unread)
  BY DEF FeedDone, InLoop
<1>2. tty # <<>> /\ ~Resting(pc, parser) /\ pc # "end"
  BY <1>1 DEF Read, Resting
<1>3. /\ First.type = "mouse" /\ c = Encoding(First)[Seen + 1]
      /\ \/ Onward(r, Encoding(First), Seen, parser)
         \/ Through(r, Encoding(First), Seen, parser)
  BY Zenon, <1>1, <1>2, Dragging
<1>4. Through(r, Encoding(First), Seen, parser)
  BY Zenon, <1>1, <1>3 DEF Onward
<1>5. Seen + 1 = Len(Encoding(First)) /\ Report(parser, c) = r
  BY Zenon, <1>3, <1>4 DEF Through
<1> HIDE DEF c
<1>6. ui' \in Promise!Effect(ui, First)
  <2>1. Promise!Effect(ui, First) = {Mouse(ui, r)}
    BY Zenon, <1>1, <1>3, MouseEffect
  <2>2. ui' = Mouse(ui, r)
    BY Zenon, <1>1, <1>5
  <2> QED BY <2>1, <2>2
<1>7. ui'.view \in {"none", ui.view}
  <2>1. UiOK(ui)
    BY DEF KeyInv, LoopOK
  <2>2. ui'.view = ui.view
    BY Zenon, <1>1, <2>1, GivenUi DEF Mouse
  <2> QED BY <2>2
<1>8. pc' = "end" \/ Resting(pc', parser')
  <2>1. parser'.state = 0
    BY <1>1 DEF NoReport
  <2> QED BY <1>1, <2>1 DEF Resting
<1> QED BY Zenon, <1>1, <1>2, <1>3, <1>5, <1>6, <1>7, <1>8, LastByte

\* A byte that is no part of a report, in the loop.
LEMMA KeyByte ==
  ASSUME KeyInv, Orderly, pc = "loop", tty # <<>>, IsKey
  PROVE  Seen = 0 \/ inbox[1].torn
<1>1. Resting(pc, parser)
  <2> SUFFICES ASSUME ~Resting(pc, parser) PROVE FALSE
    OBVIOUS
  <2>1. /\ \/ Onward(First.report, Encoding(First), Seen, parser)
           \/ Through(First.report, Encoding(First), Seen, parser)
        /\ Head(tty) = Encoding(First)[Seen + 1]
    BY Zenon, Dragging
  <2>2. IsMore(parser, Head(tty)) \/ IsDone(parser, Head(tty))
    BY Zenon, <2>1 DEF Onward, Through
  <2>3. parser.state # 0
    BY DEF Resting
  <2> QED BY Zenon, <2>2, <2>3 DEF IsKey
<1>2. pc # "end" /\ pc # "esc" /\ pc # "csi" /\ pc # "skip" /\ parser.state = 0
  BY <1>1 DEF Resting
<1>3. ~AtDrag(First, Seen, pc, parser)
  <2> SUFFICES ASSUME AtDrag(First, Seen, pc, parser) PROVE FALSE
    OBVIOUS
  <2>1. First.type = "mouse" /\ InReport(First.report, Seen, parser)
    BY Zenon DEF AtDrag
  <2>2. First \in Events
    BY Zenon, <1>2, Reading
  <2>3. First.report \in Reports /\ ReportText(Encoding(First), First.report)
    BY Zenon, <2>1, <2>2, FormIs
  <2>4. parser.state # 0
    BY Zenon, <2>1, <2>3, ReportStep
  <2> QED BY <1>2, <2>4
<1> QED BY Zenon, <1>2, <1>3, Where DEF Place, AtStart, AtEsc, AtCsi, AtSkip

LEMMA ReadEscFaithful ==
  ASSUME KeyInv, KeyInv', Orderly, ReadEsc
  PROVE  Faithful
<1> DEFINE t == Encoding(First)
<1>1. /\ pc = "loop" /\ ui.view = "none" /\ Read /\ IsKey /\ Head(tty) = "ESC"
      /\ pc' = "esc" /\ parser' = NoReport /\ ui' = ui /\ inbox' = inbox
  BY DEF ReadEsc, InLoop
<1>2. tty # <<>> /\ pc # "end"
  BY <1>1 DEF Read
<1>3. First \in Events /\ Seen \in Nat /\ Seen < Len(t) /\ t[Seen + 1] = "ESC"
  BY Zenon, <1>1, <1>2, Reading
<1>4. ReadOn
  BY <1>1, <1>2, ReadsOn
<1>5. Form(First, t) /\ Len(t) \in Nat \ {0}
  BY Zenon, <1>2, Shaped
<1>6. ~(Seen > 0)
  <2> SUFFICES ASSUME Seen > 0 PROVE FALSE
    OBVIOUS
  <2> DEFINE k == Seen
             l == Len(t)
  <2>1. k \in Nat /\ k > 0 /\ l \in Nat /\ k < l
    BY <1>3, <1>5
  <2> HIDE DEF k, l
  <2>2. k + 1 \in 2 .. l
    BY <2>1
  <2> QED BY Zenon, <1>3, <2>2, NoEsc DEF k, l
<1>7. Seen = 0
  BY <1>3, <1>6
<1>8. Seen + 1 = 1 /\ t[1] = "ESC"
  BY <1>3, <1>7
<1> HIDE DEF t
<1>9. First.type # "key" /\ (1 < Len(t) \/ First.type = "esc")
  <2>1. CASE First.type = "key" /\ Len(t) = 1 /\ t[1] = First.key /\ t[1] # "ESC"
    BY <1>8, <2>1
  <2>2. CASE First.type = "esc" /\ Len(t) = 1 /\ t[1] = "ESC"
    BY <2>2
  <2>3. CASE First.type = "unbound" /\ Len(t) = 3 /\ t[1] = "ESC" /\ t[2] = "O"
    BY <2>3
  <2>4. CASE First.type = "unbound" /\ Len(t) > 1
    BY <2>4
  <2>5. CASE CsiForm(First, t)
    BY <1>5, <2>5 DEF CsiForm
  <2> QED BY Zenon, <1>5, <2>1, <2>2, <2>3, <2>4, <2>5 DEF Form
<1>10. Place(First, Seen + 1, pc', skip', parser')
  <2>1. parser'.state = 0
    BY <1>1 DEF NoReport
  <2> QED BY Zenon, <1>1, <1>8, <1>9, <2>1 DEF Place, AtEsc
<1>11. Synced'
  <2>1. Seen + 1 < Len(Encoding(First)) \/ (First.type = "esc" /\ Seen + 1 = 1)
    BY Zenon, <1>8, <1>9 DEF t
  <2>2. ui'.view = "none" \/ parser'.state = 0
    BY <1>1
  <2> QED BY Zenon, <1>1, <1>2, <1>4, <1>7, <1>10, <2>1, <2>2, Continues
<1> QED BY <1>1, <1>11 DEF Faithful, Promised

LEMMA ReadKeyFaithful ==
  ASSUME KeyInv, KeyInv', Orderly, ReadKey
  PROVE  Faithful
<1> DEFINE t == Encoding(First)
           m == Len(sending)
<1>1. /\ pc = "loop" /\ ui.view = "none" /\ tty # <<>> /\ IsKey /\ Head(tty) # "ESC"
      /\ ui' \in Key(ui, Head(tty)) /\ parser' = NoReport /\ pc' = pc /\ pc # "end"
      /\ ui'.view = "none" => Read /\ Settled
      /\ ui'.view # "none" => tty' = <<>> /\ sending' = sending /\ DrainedInbox
  BY DEF ReadKey
<1>2. Resting(pc', parser')
  <2>1. parser'.state = 0
    BY <1>1 DEF NoReport
  <2> QED BY <1>1, <2>1 DEF Resting
<1>3. /\ inbox # <<>> /\ First \in Events /\ Seen \in Nat /\ Seen < Len(t) /\ Head(tty) = t[Seen + 1]
      /\ inbox \in Seq(Entry)
  BY Zenon, <1>1, Reading, LeftOver
<1>4. ui'.view = "none" => inbox' = Unhandled(inbox, Unread)
  <2>1. pc' = "loop" /\ parser'.state = 0
    BY <1>1 DEF NoReport
  <2> QED BY Zenon, <1>1, <2>1 DEF Settled
<1>5. CASE inbox[1].torn
  <2>1. CASE ui'.view = "none"
    BY Zenon, <1>1, <1>2, <1>4, <1>5, <2>1, TornReads
  <2>2. CASE ui'.view # "none"
    <3>1. /\ Synced'
          /\ inbox' \in Promise!Drained(Tail(inbox)) \/ inbox' \in {inbox, Tail(inbox)}
      <4>1. TornHead(inbox) \in {inbox, Tail(inbox)}
        BY <1>3, <1>5, TornSpread
      <4> QED BY Zenon, <1>1, <1>2, <2>2, <4>1, ThrowsAway
    <3>2. DOMAIN ui' = DOMAIN ui /\ ui'.view \notin {"none", ui.view}
      BY <1>1, <2>2, SameFields
    <3>3. Promise!Next
      BY Zenon, <1>3, <1>5, <3>1, <3>2, Misreads
    <3> QED BY <3>1, <3>3 DEF Faithful, Promised
  <2> QED BY <2>1, <2>2
<1>6. CASE ~inbox[1].torn
  <2>1. Seen = 0
    BY Zenon, <1>1, <1>6, KeyByte
  <2>2. Seen + 1 = 1
    BY <2>1
  <2>3. t[1] = Head(tty)
    BY Zenon, <1>3, <2>2
  <2>4. First.type = "key" /\ Len(t) = 1 /\ t[1] = First.key
    BY Zenon, <1>1, <2>3, Shaped DEF Form
  <2>5. ui' \in Promise!Effect(ui, First)
    <3>1. Promise!Effect(ui, First) = Key(ui, First.key)
      BY Zenon, <1>1, <2>4, KeyEffect
    <3> QED BY Zenon, <1>1, <2>3, <2>4, <3>1
  <2>6. CASE ui'.view = "none"
    <3>1. ui'.view \in {"none", ui.view} /\ Seen + 1 = Len(Encoding(First))
      BY <2>2, <2>4, <2>6
    <3> QED BY Zenon, <1>1, <1>2, <1>4, <2>5, <2>6, <3>1, LastByte
  <2>7. CASE ui'.view # "none"
    <3>1. /\ Synced'
          /\ \/ inbox' \in Promise!Drained(Tail(inbox))
             \/ m > Size(Tail(inbox))
      BY Zenon, <1>1, <1>2, <2>7, ThrowsAway
    <3>2. ~(m > Size(Tail(inbox)))
      <4> DEFINE n == Size(Tail(inbox))
                 s == Size(inbox)
                 l == Len(tty)
      <4>1. m \in Nat /\ l \in Nat /\ l > 0 /\ s \in Nat
        BY <1>1, LeftOver
      <4>2. s = Len(t) + n /\ Tail(inbox) \in Seq(Entry)
        BY <1>3, BytesHead DEF First
      <4>3. n \in Nat
        BY <4>2, BytesText
      <4>4. s = 1 + n
        BY Zenon, <2>4, <4>2
      <4>5. s - (l + m) = 0
        BY Zenon, <2>1 DEF Seen, Left
      <4> HIDE DEF m, n, s, l
      <4> QED BY <4>1, <4>3, <4>4, <4>5 DEF n
    <3>3. ui'.view \notin {"none", ui.view}
      BY <1>1, <2>7
    <3>4. Promise!Next
      BY Zenon, <1>3, <1>6, <2>5, <3>1, <3>2, <3>3, Handles
    <3> QED BY <3>1, <3>4 DEF Faithful, Promised
  <2> QED BY <2>6, <2>7
<1> QED BY <1>5, <1>6

\* What read_escape_byte waits for.
LEMMA Waiting ==
  ASSUME KeyInv, Orderly, pc \in {"esc", "csi", "skip"}, tty # <<>>
  PROVE  /\ parser.state = 0 /\ ui.view = "none" /\ inbox # <<>>
         /\ First \in Events /\ Seen \in Nat /\ Seen < Len(Encoding(First))
         /\ Head(tty) = Encoding(First)[Seen + 1]
         /\ pc = "esc" => AtEsc(First, Seen, pc, parser)
         /\ pc = "csi" => AtCsi(First, Seen, pc, parser)
         /\ pc = "skip" => AtSkip(First, Seen, pc, skip, parser)
<1>1. pc # "end" /\ pc # "loop"
  OBVIOUS
<1>2. /\ inbox # <<>> /\ First \in Events /\ Seen \in Nat /\ Seen < Len(Encoding(First))
      /\ Head(tty) = Encoding(First)[Seen + 1]
  BY Zenon, <1>1, Reading
<1>3. ui.view = "none"
  BY <1>1 DEF KeyInv, LoopOK, ViewsInLoop
<1>4. \/ AtEsc(First, Seen, pc, parser) \/ AtCsi(First, Seen, pc, parser)
      \/ AtSkip(First, Seen, pc, skip, parser)
  BY Zenon, <1>1, Where DEF Place, AtStart, AtDrag, Resting
<1>5. parser.state = 0
  BY Zenon, <1>4 DEF AtEsc, AtCsi, AtSkip
<1>6. /\ "esc" # "csi" /\ "esc" # "skip" /\ "csi" # "skip"
  OBVIOUS
<1>7. /\ pc = "esc" => AtEsc(First, Seen, pc, parser)
      /\ pc = "csi" => AtCsi(First, Seen, pc, parser)
      /\ pc = "skip" => AtSkip(First, Seen, pc, skip, parser)
  BY Zenon, <1>4, <1>6 DEF AtEsc, AtCsi, AtSkip
<1> QED BY Zenon, <1>2, <1>3, <1>4, <1>5, <1>7

\* After ESC comes [ or O, nothing, or the letter of a torn sequence.
LEMMA AfterEscFaithful ==
  ASSUME KeyInv, KeyInv', Orderly, AfterEsc
  PROVE  Faithful
<1> DEFINE t == Encoding(First)
<1>1. pc = "esc" /\ Read /\ tty # <<>> /\ pc # "end" /\ pc \in {"esc", "csi", "skip"} /\ Settled
  BY DEF AfterEsc, Read
<1>2. /\ parser.state = 0 /\ ui.view = "none"
      /\ First \in Events /\ Seen < Len(t) /\ Head(tty) = t[Seen + 1]
      /\ AtEsc(First, Seen, pc, parser)
  BY Zenon, <1>1, Waiting
<1>3. Seen = 1 /\ First.type # "key"
  BY Zenon, <1>2 DEF AtEsc
<1>4. Seen + 1 = 2 /\ 1 < Len(t) /\ Len(t) # 1
  BY <1>2, <1>3
<1>5. Head(tty) = t[2]
  BY Zenon, <1>2, <1>4
<1>6. Form(First, t) /\ (First.type = "unbound" /\ ~Promise!Swallowed(t) => inbox[1].torn)
  BY Zenon, <1>1, Shaped
<1> HIDE DEF t
<1>7. CASE First.type = "unbound" /\ Len(t) = 3 /\ t[2] = "O"
  <2>1. pc' = "skip" /\ skip' = 1 /\ ui' = ui /\ parser' = parser
    BY <1>5, <1>7 DEF AfterEsc
  <2>2. Seen + 1 >= 2 /\ Seen + 1 < Len(t) /\ skip' = Len(t) - (Seen + 1)
    BY <1>4, <1>7, <2>1
  <2>3. Place(First, Seen + 1, pc', skip', parser')
    BY Zenon, <1>2, <1>7, <2>1, <2>2 DEF Place, AtSkip, t
  <2> QED BY Zenon, <1>1, <1>2, <2>1, <2>2, <2>3, OneByte DEF t
<1>8. CASE t[2] = "[" /\ CsiForm(First, t)
  <2>1. pc' = "csi" /\ ui' = ui /\ parser' = parser
    BY <1>5, <1>8 DEF AfterEsc
  <2>2. Seen + 1 < Len(t)
    BY <1>4, <1>8 DEF CsiForm
  <2>3. Place(First, Seen + 1, pc', skip', parser')
    BY Zenon, <1>2, <1>4, <1>8, <2>1 DEF Place, AtCsi, t
  <2> QED BY Zenon, <1>1, <1>2, <2>1, <2>2, <2>3, OneByte DEF t
<1>9. CASE First.type = "unbound" /\ ~Promise!Swallowed(t) /\ t[2] \notin {"[", "O"}
  <2>1. pc' = "loop" /\ parser' = parser
    BY <1>5, <1>9 DEF AfterEsc
  <2>2. Resting(pc', parser') /\ inbox' = Unhandled(inbox, Unread)
    BY <1>1, <1>2, <2>1 DEF Resting, Settled
  <2> QED BY Zenon, <1>1, <1>6, <1>9, <2>2, TornReads
<1> QED BY Zenon, <1>3, <1>4, <1>6, <1>7, <1>8, <1>9 DEF Form

\* The byte after ESC [.
LEMMA AfterCsiFaithful ==
  ASSUME KeyInv, KeyInv', Orderly, AfterCsi
  PROVE  Faithful
<1> DEFINE t == Encoding(First)
<1>1. pc = "csi" /\ Read /\ tty # <<>> /\ pc # "end" /\ pc \in {"esc", "csi", "skip"} /\ Settled
  BY DEF AfterCsi, Read
<1>2. /\ parser.state = 0 /\ ui.view = "none"
      /\ First \in Events /\ Seen < Len(t) /\ Head(tty) = t[Seen + 1]
      /\ AtCsi(First, Seen, pc, parser)
  BY Zenon, <1>1, Waiting
<1>3. Seen = 2 /\ t[2] = "["
  BY Zenon, <1>2 DEF AtCsi
<1>4. Seen + 1 = 3 /\ 2 < Len(t) /\ Len(t) # 1
  BY <1>2, <1>3
<1>5. Head(tty) = t[3]
  BY Zenon, <1>2, <1>4
<1>6. CsiForm(First, t) /\ (First.type = "unbound" /\ ~Promise!Swallowed(t) => inbox[1].torn)
  <2>1. Form(First, t) /\ (First.type = "unbound" /\ ~Promise!Swallowed(t) => inbox[1].torn)
    BY Zenon, <1>1, Shaped
  <2>2. t[2] # "O" /\ t[2] \in {"[", "O"}
    BY <1>3
  <2> QED BY Zenon, <1>4, <2>1, <2>2 DEF Form
<1>7. pc' = "loop" /\ parser'.state = 0 => inbox' = Unhandled(inbox, Unread) /\ Resting(pc', parser')
  BY <1>1 DEF Settled, Resting
<1> HIDE DEF t
<1>8. CASE First.type = "up" /\ Len(t) = 3 /\ t[3] = "A"
  <2>1. pc' = "loop" /\ ui' = Arrow(ui, -1) /\ parser' = parser
    BY <1>5, <1>8 DEF AfterCsi
  <2>2. ui' \in Promise!Effect(ui, First)
    <3>1. Promise!Effect(ui, First) = {Arrow(ui, -1)}
      BY Zenon, <1>2, <1>8, UpEffect
    <3> QED BY <2>1, <3>1
  <2>3. ui'.view \in {"none", ui.view}
    <3>1. UiOK(ui) /\ -1 \in {-1, 1}
      BY DEF KeyInv, LoopOK
    <3>2. ui'.view = ui.view
      BY Zenon, <2>1, <3>1, ArrowUi
    <3> QED BY <3>2
  <2>4. Seen + 1 = Len(t) /\ Resting(pc', parser')
    BY <1>2, <1>4, <1>8, <2>1 DEF Resting
  <2> QED BY Zenon, <1>1, <1>2, <1>7, <2>1, <2>2, <2>3, <2>4, LastByte DEF t
<1>9. CASE First.type = "down" /\ Len(t) = 3 /\ t[3] = "B"
  <2>1. pc' = "loop" /\ ui' = Arrow(ui, 1) /\ parser' = parser
    BY <1>5, <1>9 DEF AfterCsi
  <2>2. ui' \in Promise!Effect(ui, First)
    <3>1. Promise!Effect(ui, First) = {Arrow(ui, 1)}
      BY Zenon, <1>2, <1>9, DownEffect
    <3> QED BY <2>1, <3>1
  <2>3. ui'.view \in {"none", ui.view}
    <3>1. UiOK(ui) /\ 1 \in {-1, 1}
      BY DEF KeyInv, LoopOK
    <3>2. ui'.view = ui.view
      BY Zenon, <2>1, <3>1, ArrowUi
    <3> QED BY <3>2
  <2>4. Seen + 1 = Len(t) /\ Resting(pc', parser')
    BY <1>2, <1>4, <1>9, <2>1 DEF Resting
  <2> QED BY Zenon, <1>1, <1>2, <1>7, <2>1, <2>2, <2>3, <2>4, LastByte DEF t
<1>10. CASE First.type = "mouse" /\ Len(t) > 3 /\ t[3] = "<"
  <2> DEFINE r == First.report
  <2>1. pc' = "loop" /\ ui' = ui /\ parser' = Begun
    BY <1>5, <1>10 DEF AfterCsi
  <2>2. r \in Reports
    BY Zenon, <1>2, <1>10, FormIs
  <2>3. Upper(r.b, 0) = 0 /\ 0 \in 0 .. Width(r.b)
    <3>1. r.b \in Fields
      BY <2>2 DEF Reports
    <3>2. Upper(r.b, 0) = 0 /\ Width(r.b) \in 1 .. 5
      BY Zenon, <3>1, DecimalIs
    <3> DEFINE w == Width(r.b)
    <3>3. w \in 1 .. 5
      BY <3>2
    <3> HIDE DEF w
    <3>4. 0 \in 0 .. w
      BY <3>3
    <3> QED BY <3>2, <3>4 DEF w
  <2>4. InFirst(r, Seen + 1, Begun)
    <3>1. Begun = Parsing(1, <<0, 0, 0>>, 0)
      BY DEF Begun, Parsing
    <3>2. Begun = Parsing(1, <<Upper(r.b, 0), 0, 0>>, 0)
      BY Zenon, <2>3, <3>1
    <3>3. Seen + 1 = 3 + 0
      BY <1>4
    <3> QED BY Zenon, <2>3, <3>2, <3>3 DEF InFirst
  <2>5. Place(First, Seen + 1, pc', skip', parser')
    BY Zenon, <1>10, <2>1, <2>4 DEF Place, AtDrag, InReport
  <2>6. Seen + 1 < Len(t)
    BY <1>4, <1>10
  <2> QED BY Zenon, <1>1, <1>2, <2>1, <2>5, <2>6, OneByte DEF t
<1>11. CASE First.type = "unbound" /\ Len(t) = 6 /\ t[3] = "M"
  <2>1. pc' = "skip" /\ skip' = 3 /\ ui' = ui /\ parser' = parser
    BY <1>5, <1>11 DEF AfterCsi
  <2>2. Seen + 1 >= 2 /\ Seen + 1 < Len(t) /\ skip' = Len(t) - (Seen + 1)
    BY <1>4, <1>11, <2>1
  <2>3. Place(First, Seen + 1, pc', skip', parser')
    BY Zenon, <1>2, <1>11, <2>1, <2>2 DEF Place, AtSkip, t
  <2> QED BY Zenon, <1>1, <1>2, <2>1, <2>2, <2>3, OneByte DEF t
<1>12. CASE First.type = "unbound" /\ Len(t) = 3 /\ t[3] \notin {"A", "B", "M", "<"}
  <2>1. pc' = "loop" /\ ui' = ui /\ parser' = parser
    BY <1>5, <1>12 DEF AfterCsi
  <2>2. ui' \in Promise!Effect(ui, First) /\ ui'.view \in {"none", ui.view}
    <3>1. Promise!Effect(ui, First) = {ui}
      BY Zenon, <1>2, <1>12, UnboundEffect
    <3> QED BY <2>1, <3>1
  <2>3. Seen + 1 = Len(t) /\ Resting(pc', parser')
    BY <1>2, <1>4, <1>12, <2>1 DEF Resting
  <2> QED BY Zenon, <1>1, <1>2, <1>7, <2>1, <2>2, <2>3, LastByte DEF t
<1>13. CASE First.type = "unbound" /\ ~Promise!Swallowed(t) /\ t[3] \notin {"M", "<"}
  <2>1. pc' = "loop" /\ parser' = parser
    BY <1>5, <1>13 DEF AfterCsi
  <2> QED BY Zenon, <1>1, <1>2, <1>6, <1>7, <1>13, <2>1, TornReads
<1> QED BY Zenon, <1>6, <1>8, <1>9, <1>10, <1>11, <1>12, <1>13 DEF CsiForm

LEMMA SwallowFaithful ==
  ASSUME KeyInv, KeyInv', Orderly, Swallow
  PROVE  Faithful
<1> DEFINE l == Len(Encoding(First))
           k == Seen
<1>1. /\ pc = "skip" /\ Read /\ tty # <<>> /\ pc # "end" /\ pc \in {"esc", "csi", "skip"} /\ Settled
      /\ skip' = skip - 1 /\ ui' = ui /\ parser' = parser
      /\ pc' = IF skip = 1 THEN "loop" ELSE "skip"
  BY DEF Swallow, Read
<1>2. /\ parser.state = 0 /\ ui.view = "none" /\ First \in Events /\ k \in Nat
      /\ AtSkip(First, k, pc, skip, parser)
  BY Zenon, <1>1, Waiting
<1>3. k >= 2 /\ k < l /\ skip = l - k /\ First.type = "unbound"
  BY Zenon, <1>2 DEF AtSkip
<1>4. l \in Nat
  BY Zenon, <1>2, FormIs
<1> HIDE DEF k, l
<1>5. CASE skip = 1
  <2>1. k + 1 = l
    BY <1>2, <1>3, <1>4, <1>5
  <2>2. pc' = "loop" /\ inbox' = Unhandled(inbox, Unread)
    BY <1>1, <1>2, <1>5 DEF Settled
  <2>3. ui' \in Promise!Effect(ui, First) /\ ui'.view \in {"none", ui.view}
    <3>1. Promise!Effect(ui, First) = {ui}
      BY Zenon, <1>2, <1>3, UnboundEffect
    <3> QED BY <1>1, <3>1
  <2>4. Resting(pc', parser')
    BY <1>1, <1>2, <2>2 DEF Resting
  <2> QED BY Zenon, <1>1, <1>2, <2>1, <2>2, <2>3, <2>4, LastByte DEF k, l
<1>6. CASE skip # 1
  <2>1. k + 1 >= 2 /\ k + 1 < l /\ skip' = l - (k + 1)
    BY <1>1, <1>2, <1>3, <1>4, <1>6
  <2>2. pc' = "skip"
    BY <1>1, <1>6
  <2>3. Place(First, k + 1, pc', skip', parser')
    BY Zenon, <1>1, <1>2, <1>3, <2>1, <2>2 DEF Place, AtSkip, l
  <2> QED BY Zenon, <1>1, <1>2, <2>1, <2>3, OneByte DEF k, l
<1> QED BY <1>5, <1>6

\* A key is one byte.
LEMMA KeyIsByte ==
  ASSUME NEW e, e.type = "key"
  PROVE  Len(Encoding(e)) = 1
<1>1. Encoding(e) = <<e.key>>
  BY DEF Encoding
<1>2. \A x : Len(<<x>>) = 1
  OBVIOUS
<1> QED BY Zenon, <1>1, <1>2

\* What is left of the first event waits as a torn one.
LEMMA Tears ==
  ASSUME KeyInv, KeyInv', inbox # <<>>, Spread(inbox), Unread \in Nat,
         Size(Tail(inbox)) < Unread, Unread < Size(inbox),
         inbox' = TornHead(inbox), Resting(pc', parser'),
         First.type # "key", ui' \in {ui, Escape(ui), Answered(ui)}
  PROVE  Faithful
<1> DEFINE u == TornHead(inbox)
<1>1. inbox \in Seq(Entry)
  BY LeftOver
<1>2. Resumable(u, Unread) /\ Spread(u) /\ Size(u) \in Nat
  BY Zenon, <1>1, TornRests
<1> HIDE DEF u
<1>3. InStep(u, Unread, pc', skip', parser', ui'.view)
  BY <1>2, Resumes
<1>4. Synced'
  BY Zenon, <1>3, SyncedNext DEF u
<1>5. Promise!Next
  BY Zenon, <1>1, TearsHead
<1> QED BY <1>4, <1>5 DEF Faithful, Promised

\* 25 ms of silence end a lone ESC, and tear any other event.
LEMMA SilenceFaithful ==
  ASSUME KeyInv, KeyInv', Orderly, Silence
  PROVE  Faithful
<1> DEFINE e == Encoding(First)
           l == Len(e)
           k == Seen
           m == Len(sending)
           s == Size(inbox)
           n == Size(Tail(inbox))
<1>1. /\ pc \in {"esc", "csi", "skip"} /\ pc # "loop" /\ pc # "end" /\ tty = <<>> /\ tty' = <<>> /\ sending' = sending
      /\ pc' = "loop" /\ parser' = parser /\ inbox' = TornHead(Unhandled(inbox, m))
      /\ pc = "esc" => ui' = Escape(ui)
      /\ ui' \in {ui, Escape(ui), Answered(ui)}
  BY DEF Silence
<1>2. inbox # <<>> /\ Spread(inbox) /\ Headed(inbox, Left, pc, skip, parser)
  BY Zenon, <1>1 DEF Orderly, Synced, InStep, Astray, Resting
<1>3. m \in Nat /\ Left \in Nat /\ inbox \in Seq(Entry) /\ s \in Nat /\ Left <= s
  BY LeftOver
<1>4. Unread = m
  BY <1>1, ClearedText
<1>5. Left = m
  <2>1. Left = Len(tty) + m /\ Len(tty) = 0
    BY <1>1, EmptySeq DEF Left
  <2> HIDE DEF m
  <2> QED BY <1>3, <2>1
<1>6. First \in Events /\ s = l + n /\ l \in Nat \ {0} /\ Tail(inbox) \in Seq(Entry)
  BY <1>2, <1>3, BytesHead DEF First, Entry
<1>7. n \in Nat
  BY <1>6, BytesText
<1>8. /\ k < l \/ (First.type = "esc" /\ k = 1)
      /\ k = s - m
  <2>1. k < l \/ (First.type = "esc" /\ k = 1)
    BY Zenon, <1>2 DEF Headed, First, Seen
  <2>2. k = s - m
    BY Zenon, <1>5 DEF Seen
  <2> QED BY <2>1, <2>2
<1>9. /\ \/ AtEsc(First, k, pc, parser) \/ AtCsi(First, k, pc, parser)
         \/ AtSkip(First, k, pc, skip, parser)
  BY Zenon, <1>1, <1>2 DEF Headed, First, Seen, Place, AtStart, AtDrag, Resting
<1>10. parser.state = 0 /\ k \in {1, 2} \cup {x \in Int : x >= 2}
  <2>1. parser.state = 0 /\ (k = 1 \/ k = 2 \/ k >= 2)
    BY Zenon, <1>9 DEF AtEsc, AtCsi, AtSkip
  <2>2. k \in Int
    BY <1>3, <1>8
  <2> HIDE DEF k
  <2> QED BY <2>1, <2>2
<1>11. Resting(pc', parser')
  BY <1>1, <1>10 DEF Resting
<1> HIDE DEF e, l, k, m, s, n
<1>12. CASE k < l
  <2>1. n < m /\ m < s /\ m <= s
    BY <1>3, <1>6, <1>7, <1>8, <1>10, <1>12
  <2>2. Unhandled(inbox, m) = inbox
    BY <1>2, <1>3, <2>1, Stays DEF n, s
  <2>3. inbox' = TornHead(inbox)
    BY <1>1, <2>2
  <2>4. First.type # "key"
    <3>1. l > 1
      BY <1>6, <1>8, <1>10, <1>12
    <3>2. l # 1
      BY <3>1
    <3> QED BY Zenon, <3>2, KeyIsByte DEF l, e
  <2> QED BY Zenon, <1>1, <1>2, <1>3, <1>4, <1>11, <2>1, <2>3, <2>4, Tears DEF n, s
<1>13. CASE ~(k < l)
  <2>1. First.type = "esc" /\ k = 1
    BY <1>8, <1>13
  <2>2. l = 1
    BY <1>6, <1>13, <2>1
  <2>3. m = n
    BY <1>3, <1>6, <1>7, <1>8, <2>1, <2>2
  <2>4. Tail(inbox) = <<>>
    <3>1. Len(inbox) \in Nat /\ Len(inbox) > 0
      BY <1>2, <1>3, EmptySeq, LenProperties
    <3>2. ~(1 < Len(inbox))
      <4>1. 1 = Len(inbox)
        BY Zenon, <1>2, <1>3, <2>1, OpenAlone DEF Promise!Open, Orderly
      <4> QED BY <4>1
    <3>3. Len(Tail(inbox)) = 0
      <4> DEFINE x == Len(inbox)
                 y == Len(Tail(inbox))
      <4>1. y = x - 1
        BY <1>2, <1>3, BytesHead
      <4>2. x \in Nat /\ x > 0 /\ ~(1 < x)
        BY <3>1, <3>2
      <4> HIDE DEF x, y
      <4>3. y = 0
        BY <4>1, <4>2
      <4> QED BY <4>3 DEF y
    <3> QED BY <1>6, <3>3, EmptySeq
  <2>5. inbox' = <<>>
    <3>1. Unhandled(inbox, m) = Tail(inbox)
      BY <1>2, <1>3, <2>3, Shifts DEF n
    <3>2. TornHead(<<>>) = <<>>
      BY DEF TornHead
    <3> QED BY <1>1, <2>4, <3>1, <3>2
  <2>6. Synced'
    <3>1. Spread(<<>>)
      <4>1. Len(<<>>) = 0 /\ \A i \in 1 .. 0 : FALSE
        BY EmptySeq
      <4> QED BY Zenon, <4>1 DEF Spread
    <3>2. parser'.state = 0
      BY <1>1, <1>10
    <3>3. InStep(<<>>, Unread, pc', skip', parser', ui'.view)
      BY Zenon, <1>11, <3>1, <3>2 DEF InStep
    <3> QED BY Zenon, <2>5, <3>3, SyncedNext
  <2>7. pc = "esc"
    <3>1. ~(k >= 2) /\ k # 2
      BY <2>1
    <3> QED BY Zenon, <1>9, <3>1 DEF AtEsc, AtCsi, AtSkip
  <2>8. ~inbox[1].torn
    BY Zenon, <1>2, <1>3, <2>1, OpenAlone DEF Promise!Open, Orderly
  <2>9. ui.view = "none"
    BY <1>1 DEF KeyInv, LoopOK, ViewsInLoop
  <2>10. ui' \in Promise!Effect(ui, First)
    <3>1. Promise!Effect(ui, First) = {Escape(ui)}
      BY Zenon, <2>1, <2>9, EscEffect
    <3> QED BY <1>1, <2>7, <3>1
  <2>11. ui'.view \in {"none", ui.view}
    <3>1. UiOK(ui)
      BY DEF KeyInv, LoopOK
    <3>2. ui'.view = ui.view
      BY Zenon, <1>1, <2>7, <3>1, EscapeUi
    <3> QED BY <3>2
  <2>12. Promise!Next
    BY Zenon, <1>2, <1>3, <2>4, <2>5, <2>8, <2>10, <2>11, Handles
  <2> QED BY <2>6, <2>12 DEF Faithful, Promised
<1> QED BY <1>12, <1>13

\* While a preview or a replay has the screen, the loop rests.
LEMMA Viewing ==
  ASSUME KeyInv, Orderly, ui.view # "none"
  PROVE  /\ pc = "loop" /\ pc # "end" /\ parser.state = 0
         /\ tty # <<>> => Seen = 0 \/ inbox[1].torn
<1>1. pc = "loop" /\ pc # "end" /\ pc # "esc" /\ pc # "csi" /\ pc # "skip"
  BY DEF KeyInv, LoopOK, ViewsInLoop
<1>2. parser.state = 0
  BY Zenon, <1>1 DEF Orderly, Synced, InStep
<1>3. ASSUME tty # <<>> PROVE Seen = 0 \/ inbox[1].torn
  <2>1. IsKey
    BY <1>2 DEF IsKey
  <2> QED BY Zenon, <1>1, <1>3, <2>1, KeyByte
<1> QED BY <1>1, <1>2, <1>3

\* A byte taken as "any key".
LEMMA ViewKeyFaithful ==
  ASSUME KeyInv, KeyInv', Orderly, ViewKey
  PROVE  Faithful
<1> DEFINE l == Len(Encoding(First))
           k == Seen
           s == Size(inbox)
           n == Size(Tail(inbox))
<1>1. /\ ui.view \in {"preview", "footer"} /\ ui.view # "none" /\ Read /\ ui' = Answered(ui) /\ tty # <<>>
      /\ inbox' = Cut(Unhandled(inbox, Unread), Unread) /\ pc' = pc /\ parser' = parser
  BY DEF ViewKey, Read
<1>2. pc = "loop" /\ pc # "end" /\ parser.state = 0
  BY Zenon, <1>1, Viewing
<1>3. Resting(pc', parser')
  BY <1>1, <1>2 DEF Resting
<1>4. ReadOn
  BY <1>1, <1>2, ReadsOn
<1>5. /\ inbox # <<>> /\ Spread(inbox) /\ First \in Events /\ k \in Nat /\ k < l
      /\ inbox \in Seq(Entry) /\ s \in Nat
  BY Zenon, <1>1, <1>2, Reading, LeftOver
<1>6. /\ Unread \in Nat /\ Unread = s - (k + 1)
      /\ k + 1 < l => Unhandled(inbox, Unread) = inbox /\ n < Unread
      /\ k + 1 = l => Unhandled(inbox, Unread) = Tail(inbox) /\ Unread = n
  BY Zenon, <1>4 DEF ReadOn
<1>7. l \in Nat
  BY Zenon, <1>5, FormIs
<1> HIDE DEF k, l, s, n
<1>8. CASE k + 1 < l
  <2>1. Unread < s
    BY <1>5, <1>6
  <2>2. inbox' = TornHead(inbox)
    BY Zenon, <1>1, <1>6, <1>8, <2>1 DEF Cut, s
  <2>3. First.type # "key" /\ ui' \in {ui, Escape(ui), Answered(ui)}
    <3>1. l # 1
      BY <1>5, <1>7, <1>8
    <3> QED BY Zenon, <1>1, <3>1, KeyIsByte DEF l
  <2> QED BY Zenon, <1>3, <1>5, <1>6, <1>8, <2>1, <2>2, <2>3, Tears DEF n, s
<1>9. CASE k + 1 = l
  <2>1. inbox' = Unhandled(inbox, Unread)
    <3>1. n \in Nat
      <4>1. Tail(inbox) \in Seq(Entry)
        BY <1>5, BytesHead
      <4> QED BY <4>1, BytesText DEF n
    <3>2. ~(Unread < n)
      BY <1>6, <1>9, <3>1
    <3> QED BY Zenon, <1>1, <1>6, <1>9, <3>2 DEF Cut, n
  <2>2. CASE inbox[1].torn
    BY Zenon, <1>1, <1>2, <1>3, <2>1, <2>2, TornReads
  <2>3. CASE ~inbox[1].torn
    <3>1. ui' \in Promise!Effect(ui, First)
      <4>1. Promise!Effect(ui, First) = {Answered(ui)}
        BY Zenon, <1>1, ViewEffect
      <4> QED BY <1>1, <4>1
    <3>2. ui'.view \in {"none", ui.view}
      <4>1. UiOK(ui)
        BY DEF KeyInv, LoopOK
      <4>2. Answered(ui) = [ui EXCEPT !.view = "none"]
        BY <1>1 DEF Answered
      <4> QED BY <1>1, <4>1, <4>2 DEF UiOK
    <3> QED BY Zenon, <1>1, <1>2, <1>3, <1>9, <2>1, <3>1, <3>2, LastByte DEF k, l
  <2> QED BY <2>2, <2>3
<1>10. k + 1 < l \/ k + 1 = l
  BY <1>5, <1>7
<1> QED BY <1>8, <1>9, <1>10

LEMMA AbortPlayFaithful ==
  ASSUME KeyInv, KeyInv', Orderly, AbortPlay
  PROVE  Faithful
<1>1. /\ ui.view = "playing" /\ ui.view # "none" /\ tty # <<>> /\ ui' = Answered(ui) /\ tty' = <<>>
      /\ DrainedInbox /\ sending' = sending /\ pc' = pc /\ parser' = parser
  BY DEF AbortPlay
<1>2. pc = "loop" /\ pc # "end" /\ parser.state = 0
  BY Zenon, <1>1, Viewing
<1>3. Resting(pc', parser')
  BY <1>1, <1>2 DEF Resting
<1>4. inbox # <<>> /\ inbox \in Seq(Entry) /\ DOMAIN ui' = DOMAIN ui
  BY Zenon, <1>1, <1>2, Reading, LeftOver, SameFields
<1>5. /\ Synced'
      /\ \/ inbox' \in Promise!Drained(Tail(inbox))
         \/ Len(sending) > Size(Tail(inbox)) /\ inbox' = TornHead(inbox)
  BY Zenon, <1>1, <1>2, <1>3, ThrowsAway
<1>6. ui'.view \notin {"none", ui.view}
  <2>1. UiOK(ui)
    BY DEF KeyInv, LoopOK
  <2>2. Answered(ui) = [ui EXCEPT !.view = "footer"]
    BY <1>1 DEF Answered
  <2>3. ui'.view = "footer"
    BY <1>1, <2>1, <2>2 DEF UiOK
  <2> QED BY <1>1, <2>3
<1>7. CASE Len(sending) > Size(Tail(inbox)) /\ inbox' = TornHead(inbox)
  <2> DEFINE m == Len(sending)
             n == Size(Tail(inbox))
             l == Len(Encoding(First))
             s == Size(inbox)
             a == Len(tty)
  <2>1. a \in Nat /\ m \in Nat /\ Left \in Nat /\ s \in Nat /\ Left <= s /\ a > 0
    BY <1>1, LeftOver
  <2>2. s = l + n /\ l \in Nat \ {0} /\ Tail(inbox) \in Seq(Entry)
    BY <1>4, BytesHead DEF First
  <2>3. n \in Nat
    BY <2>2, BytesText
  <2>4. Left = a + m /\ m > n
    BY <1>7 DEF Left
  <2> HIDE DEF m, n, l, s, a
  <2>5. l # 1
    BY <2>1, <2>2, <2>3, <2>4
  <2>6. First.type # "key" /\ ui' \in {ui, Escape(ui), Answered(ui)}
    BY Zenon, <1>1, <2>5, KeyIsByte DEF l
  <2>7. Promise!Next
    BY Zenon, <1>4, <1>7, <2>6, TearsHead
  <2> QED BY <1>5, <2>7 DEF Faithful, Promised
<1>8. CASE inbox' \in Promise!Drained(Tail(inbox)) /\ inbox[1].torn
  <2>1. Promise!Next
    BY Zenon, <1>4, <1>6, <1>8, Misreads
  <2> QED BY <1>5, <2>1 DEF Faithful, Promised
<1>9. CASE inbox' \in Promise!Drained(Tail(inbox)) /\ ~inbox[1].torn
  <2>1. ui' \in Promise!Effect(ui, First)
    <3>1. Promise!Effect(ui, First) = {Answered(ui)}
      BY Zenon, <1>1, ViewEffect
    <3> QED BY <1>1, <3>1
  <2>2. Promise!Next
    BY Zenon, <1>4, <1>6, <1>9, <2>1, Handles
  <2> QED BY <1>5, <2>2 DEF Faithful, Promised
<1> QED BY <1>5, <1>7, <1>8, <1>9

\* A recording that ends throws away what was typed ahead.
LEMMA PlayedOutFaithful ==
  ASSUME KeyInv, Synced, PlayedOut
  PROVE  Faithful
<1> DEFINE m == Len(sending)
<1>1. /\ ui.view = "playing" /\ ui.view # "none" /\ ui' = Played(ui) /\ tty' = <<>>
      /\ DrainedInbox /\ sending' = sending /\ pc' = pc /\ parser' = parser
  BY DEF PlayedOut
<1>2. pc = "loop" /\ pc # "end" /\ parser.state = 0
  <2>1. pc = "loop" /\ pc # "end"
    BY <1>1 DEF KeyInv, LoopOK, ViewsInLoop
  <2> QED BY Zenon, <1>1, <2>1 DEF Synced, InStep
<1>3. Resting(pc', parser')
  BY <1>1, <1>2 DEF Resting
<1>4. /\ Len(tty) \in Nat /\ m \in Nat /\ Left \in Nat /\ inbox \in Seq(Entry)
      /\ Size(inbox) \in Nat /\ Left <= Size(inbox)
  BY LeftOver
<1>5. Unread = m /\ Left = Len(tty) + m
  BY <1>1, ClearedText DEF Left
<1>6. Spread(inbox)
  BY Zenon, <1>2 DEF Synced, InStep
<1>7. m <= Size(inbox)
  <2> HIDE DEF m
  <2> QED BY <1>4, <1>5
<1> DEFINE c == Cut(Unhandled(inbox, m), m)
<1>9. c \in Promise!Drained(inbox) /\ c \in Seq(Entry) /\ Spread(c) /\ Resumable(c, m)
  <2> HIDE DEF m
  <2> QED BY <1>4, <1>6, <1>7, Drains
<1>10. inbox' = c
  BY Zenon, <1>1 DEF DrainedInbox
<1> HIDE DEF c, m
<1>11. Size(c) \in Nat
  BY <1>9, BytesText
<1>12. InStep(c, m, pc', skip', parser', ui'.view)
  BY <1>3, <1>4, <1>9, <1>11, Resumes
<1>13. Synced'
  BY Zenon, <1>5, <1>10, <1>12, SyncedNext
<1>14. Promise!Next
  <2>1. ui' = Promise!Played(ui)
    BY <1>1, SameAnswers
  <2> QED BY Zenon, <1>1, <1>9, <1>10, <2>1 DEF Promise!PlayedOut, Promise!Next
<1> QED BY <1>13, <1>14 DEF Faithful, Promised

\* What is done behind an event the loop is open to is torn.
LEMMA DoneSpread ==
  ASSUME NEW box \in Seq(Entry), Spread(box), NEW e \in Events, NEW d, DoneOf(box, e, d)
  PROVE  Spread(d) /\ (Lost(box) => Lost(d)) /\ (box # <<>> /\ Promise!Open(box[1].ev) => Lost(d))
<1> DEFINE b == Len(box)
           w == Promise!RunsOn(box)
<1>1. b \in Nat /\ DOMAIN box = 1 .. b /\ (box # <<>> <=> b > 0)
  BY EmptySeq, LenProperties
<1>2. /\ Len(d) = b + 1 /\ d[b + 1].ev = e /\ d \in Seq(Entry)
      /\ \A i \in 1 .. b : d[i].ev = box[i].ev /\ (box[i].torn => d[i].torn) /\ (i < b => d[i] = box[i])
      /\ w => d[b].torn /\ d[b + 1].torn
      /\ ~w => (\A i \in 1 .. b : d[i] = box[i]) /\ d[b + 1] = Promise!New(e)
  BY Zenon DEF DoneOf
<1>3. w <=> \E i \in 1 .. b : Promise!Open(box[i].ev)
  BY <1>1 DEF Promise!RunsOn
<1>4. \A i \in 1 .. b : EntrySpread(box, i)
  BY DEF Spread
<1> HIDE DEF b, w
<1>5. ASSUME NEW i \in 1 .. b, Promise!Open(box[i].ev)
      PROVE  \A j \in i .. b + 1 : d[j].torn
  <2>1. w
    BY Zenon, <1>3, <1>5
  <2>2. i = b \/ \A j \in i .. b : box[j].torn
    BY Zenon, <1>4, <1>5 DEF EntrySpread, b
  <2>3. \A j \in i .. b + 1 : j = b + 1 \/ j = b \/ (j \in 1 .. b /\ j \in i .. b /\ i # b)
    BY <1>1
  <2> QED BY Zenon, <1>2, <2>1, <2>2, <2>3
<1>6. ASSUME NEW i \in 1 .. b + 1 PROVE EntrySpread(d, i)
  <2>1. CASE i = b + 1
    <3>1. CASE w
      <4>1. \A j \in i .. Len(d) : j = b + 1
        BY <1>1, <1>2, <2>1
      <4> QED BY Zenon, <1>2, <2>1, <3>1, <4>1 DEF EntrySpread
    <3>2. CASE ~w
      <4>1. d[i].torn <=> (e.type = "unbound" /\ ~Promise!Swallowed(e.bytes))
        <5>1. d[b + 1] = Promise!New(e)
          BY Zenon, <1>2, <3>2
        <5>2. d[i] = [ev |-> e, torn |-> e.type = "unbound" /\ ~Promise!Swallowed(e.bytes)]
          BY Zenon, <2>1, <5>1 DEF Promise!New
        <5> DEFINE x == e.type = "unbound" /\ ~Promise!Swallowed(e.bytes)
        <5> HIDE DEF x
        <5>3. d[i] = [ev |-> e, torn |-> x] /\ x \in BOOLEAN
          BY Zenon, <5>2 DEF x
        <5>4. d[i].torn = x
          BY <5>3
        <5> QED BY Zenon, <5>4 DEF x
      <4>2. \A j \in i .. Len(d) : j = i
        BY <1>1, <1>2, <2>1
      <4>3. Promise!Open(e) => e.type = "esc" \/ (e.type = "unbound" /\ ~Promise!Swallowed(e.bytes))
        BY Zenon DEF Promise!Open
      <4> QED BY Zenon, <1>2, <2>1, <4>1, <4>2, <4>3 DEF EntrySpread
    <3> QED BY <3>1, <3>2
  <2>2. CASE i # b + 1
    <3>1. i \in 1 .. b
      BY <1>1, <2>2
    <3>2. EntrySpread(box, i) /\ d[i].ev = box[i].ev /\ (box[i].torn => d[i].torn)
      BY Zenon, <1>2, <1>4, <3>1
    <3>3. Promise!Open(box[i].ev) => \A j \in i .. Len(d) : d[j].torn
      BY Zenon, <1>2, <1>5, <3>1
    <3> QED BY Zenon, <3>2, <3>3 DEF EntrySpread
  <2> QED BY <2>1, <2>2
<1>7. Spread(d)
  BY Zenon, <1>2, <1>6 DEF Spread
<1>8. ASSUME box # <<>>, Promise!Open(box[1].ev) PROVE Lost(d)
  <2>1. 1 \in 1 .. b
    BY <1>1, <1>8
  <2>2. Torn(d) /\ d[1].ev = box[1].ev
    BY Zenon, <1>2, <1>5, <1>8, <2>1 DEF Torn
  <2>3. d # <<>>
    <3>1. Len(d) # 0
      BY <1>1, <1>2
    <3> QED BY Zenon, <3>1, EmptySeq
  <2> QED BY Zenon, <1>8, <2>2, <2>3 DEF Lost
<1> QED BY Zenon, <1>7, <1>8 DEF Lost

LEMMA DoneInStep ==
  ASSUME NEW box, inbox' = box, box # <<>>, Spread(box), pc' = pc, skip' = skip, parser' = parser, ui' = ui,
         Lost(box) \/ Headed(box, Unread, pc, skip, parser),
         pc # "loop" => parser.state = 0, ui.view # "none" => parser.state = 0, Promise!Next
  PROVE  Faithful
<1>1. InStep(inbox', Unread, pc', skip', parser', ui'.view)
  BY Zenon DEF InStep, Astray
<1> QED BY <1>1, SyncedNext DEF Faithful, Promised

LEMMA DoFaithful ==
  ASSUME KeyInv, Synced, NEW e \in Events, Do(e)
  PROVE  Faithful
<1> DEFINE box == Promise!Done(inbox, e)
           l == Len(Encoding(e))
           b == Len(inbox)
<1>1. /\ Len(inbox) < MaxPending /\ sending = <<>> /\ sending' = Encoding(e) /\ tty' = tty
      /\ inbox' = box /\ pc' = pc /\ skip' = skip /\ parser' = parser /\ ui' = ui
  BY DEF Do
<1>2. Promise!Next
  <2>1. Promise!Do(e)
    BY <1>1 DEF Promise!Do
  <2> QED BY <2>1 DEF Promise!Next
<1>3. /\ Len(tty) \in Nat /\ Left \in Nat /\ inbox \in Seq(Entry) /\ b \in Nat
      /\ Size(inbox) \in Nat /\ Left <= Size(inbox)
  BY LeftOver, LenProperties
<1>4. l \in Nat \ {0} /\ Encoding(e) \in Seq(Byte)
  BY EncodingIs
<1>5. Left = Len(tty) /\ Unread = Len(tty) + l
  <2>1. Left = Len(tty) + Len(sending) /\ Len(sending) = 0
    BY <1>1, EmptySeq DEF Left
  <2>2. Unread = Len(tty) + l
    BY Zenon, <1>1 DEF Unread
  <2> HIDE DEF l
  <2> QED BY <1>3, <2>1, <2>2
<1>6. DoneOf(inbox, e, box)
  BY <1>3, DoneIs
<1> HIDE DEF box
<1>7. Size(box) = Size(inbox) + l
  <2>1. Bytes(box) = Bytes(inbox) \o Encoding(e)
    BY Zenon, <1>6 DEF DoneOf
  <2>2. Bytes(inbox) \in Seq(Byte)
    BY <1>3, BytesText
  <2> QED BY Zenon, <1>4, <2>1, <2>2, ConcatAt DEF Size
<1>8. Size(box) - Unread = Size(inbox) - Left
  <2> DEFINE p == Size(box)
             q == Size(inbox)
             t == Len(tty)
  <2>1. p = q + l /\ q \in Nat /\ t \in Nat /\ l \in Nat /\ Left = t /\ Unread = t + l
    BY <1>3, <1>4, <1>5, <1>7
  <2> HIDE DEF p, q, t, l
  <2>2. p - Unread = q - Left
    BY <2>1
  <2> QED BY <2>2 DEF p, q
<1>9. CASE pc = "end"
  BY <1>1, <1>2, <1>9, SyncedNext DEF InStep, Faithful, Promised
<1>10. CASE pc # "end"
  <2>1. /\ Spread(inbox) /\ (inbox = <<>> => Resting(pc, parser))
        /\ (inbox # <<>> /\ ~Lost(inbox) => Headed(inbox, Left, pc, skip, parser))
        /\ (Lost(inbox) => Astray(inbox, pc, parser))
        /\ (ui.view # "none" => parser.state = 0)
    BY Zenon, <1>10 DEF Synced, InStep, Astray, Lost
  <2>2. /\ Spread(box) /\ (Lost(inbox) => Lost(box))
        /\ (inbox # <<>> /\ Promise!Open(inbox[1].ev) => Lost(box))
    BY Zenon, <1>3, <1>6, <2>1, DoneSpread
  <2>3. box # <<>> /\ (inbox = <<>> => box[1].ev = e)
        /\ (inbox # <<>> => box[1].ev = inbox[1].ev /\ (inbox[1].torn => box[1].torn))
    <3>1. /\ Len(box) = b + 1 /\ box[b + 1].ev = e
          /\ \A i \in 1 .. b : box[i].ev = inbox[i].ev /\ (inbox[i].torn => box[i].torn)
      BY Zenon, <1>6 DEF DoneOf
    <3>2. (inbox = <<>> => b + 1 = 1) /\ (inbox # <<>> => 1 \in 1 .. b) /\ Len(box) # 0
      BY <1>3, <3>1, EmptySeq
    <3>3. Len(<<>>) = 0
      BY EmptySeq
    <3> HIDE DEF b
    <3> QED BY Zenon, <3>1, <3>2, <3>3
  <2>4. CASE inbox = <<>>
    <3>1. Resting(pc, parser)
      BY <2>1, <2>4
    <3>2. Size(box) - Unread = 0
      <4>1. Size(inbox) = 0
        BY <2>4, BytesNone, EmptySeq DEF Size
      <4>2. Left = 0
        BY <1>3, <4>1
      <4> QED BY <1>8, <4>1, <4>2
    <3>3. 0 < l
      BY <1>4
    <3>4. Headed(box, Unread, pc, skip, parser)
      BY Zenon, <2>3, <2>4, <3>1, <3>2, <3>3 DEF Headed, Place, AtStart, l
    <3>5. pc = "loop"
      BY <3>1 DEF Resting
    <3> QED BY Zenon, <2>1, <2>2, <2>3, <3>4, <3>5, DoneInStep, <1>1, <1>2
  <2>5. CASE inbox # <<>>
    <3>1. CASE Lost(inbox)
      <4>1. pc # "loop" => parser.state = 0
        BY Zenon, <2>1, <3>1 DEF Astray
      <4>2. Lost(box)
        BY <2>2, <3>1
      <4> QED BY Zenon, <1>1, <1>2, <2>1, <2>2, <2>3, <4>1, <4>2, DoneInStep
    <3>2. CASE ~Lost(inbox)
      <4>1. Headed(inbox, Left, pc, skip, parser)
        BY <2>1, <2>5, <3>2
      <4>2. Headed(box, Unread, pc, skip, parser)
        BY Zenon, <1>8, <2>3, <2>5, <4>1 DEF Headed
      <4>3. pc # "loop" => parser.state = 0
        BY Zenon, <4>1 DEF Headed, Place, AtStart, AtEsc, AtCsi, AtSkip, AtDrag, Resting
      <4> QED BY Zenon, <1>1, <1>2, <2>1, <2>2, <2>3, <4>2, <4>3, DoneInStep
    <3> QED BY <3>1, <3>2
  <2> QED BY <2>4, <2>5
<1> QED BY <1>9, <1>10

\* A step that changes none of what the loop has read.
LEMMA StaysInStep ==
  ASSUME Synced, Unread = Left, inbox' = inbox, pc' = pc, skip' = skip, parser' = parser,
         ui'.view = ui.view
  PROVE  Synced'
<1>1. InStep(inbox', Unread, pc', skip', parser', ui'.view)
  BY Zenon DEF Synced
<1> QED BY <1>1, SyncedNext

LEMMA ArriveFaithful ==
  ASSUME KeyInv, Synced, Arrive
  PROVE  Faithful
<1>1. /\ sending # <<>> /\ tty' = Append(tty, Head(sending)) /\ sending' = Tail(sending) /\ pc' = pc
      /\ skip' = skip /\ parser' = parser /\ ui' = ui /\ inbox' = inbox
  BY DEF Arrive
<1>2. tty \in Seq(Byte) /\ sending \in Seq(Byte)
  BY DEF KeyInv, TextOK
<1>3. Len(tty') = Len(tty) + 1 /\ Len(sending') = Len(sending) - 1
  BY <1>1, <1>2, HeadTailProperties, AppendProperties
<1>4. Len(tty) \in Nat /\ Len(sending) \in Nat
  BY <1>2, LenProperties
<1>5. Unread = Left
  <2> DEFINE a == Len(tty)
             b == Len(sending)
  <2>1. Unread = (a + 1) + (b - 1) /\ Left = a + b
    BY <1>3 DEF Unread, Left
  <2>2. a \in Nat /\ b \in Nat
    BY <1>4
  <2> HIDE DEF a, b
  <2> QED BY <2>1, <2>2
<1>6. Synced'
  BY <1>1, <1>5, StaysInStep
<1> QED BY <1>1, <1>6 DEF Faithful, Promised

LEMMA InterruptFaithful ==
  ASSUME KeyInv, Synced, Interrupt
  PROVE  Faithful
<1>1. /\ ui' = [ui EXCEPT !.running = FALSE] /\ tty' = tty /\ sending' = sending /\ pc' = pc
      /\ skip' = skip /\ parser' = parser /\ inbox' = inbox
  BY DEF Interrupt
<1>2. Unread = Left
  BY <1>1 DEF Unread, Left
<1>3. ui'.view = ui.view
  <2>1. UiOK(ui)
    BY DEF KeyInv, LoopOK
  <2>2. [ui EXCEPT !.running = FALSE].view = ui.view
    BY <2>1 DEF UiOK
  <2> QED BY <1>1, <2>2
<1>4. Synced'
  BY <1>1, <1>2, <1>3, StaysInStep
<1>5. Promise!Next
  BY <1>1 DEF Promise!Interrupt, Promise!Next
<1> QED BY <1>4, <1>5 DEF Faithful, Promised

LEMMA LeaveFaithful ==
  ASSUME Synced, Leave
  PROVE  Faithful
<1>1. pc' = "end" /\ ui' = ui /\ inbox' = inbox
  BY DEF Leave
<1>2. Synced'
  BY <1>1, SyncedNext DEF InStep
<1> QED BY <1>1, <1>2 DEF Faithful, Promised

-----------------------------------------------------------------------------
(* Behind an event the loop is open to *)

LEMMA UnreadFits ==
  ASSUME KeyInv, Shortened
  PROVE  Unread \in Nat /\ Unread <= Size(inbox) /\ inbox \in Seq(Entry)
<1> DEFINE r == tty' \o sending'
<1>1. r \in Seq(Byte) /\ Unread = Len(r) /\ IsEnd(r, Bytes(inbox)) /\ inbox \in Seq(Entry)
  BY DEF Shortened
<1> HIDE DEF r
<1>2. PICK a \in Seq(Byte) : Bytes(inbox) = a \o r
  BY <1>1 DEF IsEnd, EndIn
<1>3. Len(Bytes(inbox)) = Len(a) + Len(r) /\ Len(a) \in Nat /\ Len(r) \in Nat
  BY <1>1, <1>2, ConcatAt, LenProperties
<1>4. Size(inbox) = Len(Bytes(inbox))
  BY DEF Size
<1> QED BY <1>1, <1>3, <1>4

\* Whatever is made of its bytes and of those behind it, only torn events are
\* misread, and the next whole one is found where it begins.
LEMMA Strays ==
  ASSUME KeyInv, KeyInv', Synced, Lost(inbox), pc # "end", Shortened, Follows(Unread),
         inbox' = inbox \/ pc' = "end" \/ Resting(pc', parser'),
         pc' \in {"loop", "end"} \/ parser'.state = 0,
         ui'.view = "none" \/ parser'.state = 0
  PROVE  Faithful
<1> DEFINE q == Unhandled(inbox, Unread)
<1>1. Unread \in Nat /\ Unread <= Size(inbox) /\ inbox \in Seq(Entry)
  BY UnreadFits
<1>2. inbox # <<>> /\ Torn(inbox) /\ Spread(inbox) /\ inbox[1].torn
  <2>1. inbox # <<>> /\ Torn(inbox)
    BY Zenon DEF Lost
  <2>2. Spread(inbox)
    BY Zenon DEF Synced, InStep
  <2>3. 1 \in 1 .. Len(inbox)
    BY <1>1, <2>1, EmptySeq
  <2> QED BY Zenon, <2>1, <2>2, <2>3 DEF Torn
<1>3. LastOf(inbox, Unread, q)
  BY <1>1, <1>2, LastBytes
<1>4. inbox' \in {inbox, q, Cut(q, Unread), TornHead(q)}
  BY DEF Follows
<1> HIDE DEF q
<1>5. /\ q \in Seq(Entry) /\ q \in Suffixes(inbox) /\ Spread(q) /\ Torn(q)
      /\ Size(q) \in Nat /\ Unread <= Size(q)
      /\ q # <<>> => Size(q) - Unread < Len(Encoding(q[1].ev))
  BY Zenon, <1>2, <1>3 DEF LastOf
<1>6. q # <<>> => q[1].torn
  <2>1. q # <<>> => 1 \in 1 .. Len(q)
    BY <1>5, EmptySeq
  <2> QED BY Zenon, <1>5, <2>1 DEF Torn
<1>7. TornHead(q) = q /\ Cut(q, Unread) = q
  <2>1. TornHead(q) = q
    <3>1. CASE q = <<>>
      BY <3>1 DEF TornHead
    <3>2. CASE q # <<>>
      BY Zenon, <1>5, <1>6, <3>2, TornSpread
    <3> QED BY <3>1, <3>2
  <2> QED BY <2>1 DEF Cut
<1>8. inbox' = inbox \/ inbox' = q
  BY <1>4, <1>7
<1>9. DOMAIN ui' = DOMAIN ui
  BY SameFields
<1>10. CASE inbox' = inbox
  <2>1. pc' # "loop" /\ pc' # "end" => parser'.state = 0
    OBVIOUS
  <2>2. InStep(inbox', Unread, pc', skip', parser', ui'.view)
    BY Zenon, <1>2, <1>10, <2>1 DEF InStep, Astray
  <2>3. inbox' \in {inbox, Tail(inbox)}
    BY <1>10
  <2>4. Promise!Next
    BY Zenon, <1>1, <1>2, <1>9, <2>3, Misreads
  <2> QED BY <2>2, <2>4, SyncedNext DEF Faithful, Promised
<1>11. CASE inbox' = q /\ inbox' # inbox
  <2>1. Resumable(q, Unread)
    BY Zenon, <1>5, <1>6 DEF Resumable
  <2>2. pc' = "end" \/ Resting(pc', parser')
    BY <1>11
  <2>3. InStep(q, Unread, pc', skip', parser', ui'.view)
    BY <1>1, <1>5, <2>1, <2>2, Resumes
  <2>4. Synced'
    BY Zenon, <1>11, <2>3, SyncedNext
  <2>5. Len(inbox') \in Nat /\ inbox' \in Suffixes(inbox)
    BY <1>5, <1>11, LenProperties
  <2>6. Promise!Next
    BY Zenon, <1>1, <1>2, <1>9, <2>5, Misreads
  <2> QED BY <2>4, <2>6 DEF Faithful, Promised
<1> QED BY <1>8, <1>10, <1>11

LEMMA SettledStrays ==
  ASSUME Settled
  PROVE  Follows(Unread) /\ (inbox' = inbox \/ Resting(pc', parser'))
  BY DEF Settled, Follows, Resting

\* Each step that reads or throws away.
LEMMA AstrayFaithful ==
  ASSUME KeyInv, KeyInv', Synced, Lost(inbox),
         \/ FeedMore \/ FeedDone \/ ReadEsc \/ ReadKey \/ AfterEsc \/ AfterCsi
         \/ Swallow \/ Silence \/ ViewKey \/ AbortPlay
  PROVE  Faithful
<1>1. pc # "loop" /\ pc # "end" => parser.state = 0
  BY Zenon DEF Synced, InStep, Lost, Astray
<1>2. pc # "end" /\ ui.view # "none" => parser.state = 0
  BY Zenon DEF Synced, InStep
<1>3. ui.view # "none" => pc = "loop"
  BY DEF KeyInv, LoopOK, ViewsInLoop
<1>4. CASE FeedMore
  <2>1. pc = "loop" /\ ui.view = "none" /\ Read /\ Settled /\ pc' = pc /\ ui' = ui
    BY <1>4 DEF FeedMore, InLoop
  <2>2. Shortened
    BY <2>1, ReadText
  <2>3. pc # "end" /\ pc' \in {"loop", "end"} /\ ui'.view = "none"
    BY <2>1
  <2> QED BY Zenon, <2>1, <2>2, <2>3, SettledStrays, Strays
<1>5. CASE FeedDone
  <2>1. /\ pc = "loop" /\ ui.view = "none" /\ Read /\ inbox' = Unhandled(inbox, Unread)
        /\ pc' \in {"loop", "end"} /\ parser' = NoReport
    BY <1>5 DEF FeedDone, InLoop
  <2>2. Shortened /\ Follows(Unread)
    BY <2>1, ReadText DEF Follows
  <2>3. parser'.state = 0 /\ pc # "end"
    BY <2>1 DEF NoReport
  <2>4. pc' = "end" \/ Resting(pc', parser')
    BY <2>1, <2>3 DEF Resting
  <2> QED BY Zenon, <2>1, <2>2, <2>3, <2>4, Strays
<1>6. CASE ReadEsc
  <2>1. pc = "loop" /\ Read /\ inbox' = inbox /\ parser' = NoReport
    BY <1>6 DEF ReadEsc, InLoop
  <2>2. Shortened /\ Follows(Unread)
    BY <2>1, ReadText DEF Follows
  <2>3. parser'.state = 0 /\ pc # "end"
    BY <2>1 DEF NoReport
  <2> QED BY Zenon, <2>1, <2>2, <2>3, Strays
<1>7. CASE ReadKey
  <2>1. pc = "loop" /\ parser' = NoReport /\ pc' = pc
    BY <1>7 DEF ReadKey
  <2>2. parser'.state = 0 /\ pc # "end" /\ Resting(pc', parser')
    BY <2>1 DEF NoReport, Resting
  <2>3. Shortened /\ Follows(Unread)
    <3>1. CASE ui'.view = "none"
      <4>1. Read /\ Settled
        BY <1>7, <3>1 DEF ReadKey
      <4> QED BY <4>1, ReadText, SettledStrays
    <3>2. CASE ui'.view # "none"
      <4>1. tty' = <<>> /\ sending' = sending /\ DrainedInbox
        BY <1>7, <3>2 DEF ReadKey
      <4>2. Shortened /\ Unread = Len(sending)
        BY <4>1, ClearedText
      <4>3. Follows(Len(sending))
        BY <4>1, DrainedFollows
      <4> QED BY <4>2, <4>3
    <3> QED BY <3>1, <3>2
  <2> QED BY Zenon, <2>2, <2>3, Strays
<1>8. CASE AfterEsc \/ Swallow
  <2>1. Read /\ Settled /\ parser' = parser /\ pc # "end" /\ pc # "loop"
    BY <1>8 DEF AfterEsc, Swallow
  <2>2. Shortened /\ parser'.state = 0
    BY <1>1, <2>1, ReadText
  <2> QED BY Zenon, <2>1, <2>2, SettledStrays, Strays
<1>9. CASE AfterCsi
  <2>1. Read /\ Settled /\ pc = "csi" /\ pc # "end" /\ pc # "loop"
    BY <1>9 DEF AfterCsi
  <2>2. (pc' = "loop" /\ ui' = ui) \/ parser' = parser
    BY <1>9 DEF AfterCsi
  <2>3. ui.view = "none" /\ parser.state = 0
    BY <1>1, <1>3, <2>1
  <2>4. (pc' \in {"loop", "end"} /\ ui'.view = "none") \/ parser'.state = 0
    BY <2>2, <2>3
  <2>5. Shortened
    BY <2>1, ReadText
  <2> QED BY Zenon, <2>1, <2>4, <2>5, SettledStrays, Strays
<1>10. CASE Silence
  <2>1. /\ pc # "end" /\ pc # "loop" /\ tty' = <<>> /\ sending' = sending /\ pc' = "loop" /\ parser' = parser
        /\ inbox' = TornHead(Unhandled(inbox, Len(sending)))
    BY <1>10 DEF Silence
  <2>2. Shortened /\ Unread = Len(sending)
    BY <2>1, ClearedText
  <2>3. Follows(Unread)
    BY <2>1, <2>2 DEF Follows
  <2>4. parser'.state = 0 /\ Resting(pc', parser')
    BY <1>1, <2>1 DEF Resting
  <2> QED BY Zenon, <2>1, <2>2, <2>3, <2>4, Strays
<1>11. CASE ViewKey
  <2>1. /\ ui.view # "none" /\ Read /\ pc' = pc /\ parser' = parser
        /\ inbox' = Cut(Unhandled(inbox, Unread), Unread)
    BY <1>11 DEF ViewKey
  <2>2. Shortened /\ Follows(Unread)
    BY <2>1, ReadText DEF Follows
  <2>3. pc # "end" /\ parser'.state = 0 /\ Resting(pc', parser')
    BY <1>2, <1>3, <2>1 DEF Resting
  <2> QED BY Zenon, <2>2, <2>3, Strays
<1>12. CASE AbortPlay
  <2>1. ui.view # "none" /\ tty' = <<>> /\ sending' = sending /\ DrainedInbox /\ pc' = pc /\ parser' = parser
    BY <1>12 DEF AbortPlay
  <2>2. Shortened /\ Unread = Len(sending) /\ Follows(Len(sending))
    BY <2>1, ClearedText, DrainedFollows
  <2>3. Follows(Unread)
    BY <2>2
  <2>4. pc # "end" /\ parser'.state = 0 /\ Resting(pc', parser')
    BY <1>2, <1>3, <2>1 DEF Resting
  <2> QED BY Zenon, <2>2, <2>3, <2>4, Strays
<1> QED BY Zenon, <1>4, <1>5, <1>6, <1>7, <1>8, <1>9, <1>10, <1>11, <1>12

LEMMA KeyboardFaithful ==
  ASSUME KeyInv, KeyInv', Synced, KeyboardNext
  PROVE  Faithful
<1>1. CASE (\E e \in Events : Do(e)) \/ Arrive \/ PlayedOut \/ Interrupt \/ Leave
  BY Zenon, <1>1, DoFaithful, ArriveFaithful, PlayedOutFaithful, InterruptFaithful, LeaveFaithful
<1>2. CASE \/ FeedMore \/ FeedDone \/ ReadEsc \/ ReadKey \/ AfterEsc \/ AfterCsi
           \/ Swallow \/ Silence \/ ViewKey \/ AbortPlay
  <2>1. CASE Lost(inbox)
    BY Zenon, <1>2, <2>1, AstrayFaithful
  <2>2. CASE ~Lost(inbox)
    <3>1. Orderly
      BY <2>2 DEF Orderly
    <3>2. CASE FeedMore \/ FeedDone \/ ReadEsc \/ ReadKey
      BY Zenon, <3>1, <3>2, FeedMoreFaithful, FeedDoneFaithful, ReadEscFaithful, ReadKeyFaithful
    <3>3. CASE AfterEsc \/ AfterCsi \/ Swallow \/ Silence
      BY Zenon, <3>1, <3>3, AfterEscFaithful, AfterCsiFaithful, SwallowFaithful, SilenceFaithful
    <3>4. CASE ViewKey \/ AbortPlay
      BY Zenon, <3>1, <3>4, ViewKeyFaithful, AbortPlayFaithful
    <3> QED BY Zenon, <1>2, <3>2, <3>3, <3>4
  <2> QED BY <2>1, <2>2
<1> QED BY Zenon, <1>1, <1>2 DEF KeyboardNext

LEMMA Unmoved ==
  ASSUME Synced, UNCHANGED keyVars
  PROVE  Faithful
<1>1. /\ tty' = tty /\ sending' = sending /\ pc' = pc /\ skip' = skip /\ parser' = parser
      /\ inbox' = inbox /\ ui' = ui
  BY DEF keyVars
<1>2. Unread = Left
  BY <1>1 DEF Unread, Left
<1>3. Synced'
  BY <1>1, <1>2, StaysInStep
<1> QED BY <1>1, <1>3 DEF Faithful, Promised

LEMMA StartsInStep ==
  ASSUME KeyboardInit
  PROVE  Synced /\ Promise!Init
<1>1. /\ pc = "loop" /\ parser = NoReport /\ ui = Ui0 /\ inbox = <<>>
  BY DEF KeyboardInit
<1>2. Spread(<<>>)
  <2>1. Len(<<>>) = 0 /\ \A i \in 1 .. 0 : FALSE
    BY EmptySeq
  <2> QED BY Zenon, <2>1 DEF Spread
<1>3. parser.state = 0
  BY <1>1 DEF NoReport
<1>4. Synced
  BY Zenon, <1>1, <1>2, <1>3 DEF Synced, InStep, Resting
<1>5. Promise!Init
  BY <1>1, SameAnswers DEF Promise!Init
<1> QED BY <1>4, <1>5

(***************************************************************************)
(* Whatever the user does, in whatever pieces it arrives, and whatever the *)
(* previews and replays take or throw away, the main loop keeps what Keys  *)
(* promises: every event is handled once, in order, by the part that owns  *)
(* it, unless it was torn, and what becomes of a torn one does not reach   *)
(* those behind it. Torn are only events that came late, sequences longer  *)
(* than those the loop drops whole, and what is done while it still waits  *)
(* behind an ESC (the loop of src/main.c, mouse_parser_feed).              *)
(***************************************************************************)
THEOREM EventsAreHandled == SessionSpec => HandlesEvents
<1>1. SessionInit => Synced /\ Promise!Init
  BY StartsInStep DEF SessionInit
<1>2. KeyInv /\ KeyInv' /\ Synced /\ [SessionNext]_all => Synced'
  BY Zenon, SessionOfKeys, KeyboardFaithful, Unmoved DEF Faithful
<1>3. KeyInv /\ KeyInv' /\ Synced /\ [SessionNext]_all => [Promise!Next]_(Promise!vars)
  BY Zenon, SessionOfKeys, KeyboardFaithful, Unmoved DEF Faithful, Promised, Promise!vars
<1> QED BY <1>1, <1>2, <1>3, KeyInvariance, PTL DEF SessionSpec, HandlesEvents, Promise!Spec
=============================================================================
