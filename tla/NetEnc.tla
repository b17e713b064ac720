------------------------------- MODULE NetEnc -------------------------------
(***************************************************************************)
(* The delta encoder for slow links (src/netenc.c) and the part of the     *)
(* main loop that drives it (src/main.c, --net).  Every frame the renderer *)
(* paints all its cells; the encoder remembers in prev what the terminal   *)
(* shows and sends only cells that differ, the most visible first, up to a *)
(* budget of bytes.  Meanwhile other code writes over the same screen:     *)
(* marks that follow every frame (the frame's corners, the status panel),  *)
(* the outline of a mouse drag, the browser panel, notices, previews that  *)
(* clear it.  The main loop tells the encoder with net_dirty that what it  *)
(* remembers is no longer true; it does not tell it of the marks, of a     *)
(* frame sent without it, nor of what came and went between two frames.    *)
(*                                                                         *)
(* The screen is a function from positions <<row, column>> to cells, a     *)
(* picture a function from the positions the frame writes.  A cell is      *)
(* [glyph, fg, bg]: the glyph's UTF-8 bytes packed in a number, a colour   *)
(* as the code packs it (0 default, 2^24 + rgb, 2 * 2^24 + palette).       *)
(***************************************************************************)
EXTENDS Integers, Sequences, FiniteSets, FiniteSetsExt, SequencesExt, Functions

CONSTANTS
    Height, Width,  \* the terminal, in cells
    Pictures,       \* what the renderer may paint: position -> cell
    Odd,            \* pictures holding an escape the parser does not know
    Links,          \* --net settings: records [min, budget]
    AgeLimit,       \* frames between full repaints (fps * 10)
    Slack,          \* bytes the output buffer has beyond the frame
    Outlines,       \* where a drag outline may be drawn
    Panel,          \* where the browser panel is drawn
    Notice,         \* where the picker box, a toast or "compiling" is drawn
    Status,         \* where the panel's rows reach into a frame (low terminal)
    Mouse,          \* the terminal reports the mouse (MOUSE_TTY)
    MaxEvents       \* bound: what happens besides frames

Positions == (1..Height) \X (1..Width)

\* No cell costs more than a budget, as main.c makes it at least 300 bytes
\* and a cell is charged at most 46.
ASSUME LinksAssumption ==
    \A l \in Links : l.min \in Nat /\ (l.budget = 0 \/ l.budget >= 46)

\* A picture has a cell, and cells hold what the parser reads.
ASSUME PicturesAssumption ==
    \A q \in Pictures :
        /\ DOMAIN q # {} /\ DOMAIN q \subseteq Positions
        /\ \A p \in DOMAIN q : q[p] \in [glyph : Nat, fg : Nat, bg : Nat]

\* An outline is that of a frame, which has a corner.
ASSUME ScreenAssumption ==
    /\ {Height, Width, AgeLimit, Slack} \subseteq Nat
    /\ {} \notin Outlines

VARIABLES
    link,        \* e->min_score and e->budget
    pic,         \* the picture the next frame will paint
    prev,        \* e->prev, over the grid (e->rows by e->cols)
    pending,     \* e->pending
    bufCap,      \* net_buf_cap (0: net_buf is NULL)
    dirty,       \* net_dirty
    age,         \* net_age
    prevOverlay, \* net_prev_overlay
    dragging,    \* mouse_drag.dragging is not GRAB_NONE
    outline,     \* cells of the outline while outline_on, else {}
    browser,     \* browser.active
    notice,      \* a picker box, toast or build indicator is wanted
    screen,      \* what the terminal really shows
    pen,         \* the colours really selected on it
    last,        \* the last frame: [wire, bytes, room, pic, pen]
    untold,      \* history: cells that changed without the encoder being told,
                 \* and that differ from what it remembers of them
    lap,         \* parity of the frames shown
    events       \* how much has happened (bounded)

encVars  == <<prev, pending, bufCap>>
loopVars == <<dirty, age, prevOverlay>>
uiVars   == <<dragging, outline, browser, notice>>
ttyVars  == <<screen, pen, untold>>
netVars == <<link, pic, encVars, loopVars, uiVars, ttyVars, last, lap, events>>

--------------------------------------------------------------------------
(* Cells and colours *)

SCORE_UNKNOWN  == 1000
BINS           == 16
GAP_MAX        == 8
CELL_MAX_BYTES == 80

\* A cell the encoder has forgotten: fg is NETCELL_UNKNOWN.
Unknown == [glyph |-> 0, fg |-> -1, bg |-> 0]
Blank   == [glyph |-> 32, fg |-> 0, bg |-> 0]
Rule    == [glyph |-> 45, fg |-> 0, bg |-> 0]
Mess    == [glyph |-> 63, fg |-> 0, bg |-> 0]
Box     == [glyph |-> 35, fg |-> 0, bg |-> 0]
Mark    == [glyph |-> 43, fg |-> 0, bg |-> 0]
Plain   == [fg |-> 0, bg |-> 0]
Red     == [fg |-> 33554433, bg |-> 0]

Kind(c) == c \div 16777216
Abs(n)  == IF n < 0 THEN -n ELSE n

ChanDiff(a, b) ==
    MapThenSumSet(LAMBDA s : Abs(((a \div s) % 256) - ((b \div s) % 256)),
                  {1, 256, 65536})

ColourScore(a, b) ==
    IF a = b THEN 0
    ELSE IF Kind(a) = 1 /\ Kind(b) = 1 THEN ChanDiff(a, b) ELSE 255

CellScore(p, c) ==
    IF p.fg = Unknown.fg THEN SCORE_UNKNOWN
    ELSE ColourScore(p.fg, c.fg) + ColourScore(p.bg, c.bg)
         + (IF p.glyph # c.glyph THEN 96 ELSE 0)

GlyphLen(c) ==
    1 + Cardinality({n \in {255, 65535, 16777215} : c.glyph > n})

ColourCost(c) == CASE Kind(c) = 1 -> 19 [] Kind(c) = 2 -> 11 [] OTHER -> 0
CellCost(c)   == 4 + ColourCost(c.fg) + ColourCost(c.bg) + GlyphLen(c)

BinOf(score) ==
    IF score >= SCORE_UNKNOWN THEN BINS - 1
    ELSE IF score \div 52 > BINS - 2 THEN BINS - 2 ELSE score \div 52

\* Worth sending: it differs, and not only by colour noise.
Wanted(p, c) ==
    /\ CellScore(p, c) # 0
    /\ \/ p.fg = Unknown.fg
       \/ p.glyph # c.glyph
       \/ CellScore(p, c) >= link.min

--------------------------------------------------------------------------
(* Output: what is written, and what the terminal makes of it.  A wire is  *)
(* [screen, pen, len, at, sel]: at and sel are the cursor and the colours  *)
(* the encoder believes selected.                                          *)

NumberBytes(n) == 1 + Cardinality({m \in {9, 99, 999, 9999} : n > m})

ColourBytes(c) ==
    CASE Kind(c) = 1 -> 7 + NumberBytes((c \div 65536) % 256)
                          + NumberBytes((c \div 256) % 256) + NumberBytes(c % 256)
      [] Kind(c) = 2 -> 5 + NumberBytes(c % 256)
      [] OTHER -> 2

MoveBytes(at, p) ==
    IF at = p THEN 0
    ELSE IF at[1] = p[1] /\ p[2] > at[2] /\ p[2] - at[2] <= 4
         THEN 3 + NumberBytes(p[2] - at[2])
         ELSE 3 + NumberBytes(p[1]) + (IF p[2] > 1 THEN 1 + NumberBytes(p[2]) ELSE 0)

SelectBytes(sel, c) ==
    LET f == c.fg # sel.fg
        b == c.bg # sel.bg
    IN  IF ~f /\ ~b THEN 0
        ELSE 3 + (IF f THEN ColourBytes(c.fg) ELSE 0)
               + (IF b THEN ColourBytes(c.bg) ELSE 0)
               + (IF f /\ b THEN 1 ELSE 0)

\* emit_cell: the first cell of a frame is preceded by a colour reset; the
\* glyph appears in the colours the terminal has, not those it should have.
EmitCell(w, p, c) ==
    LET base == IF w.len = 0 THEN Plain ELSE w.pen
        now  == [fg |-> IF c.fg # w.sel.fg THEN c.fg ELSE base.fg,
                 bg |-> IF c.bg # w.sel.bg THEN c.bg ELSE base.bg]
    IN  [screen |-> [w.screen EXCEPT
                       ![p] = [glyph |-> c.glyph, fg |-> now.fg, bg |-> now.bg]],
         pen |-> now,
         len |-> w.len + (IF w.len = 0 THEN 4 ELSE 0) + MoveBytes(w.at, p)
                       + SelectBytes(w.sel, c) + GlyphLen(c),
         at  |-> <<p[1], p[2] + 1>>,
         sel |-> [fg |-> c.fg, bg |-> c.bg]]

EmitAll(w, q, cells) ==
    LET Sent[i \in 0..Len(cells)] ==
            IF i = 0 THEN w
            ELSE LET v == Sent[i - 1] IN EmitCell(v, cells[i], q[cells[i]])
    IN  Sent[Len(cells)]

--------------------------------------------------------------------------
(* One frame *)

\* The extent of a picture: the grid of cells up to its last row and column.
Extent(q) ==
    (1..Max({p[1] : p \in DOMAIN q})) \X (1..Max({p[2] : p \in DOMAIN q}))

Forgotten(grid) == [p \in grid |-> Unknown]

\* netenc_invalidate.
Invalidate(known) == Forgotten(DOMAIN known)

\* ensure_grid: a frame of another extent starts over.
Grid(known, q) == IF DOMAIN known = Extent(q) THEN known ELSE Forgotten(Extent(q))

\* The cells of a grid in raster order.
Raster(grid) ==
    LET cols == Max({p[2] : p \in grid})
    IN  [i \in 1..Cardinality(grid) |-> <<(i - 1) \div cols + 1, ((i - 1) % cols) + 1>>]

\* What re-sending cells costs, from the colours sel on.
FillCost(sel, cells) ==
    LET Step(s, c) ==
            [cost |-> s.cost + GlyphLen(c)
                      + (IF c.fg # s.fg THEN ColourCost(c.fg) ELSE 0)
                      + (IF c.bg # s.bg THEN ColourCost(c.bg) ELSE 0),
             fg |-> c.fg, bg |-> c.bg]
    IN  FoldLeft(Step, [cost |-> 0, fg |-> sel.fg, bg |-> sel.bg], cells).cost

\* fill_gap: the cells between the cursor and p, when all were written by
\* this frame, there is room, and re-sending them is no dearer than a move.
Gap(w, q, p, cap) ==
    LET gap == p[2] - w.at[2]
        between == [i \in 1..gap |-> <<p[1], w.at[2] + i - 1>>]
    IN  IF /\ w.at[1] = p[1] /\ gap > 0 /\ gap <= GAP_MAX
           /\ w.len + (gap + 1) * CELL_MAX_BYTES + 12 <= cap
           /\ \A i \in 1..gap : between[i] \in DOMAIN q
           /\ FillCost(w.sel, [i \in 1..gap |-> q[between[i]]])
                 <= (IF gap < 10 THEN 4 ELSE 5)
        THEN between
        ELSE <<>>

\* What a cell of q costs, in the bins from b up.
Above(want, known, q, b) ==
    MapThenSumSet(LAMBDA p : CellCost(q[p]),
                  {p \in want : BinOf(CellScore(known[p], q[p])) >= b})

\* Mutant: a bin that does not fit the budget is skipped altogether.
Threshold_WholeBins(above, bins) ==
    LET over == {b \in bins : above[b] > link.budget}
    IN  [thr |-> IF over # {} THEN Max(over) ELSE -1, room |-> 0]

\* Where the budget ends, counting from the most visible bin down.
Threshold(above, bins) ==
    LET over == {b \in bins : above[b] > link.budget}
    IN  IF over # {} THEN [thr |-> Max(over), room |-> link.budget - above[Max(over) + 1]]
        ELSE [thr |-> IF bins = {} THEN BINS - 1 ELSE Min(bins), room |-> 1073741824]

\* Pass 1 and the choice of bins: everything above thr is sent, thr itself
\* in raster order while room lasts.
Choice(known, q) ==
    IF link.budget = 0 THEN [thr |-> 0, room |-> 1073741824]
    ELSE LET want == {p \in DOMAIN q : Wanted(known[p], q[p])}
         IN  Threshold([b \in 0..BINS |-> Above(want, known, q, b)],
                       {BinOf(CellScore(known[p], q[p])) : p \in want})

\* Mutant: a cell is thought shown although the budget kept it back.
Visit_ThoughtShown(q, thr, cap, e, p) ==
    IF p \notin DOMAIN q \/ ~Wanted(e.known[p], q[p]) THEN e
    ELSE LET b    == BinOf(CellScore(e.known[p], q[p]))
             cost == CellCost(q[p])
             take == b > thr \/ link.budget = 0 \/ (b = thr /\ e.room >= cost)
             sent == [e.known EXCEPT ![p] = q[p]]
         IN  IF take
             THEN [e EXCEPT !.known = sent, !.wire = EmitCell(e.wire, p, q[p]),
                            !.room = @ - cost]
             ELSE [e EXCEPT !.known = sent, !.pending = @ + 1]

\* A wanted cell in bin b: sent with the gap before it, or left pending.
Send(q, cap, e, send) ==
    [known |-> [x \in DOMAIN e.known |-> IF x \in Range(send) THEN q[x] ELSE e.known[x]],
     wire |-> EmitAll(e.wire, q, send),
     room |-> e.room, pending |-> e.pending]

Spend(q, thr, cap, e, p, b) ==
    LET paid == b = thr /\ link.budget > 0 /\ e.room >= CellCost(q[p])
    IN  IF paid THEN [e EXCEPT !.room = @ - CellCost(q[p])] ELSE e

Try(q, thr, cap, e, p, b) ==
    IF /\ b > thr \/ (b = thr /\ (link.budget = 0 \/ e.room >= CellCost(q[p])))
       /\ e.wire.len + CELL_MAX_BYTES + 12 <= cap
    THEN Send(q, cap, Spend(q, thr, cap, e, p, b), Append(Gap(e.wire, q, p, cap), p))
    ELSE [Spend(q, thr, cap, e, p, b) EXCEPT !.pending = @ + 1]

\* Pass 2, at position p, with e = [known, wire, room, pending].
Visit(q, thr, cap, e, p) ==
    IF p \notin DOMAIN q \/ ~Wanted(e.known[p], q[p]) THEN e
    ELSE Try(q, thr, cap, e, p, BinOf(CellScore(e.known[p], q[p])))

\* The renderer's own stream: a home, each cell in its colours, a reset and
\* a newline for each row.
RawBytes(q) ==
    LET rows == Cardinality({p[1] : p \in DOMAIN q})
    IN  3 + 5 * rows
          + SumFunction([p \in DOMAIN q |-> GlyphLen(q[p]) + SelectBytes(Plain, q[p])])

Painted(q) == [p \in Positions |-> IF p \in DOMAIN q THEN q[p] ELSE screen[p]]

\* Lossless and nearly everything changed: the frame itself is cheapest.
PassThrough(known, q, cap) ==
    /\ link = [min |-> 0, budget |-> 0]
    /\ RawBytes(q) <= cap
    /\ MapThenSumSet(LAMBDA p : CellCost(q[p]),
                     {p \in DOMAIN q : Wanted(known[p], q[p])}) >= RawBytes(q)

\* Both passes over the cells of the grid.
Passes(known, q, cap, c) ==
    LET cells == Raster(DOMAIN known)
        Passed[i \in 0..Len(cells)] ==
            IF i = 0
            THEN [known |-> known, room |-> c.room, pending |-> 0,
                  wire |-> [screen |-> screen, pen |-> pen, len |-> 0,
                            at |-> <<0, 0>>, sel |-> Plain]]
            ELSE Visit(q, c.thr, cap, Passed[i - 1], cells[i])
    IN  Passed[Len(cells)]

\* Mutant: the colours of the last cell stay selected.
Finish_LeavesColour(e, cap) ==
    [known |-> e.known, pending |-> e.pending, screen |-> e.wire.screen,
     pen |-> e.wire.pen, len |-> e.wire.len]

\* The colours are reset after the last cell.
Finish(e, cap) ==
    LET reset == e.wire.sel # Plain /\ e.wire.len + 4 <= cap
    IN  [known |-> e.known, pending |-> e.pending, screen |-> e.wire.screen,
         pen |-> IF reset THEN Plain ELSE e.wire.pen,
         len |-> e.wire.len + (IF reset THEN 4 ELSE 0)]

\* netenc_frame, for a picture it can parse: [known, pending, screen, pen, len].
Encode(known, q, cap) ==
    IF PassThrough(known, q, cap)
    THEN [known |-> [p \in DOMAIN known |-> IF p \in DOMAIN q THEN q[p] ELSE known[p]],
          pending |-> 0, screen |-> Painted(q), pen |-> Plain, len |-> RawBytes(q)]
    ELSE Finish(Passes(known, q, cap, Choice(known, q)), cap)

--------------------------------------------------------------------------
(* The main loop: one frame *)

\* net_buf holds the frame and a quarter more; it only grows.
Need(q) == RawBytes(q) + RawBytes(q) \div 4 + Slack

Grown == IF bufCap >= Need(pic) THEN {bufCap} ELSE {Need(pic), 0}

\* The rectangle of a picture's frame (shown).
Rect(q) ==
    LET rows == {p[1] : p \in DOMAIN q}
        cols == {p[2] : p \in DOMAIN q}
    IN  [top |-> Min(rows), bottom |-> Max(rows), left |-> Min(cols), right |-> Max(cols)]

\* draw_corner_indicators: the corners of a frame of 4 by 2 cells or more.
Corners(r) ==
    IF Mouse /\ r.right - r.left + 1 >= 4 /\ r.bottom - r.top + 1 >= 2
    THEN {r.top, r.bottom} \X {r.left, r.right}
    ELSE {}

\* The cells marked after every frame, whatever the encoder did with them.
Marked(q) == Corners(Rect(q)) \union Status

\* What the loop puts on the screen after the frame, in this order: marks,
\* the outline, the browser panel, a notice.
Overlaid(scr) ==
    [p \in Positions |->
        IF (notice /\ p \in Notice) \/ (browser /\ p \in Panel) THEN Box
        ELSE IF dragging /\ p \in outline THEN Rule
        ELSE IF p \in Marked(pic) THEN Mark
        ELSE scr[p]]

\* All of it is drawn in colours of its own, which are reset.
PenAfter(p) ==
    IF browser \/ notice \/ (dragging /\ outline # {}) \/ Corners(Rect(pic)) # {}
    THEN Plain ELSE p

\* An overlay that just went away makes the picture dirty.
Overlay == notice \/ browser \/ dragging

\* Of the cells written behind the encoder's back, those it is wrong about.
WrongOf(cells, known, scr) ==
    {p \in cells \intersect DOMAIN known :
        /\ p \notin Marked(pic)
        /\ known[p].fg # Unknown.fg
        /\ known[p] # scr[p]}

\* Nobody tells the encoder of a write between two frames, except that the
\* loop has seen an overlay and will repaint when it is gone.
Behind(cells) == untold' = IF prevOverlay THEN untold ELSE untold \union cells

\* Mutant: a picture an overlay has left is not repainted.
After_Trusting(d, a) == dirty' = d /\ age' = a /\ prevOverlay' = Overlay

\* main.c 2387-2393, and net_age and net_dirty before it.
After(d, a) ==
    /\ dirty' = (d \/ (prevOverlay /\ ~Overlay))
    /\ age' = a
    /\ prevOverlay' = Overlay

\* The picture is repainted now and then.
Old == age + 1 >= AgeLimit

\* The buffer is there: the frame goes through the encoder, which may refuse
\* it (an escape it does not know, no memory for the grid).
Encoded(cap) ==
    /\ cap > 0
    /\ LET known == IF dirty \/ Old THEN Invalidate(prev) ELSE prev
           a == IF dirty \/ Old THEN 0 ELSE age + 1
           refused == pic \in Odd
           noGrid == DOMAIN prev # Extent(pic)
       IN  /\ \/ /\ ~refused
                 /\ \E f \in {Encode(Grid(known, pic), pic, cap)} :
                      /\ prev' = f.known
                      /\ pending' = f.pending
                      /\ screen' = Overlaid(f.screen)
                      /\ pen' = PenAfter(f.pen)
                      /\ untold' = WrongOf(untold, f.known, f.screen)
                      /\ last' = [wire |-> "delta", bytes |-> f.len, room |-> cap, pic |-> pic,
                                  pen |-> f.pen]
              \/ /\ refused \/ noGrid
                 /\ prev' = IF refused THEN Invalidate(known) ELSE <<>>
                 /\ screen' = Overlaid(Painted(pic))
                 /\ pen' = Plain
                 /\ untold' = {}
                 /\ last' = [wire |-> "raw", bytes |-> RawBytes(pic), room |-> cap, pic |-> pic,
                             pen |-> Plain]
                 /\ UNCHANGED pending
           /\ After(FALSE, a)

\* No buffer: the frame goes out as it is, and the encoder hears nothing.
Unencoded ==
    /\ prev' = prev
    /\ screen' = Overlaid(Painted(pic))
    /\ pen' = Plain
    /\ untold' = WrongOf(untold \union DOMAIN pic, prev, Painted(pic))
    /\ last' = [wire |-> "raw", bytes |-> RawBytes(pic), room |-> 0, pic |-> pic, pen |-> Plain]
    /\ After(dirty \/ Old, age + (IF age < AgeLimit THEN 1 ELSE 0))
    /\ UNCHANGED pending

SendFrame ==
    /\ \E cap \in Grown :
         /\ bufCap' = cap
         /\ Encoded(cap) \/ (cap = 0 /\ Unencoded)
    /\ lap' = 1 - lap
    /\ UNCHANGED <<link, pic, uiVars, events>>

--------------------------------------------------------------------------
(* What happens between frames *)

Event == events < MaxEvents /\ events' = events + 1

\* The camera moves on; the frame stays where it is.
SceneMoves ==
    /\ Event
    /\ \E q \in Pictures : Rect(q) = Rect(pic) /\ q # pic /\ pic' = q
    /\ UNCHANGED <<link, encVars, loopVars, uiVars, ttyVars, last, lap>>

\* The frame gets a new size or place: the screen is cleared and net_dirty
\* set, by SIGWINCH (which also ends a drag) or by a drag that is applied.
Refit ==
    /\ \E q \in Pictures : pic' = q
    /\ screen' = [p \in Positions |-> Blank]
    /\ pen' = Plain
    /\ dirty' = TRUE
    /\ dragging' = FALSE
    /\ outline' = {}
    /\ untold' = {}

Winch ==
    /\ Event
    /\ Refit
    /\ UNCHANGED <<link, encVars, age, prevOverlay, browser, notice, last, lap>>

Grab ==
    /\ Event
    /\ ~dragging
    /\ dragging' = TRUE
    /\ UNCHANGED <<link, pic, encVars, loopVars, outline, browser, notice, ttyVars, last, lap>>

\* The outline is drawn over whatever is there, and erased with spaces.
Erased(scr) == [p \in Positions |-> IF p \in outline THEN Blank ELSE scr[p]]

Drag ==
    /\ Event
    /\ dragging
    /\ \E o \in Outlines :
         /\ o # outline
         /\ outline' = o
         /\ screen' = [p \in Positions |-> IF p \in o THEN Rule ELSE Erased(screen)[p]]
         /\ Behind(o \union outline)
    /\ pen' = Plain
    /\ UNCHANGED <<link, pic, encVars, loopVars, dragging, browser, notice, last, lap>>

\* Released where it was grabbed: nothing to apply.
Release ==
    /\ dragging
    /\ dragging' = FALSE
    /\ outline' = {}
    /\ screen' = Erased(screen)
    /\ Behind(outline)
    /\ pen' = IF outline = {} THEN pen ELSE Plain
    /\ UNCHANGED <<link, pic, encVars, loopVars, browser, notice, last, lap, events>>

Apply ==
    /\ dragging
    /\ outline # {}
    /\ Refit
    /\ UNCHANGED <<link, encVars, age, prevOverlay, browser, notice, last, lap, events>>

\* The release was lost and a press outside the frame ends the drag: the
\* outline is neither erased nor forgotten.
PressOutside ==
    /\ dragging
    /\ dragging' = FALSE
    /\ UNCHANGED <<link, pic, encVars, loopVars, outline, browser, notice, ttyVars, last, lap, events>>

OpenBrowser ==
    /\ Event
    /\ ~browser
    /\ browser' = TRUE
    /\ UNCHANGED <<link, pic, encVars, loopVars, dragging, outline, notice, ttyVars, last, lap>>

\* The panel's area is cleared when it closes.
Cleared == [p \in Positions |-> IF p \in Panel THEN Blank ELSE screen[p]]

CloseBrowser ==
    /\ browser
    /\ browser' = FALSE
    /\ screen' = Cleared
    /\ Behind(Panel)
    /\ pen' = Plain
    /\ UNCHANGED <<link, pic, encVars, loopVars, dragging, outline, notice, last, lap, events>>

\* A screenshot or a recording is shown; the screen is cleared after it.
Preview ==
    /\ Event
    /\ browser
    /\ screen' = [p \in Positions |-> Blank]
    /\ Behind(Positions)
    /\ pen' = Plain
    /\ UNCHANGED <<link, pic, encVars, loopVars, uiVars, last, lap>>

\* A toast, the picker or a build begins or ends; it is drawn and left
\* alone by the frames only.
Notify ==
    /\ IF notice THEN UNCHANGED events ELSE Event
    /\ notice' = ~notice
    /\ UNCHANGED <<link, pic, encVars, loopVars, dragging, outline, browser, ttyVars, last, lap>>

\* A write from elsewhere, or a hiccup of the terminal, spoils a cell and
\* leaves a colour selected.
Stray ==
    /\ Event
    /\ \E p \in Positions :
         /\ screen' = [screen EXCEPT ![p] = Mess]
         /\ Behind({p})
    /\ pen' = Red
    /\ UNCHANGED <<link, pic, encVars, loopVars, uiVars, last, lap>>

--------------------------------------------------------------------------

NetInit ==
    /\ link \in Links
    /\ pic \in Pictures
    /\ prev = <<>>
    /\ pending = 0
    /\ bufCap = 0
    /\ dirty = FALSE
    /\ age = 0
    /\ prevOverlay = FALSE
    /\ dragging = FALSE
    /\ outline = {}
    /\ browser = FALSE
    /\ notice = FALSE
    /\ screen = [p \in Positions |-> Blank]
    /\ pen = Plain
    /\ last = [wire |-> "none", bytes |-> 0, room |-> 0, pic |-> <<>>, pen |-> Plain]
    /\ untold = {}
    /\ lap = 0
    /\ events = 0

NetNext ==
    \/ SendFrame
    \/ SceneMoves
    \/ Winch
    \/ Grab
    \/ Drag
    \/ Release
    \/ Apply
    \/ PressOutside
    \/ OpenBrowser
    \/ CloseBrowser
    \/ Preview
    \/ Notify
    \/ Stray

\* The main loop goes round as long as the source has frames.  SendFrame is
\* always enabled and alone changes lap, so this is weak fairness of it.
NetSpec == NetInit /\ [][NetNext]_netVars /\ WF_lap(lap' = 1 - lap)

--------------------------------------------------------------------------
(* Properties *)

\* The loop knows of no reason to repaint: no overlay was there when the last
\* frame was shown, and net_dirty is clear.
Undisturbed == ~dirty /\ ~prevOverlay

\* Types, and the grid is that of some picture.
NetTypeOK ==
    /\ link \in Links /\ pic \in Pictures
    /\ DOMAIN prev \in {Extent(q) : q \in Pictures} \union {{}}
    /\ pending \in 0..(Height * Width)
    /\ dirty \in BOOLEAN /\ prevOverlay \in BOOLEAN /\ browser \in BOOLEAN
    /\ notice \in BOOLEAN /\ dragging \in BOOLEAN /\ outline \in Outlines \union {{}}
    /\ age \in 0..AgeLimit
    /\ DOMAIN screen = Positions

\* A cell the encoder remembers is what the terminal shows (netenc.h, prev:
\* "what terminal shows; fg == NETCELL_UNKNOWN if not"), outside the marks the
\* loop draws after every frame, and outside the cells of untold: those that a
\* frame sent without the encoder has repainted, that an overlay has left
\* which came and went between two frames, or that a stray write hit.
EncoderKnowsScreen ==
    Undisturbed =>
        \A p \in DOMAIN prev \ (untold \union Marked(pic)) :
            prev[p].fg # Unknown.fg => screen[p] = prev[p]

\* Looks the same, up to the colour noise a slow link ignores.
Alike(c, d) == ~Wanted(c, d)

\* A picture under the loop's marks.
Look(q) == [p \in DOMAIN q |-> IF p \in Marked(q) THEN Mark ELSE q[p]]

\* After an encoded frame every cell it should have painted is alike, or
\* counted as pending, or untold (netenc.h: pending, "of last frame": whether
\* the picture is complete).  A write the encoder was not told of is not in
\* the count.
MissingIsPending ==
    last.wire = "delta" /\ Undisturbed =>
        Cardinality({p \in DOMAIN last.pic \ untold :
                        ~Alike(screen[p], Look(last.pic)[p])}) <= pending

\* What the encoder writes fits its buffer, and leaves no colour selected
\* for whatever is drawn next.
FitsAndClean ==
    last.wire = "delta" =>
        last.bytes <= last.room /\ (last.bytes > 0 => last.pen = Plain)

\* A repaint of the picture ends before the next one begins: a frame that
\* leaves cells behind has spent all of the budget but the price of a cell.
Carried ==
    LET cost == [p \in DOMAIN pic |-> CellCost(pic[p])]
    IN  \/ link.budget = 0
        \/ SumFunction(cost) <= AgeLimit * (link.budget + 1 - Max(Range(cost)))

\* On a link that carries a repaint between two ages, a scene that stands
\* still is shown completely in the end, whatever was drawn over it or sent
\* past the encoder ("the picture builds up and settles", and the repaint of
\* main.c:2264, so that a stray character "cannot stay on screen for long").
\* What is under an overlay that stays is not asked for.
Settles ==
    <>[](Carried =>
            \/ browser \/ dragging \/ notice
            \/ \A p \in DOMAIN pic : Alike(screen[p], Look(pic)[p]))

(***************************************************************************)
(* The types, and an encoder that is right about the screen wherever it    *)
(* was told of what is drawn there.                                        *)
(***************************************************************************)
EncoderSound ==
  /\ NetTypeOK
  /\ EncoderKnowsScreen

(***************************************************************************)
(* What a frame leaves behind: everything sent or counted as pending but   *)
(* what the encoder was not told of, within the buffer, and no colour      *)
(* selected.                                                               *)
(***************************************************************************)
FrameSent ==
  /\ MissingIsPending
  /\ FitsAndClean
=============================================================================
