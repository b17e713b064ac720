------------------------------ MODULE MCNetEnc ------------------------------
(***************************************************************************)
(* Two rows of four cells, of which a frame's corners are marked.  The     *)
(* pictures differ by glyphs, by colours far apart and by colour noise,    *)
(* have cells a frame does not write, and two extents, one of them too     *)
(* small for marks.  One link is lossless; one takes several frames for a  *)
(* picture; one is too slow to repaint the dearest between two ages.       *)
(***************************************************************************)
EXTENDS NetEnc, TLC

Rgb(r) == 16777216 + r * 65536
Pal(i) == 33554432 + i

P == [glyph |-> 97, fg |-> 0, bg |-> 0]
D == [glyph |-> 97, fg |-> Rgb(100), bg |-> 0]
N == [glyph |-> 97, fg |-> Rgb(110), bg |-> 0]
H == [glyph |-> 98, fg |-> Rgb(250), bg |-> Pal(4)]
W == [glyph |-> 8558818, fg |-> Pal(7), bg |-> 0]

Pic(a, b, c, d, e, f, g, h) ==
    (<<1, 1>> :> a) @@ (<<1, 2>> :> b) @@ (<<1, 3>> :> c) @@ (<<1, 4>> :> d)
    @@ (<<2, 1>> :> e) @@ (<<2, 2>> :> f) @@ (<<2, 3>> :> g) @@ (<<2, 4>> :> h)

Dear  == Pic(P, D, H, N, D, W, H, P)
Holes == (<<1, 1>> :> H) @@ (<<1, 4>> :> D) @@ (<<2, 2>> :> W) @@ (<<2, 3>> :> P)
Small == (<<1, 1>> :> P) @@ (<<1, 2>> :> D)

MCPictures == {Pic(P, P, P, P, P, P, P, P), Dear, Holes, Small}
MCOdd == {Holes}

MCLinks == {[min |-> 0, budget |-> 0], [min |-> 24, budget |-> 64], [min |-> 24, budget |-> 46]}
MCOutlines == {{<<1, 1>>, <<1, 2>>}, {<<2, 2>>}}
MCPanel == {<<1, 3>>, <<2, 3>>}
MCNotice == {<<2, 1>>, <<2, 2>>}
MCStatus == {<<2, 2>>}
=============================================================================
