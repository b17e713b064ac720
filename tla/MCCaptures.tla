----------------------------- MODULE MCCaptures -----------------------------
(***************************************************************************)
(* Two frames, so that one can come back after the other; two seconds, on  *)
(* either side of the midnight after a leap day, with two names each, so   *)
(* that names run out and the clock can go back. Pictures of two to ten    *)
(* bytes in blocks of four: rows are cut at several columns, several fit   *)
(* in one block, and the last block is full or not.                        *)
(*                                                                         *)
(* The two texts hold all that is escaped; the longest line, of 11         *)
(* symbols, fits the buffer, beside one more.                              *)
(***************************************************************************)
EXTENDS Captures, TLC

CONSTANTS dark, bright

MCFrames == {dark, bright}
Alike == Permutations(MCFrames)
MCSeconds == {[days |-> 11016, secs |-> 86399], [days |-> 11017, secs |-> 0]}
MCSizes == {[rowlen |-> 1, h |-> 1], [rowlen |-> 3, h |-> 2],
            [rowlen |-> 2, h |-> 3], [rowlen |-> 4, h |-> 2]}
MCTexts == {<<"\\", "u">>, <<"NL", "\"">>}
View == IF rp = "off" THEN <<"record", vars>> ELSE <<"play", replayVars>>
MCYears == 1970 .. 2110 \cup {9999}
=============================================================================
