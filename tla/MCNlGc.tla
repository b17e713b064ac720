------------------------------- MODULE MCNlGc -------------------------------
(***************************************************************************)
(* A program without the collector fills an arena of ten units: up to five *)
(* blocks of one unit, every pattern of free and live neighbours around a  *)
(* released block, requests that split a block, that leave too little to   *)
(* split and that are mapped.                                              *)
(*                                                                         *)
(* One with it has two blocks, that fill the arena or are mapped, two      *)
(* threads, one region for the root table's one slot, and two words in the *)
(* owner's sight: a block can hang from another, from a region, or from a  *)
(* word just past it. What the last nl_free counted makes no difference to *)
(* any step.                                                               *)
(***************************************************************************)
EXTENDS NlGc, TLC

CONSTANTS main, other, table

MCThreads == {main, other}
Alike == Permutations(MCThreads)
MCRegions == {table}
MCMappings == {100}
MCRequests == {0, 2, 3, 5}
MCGcRequests == {3, 5}
Seen == <<hdr, maps, live_blocks, live_bytes, held, owner, hook, disabled, since, roots, marks, stack, region, word,
          pinned, collects>>
=============================================================================
