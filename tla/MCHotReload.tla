----------------------------- MODULE MCHotReload -----------------------------
(***************************************************************************)
(* One program, and up to four versions of the library, the third of which *)
(* has another interface: builds cross loads in every place, two reloads   *)
(* fall into one second or not, and a refused version is followed by a     *)
(* good one. Two files of ramps, with two edits. Libraries change, or      *)
(* ramps, or one of each. With Programs = {one, two} MappedNeverChanges is *)
(* violated.                                                               *)
(***************************************************************************)
EXTENDS HotReload

One == {"one"}
MCRefused == {3}
MCKnown == <<"ascii", "dots">>
=============================================================================
