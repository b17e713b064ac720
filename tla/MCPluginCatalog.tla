--------------------------- MODULE MCPluginCatalog ---------------------------
(***************************************************************************)
(* Two versions each of the source and of the headers, and up to two       *)
(* edits: a build can meet one change, or a change and its reversal; what  *)
(* was edited before is where it starts. One program has two sessions, so  *)
(* that what the first leaves behind, stopped or killed at any moment, is  *)
(* what the second starts from; two programs have one session each, at the *)
(* same time or not.                                                       *)
(***************************************************************************)
EXTENDS PluginCatalog

MCVersions == {1, 2}
One == {"a1"}
Two == {"a1", "a2"}
=============================================================================
