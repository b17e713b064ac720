---------------------------- MODULE MCPluginChain ----------------------------
(***************************************************************************)
(* Three places for four candidates (three entries and one -p plugin): the *)
(* chain can be full, and can lose its first, middle or last plugin. One   *)
(* entry is a shipped library. Two states that differ only in what no one  *)
(* reads, places and parameters of plugins that are not loaded, or in the  *)
(* names of the other two entries, are one.                                *)
(***************************************************************************)
EXTENDS PluginChain, TLC

CONSTANTS shipped, blur, edge

MCEntries == {shipped, blur, edge}
MCSourceless == {shipped}
MCLoadable == {shipped}
MCParams == {0, 1}
Alike == Permutations({blur, edge})
Seen == <<state, want_load, selected, cli, handles,
          [i \in InChain |-> <<plugins[i], params[i], plugin_cat[i], given[plugins[i].id]>>]>>
=============================================================================
