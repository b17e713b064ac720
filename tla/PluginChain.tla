----------------------------- MODULE PluginChain -----------------------------
(***************************************************************************)
(* The filter chain of main.c: the packed arrays of loaded plugins, their  *)
(* parameters and catalog entries, the keys that change them, the picker's *)
(* loads and finished builds, and the hot reload of src/plugins.c. Builds  *)
(* are their outcome (PluginCatalog has their steps).                      *)
(*                                                                         *)
(* The arrays are kept side by side as in the code; beyond plugin_count    *)
(* nothing is read, so what a failed load leaves there is left out.        *)
(***************************************************************************)
EXTENDS Integers

CONSTANTS
  Entries,       \* catalog entries
  Sourceless,    \* those that are only a shipped library
  Loadable,      \* those whose library never fails to load
  Cli,           \* plugins given with -p
  MAX_PLUGINS,
  Params         \* parameter values; DefaultParam is one of them

ASSUME ChainAssumption ==
  /\ Sourceless \subseteq Entries /\ Loadable \subseteq Entries
  /\ Cli \in Nat /\ MAX_PLUGINS \in Nat \ {0}
  /\ Params \subseteq Nat /\ Params # {}
  /\ -1 \notin Entries

VARIABLES
  state, want_load,     \* of each catalog entry
  plugins,              \* plugin_loader_t: who it is, plugin # NULL, hot-swap message
  params, plugin_cat, plugin_count, selected,
  cli,                  \* -p plugins still to be loaded at startup
  handles,              \* the plugins whose library the process holds open
  given                 \* history: the parameter last given to each loaded plugin

catalog == <<state, want_load>>
chain == <<plugins, params, plugin_cat, plugin_count>>
vars == <<state, want_load, plugins, params, plugin_cat, plugin_count, selected, cli,
          handles, given>>

None == -1
DefaultParam == CHOOSE p \in Params : TRUE
Places == 0 .. MAX_PLUGINS - 1
InChain == 0 .. plugin_count - 1
Ids == 0 .. MAX_PLUGINS
NoPlugin == [id |-> 0, live |-> FALSE, status |-> "none"]

Init ==
  /\ state = [e \in Entries |-> IF e \in Sourceless THEN "ready" ELSE "available"]
  /\ want_load = [e \in Entries |-> FALSE]
  /\ plugins = [i \in Places |-> NoPlugin]
  /\ params = [i \in Places |-> DefaultParam]
  /\ plugin_cat = [i \in Places |-> None]
  /\ plugin_count = 0 /\ selected = 0
  /\ cli = Cli
  /\ handles = {}
  /\ given = [n \in Ids |-> DefaultParam]

Set(f, a, v) == f' = [f EXCEPT ![a] = v]

-----------------------------------------------------------------------------
\* A number no loaded plugin has.
Fresh == CHOOSE n \in Ids : n \notin handles \cup {plugins[i].id : i \in InChain}

Full == plugin_count >= MAX_PLUGINS

\* plugin_slot_add: the list is full, or the load fails.
SlotRefused(c) ==
  /\ Full \/ c \notin Loadable
  /\ UNCHANGED <<chain, handles, given>>

SlotAdded(c) ==
  /\ ~Full
  /\ Set(plugins, plugin_count, [id |-> Fresh, live |-> TRUE, status |-> "loaded"])
  /\ Set(params, plugin_count, DefaultParam)
  /\ Set(plugin_cat, plugin_count, c)
  /\ plugin_count' = plugin_count + 1
  /\ handles' = handles \cup {Fresh}
  /\ Set(given, Fresh, DefaultParam)

\* plugin_activate
Activate(e) ==
  \/ SlotAdded(e) /\ Set(state, e, "active")
  \/ SlotRefused(e) /\ Set(state, e, "failed")

LoadCli ==
  /\ cli > 0
  /\ cli' = cli - 1
  /\ SlotAdded(None) \/ SlotRefused(None)
  /\ UNCHANGED <<catalog, selected>>

(***************************************************************************)
(* The picker's Enter (main.c:1883): what it does depends on the state.    *)
(***************************************************************************)
PickReady(e) ==
  /\ state[e] = "ready"
  /\ Activate(e)
  /\ UNCHANGED <<want_load, selected>>

PickCompiling(e) ==
  /\ state[e] = "compiling"
  /\ Set(want_load, e, TRUE)
  /\ UNCHANGED <<state, chain, selected, handles, given>>

\* catalog_start_build: there is nothing to build from, no child, or a build.
PickBuild(e) ==
  /\ state[e] \in {"available", "failed"}
  /\ \/ Set(state, e, "failed") /\ Set(want_load, e, FALSE)
     \/ e \notin Sourceless /\ Set(state, e, "compiling") /\ Set(want_load, e, TRUE)
  /\ UNCHANGED <<chain, selected, handles, given>>

\* catalog_poll reports the end of a build, and the loop acts on it.
BuildSucceeds(e) ==
  /\ state[e] = "compiling"
  /\ IF want_load[e] THEN Activate(e)
                     ELSE Set(state, e, "ready") /\ UNCHANGED <<chain, handles, given>>
  /\ Set(want_load, e, FALSE)
  /\ UNCHANGED selected

BuildFails(e) ==
  /\ state[e] = "compiling"
  /\ Set(state, e, "failed")
  /\ Set(want_load, e, FALSE)
  /\ UNCHANGED <<chain, selected, handles, given>>

-----------------------------------------------------------------------------
Shifted(f) == [i \in Places |->
                 IF i >= selected /\ i + 1 < plugin_count THEN f[i + 1] ELSE f[i]]

\* Mutant: the parameters do not move with their plugins.
ShiftDown_NotParams ==
  /\ plugins' = Shifted(plugins)
  /\ plugin_cat' = Shifted(plugin_cat)
  /\ UNCHANGED params

\* Mutant: the catalog indices do not move with their plugins.
ShiftDown_NotCat ==
  /\ plugins' = Shifted(plugins)
  /\ params' = Shifted(params)
  /\ UNCHANGED plugin_cat

ShiftDown ==
  /\ plugins' = Shifted(plugins)
  /\ params' = Shifted(params)
  /\ plugin_cat' = Shifted(plugin_cat)

\* Mutant: the selection is left where it was.
Unload_KeepSelected ==
  /\ plugin_count > 0
  /\ state' = [e \in Entries |-> IF e = plugin_cat[selected] THEN "ready" ELSE state[e]]
  /\ handles' = handles \ {plugins[selected].id}
  /\ ShiftDown
  /\ plugin_count' = plugin_count - 1
  /\ UNCHANGED <<want_load, selected, given>>

\* 'u': plugin_slot_remove of the selected plugin.
Unload ==
  /\ plugin_count > 0
  /\ state' = [e \in Entries |-> IF e = plugin_cat[selected] THEN "ready" ELSE state[e]]
  /\ handles' = handles \ {plugins[selected].id}
  /\ ShiftDown
  /\ plugin_count' = plugin_count - 1
  /\ selected' = IF selected < plugin_count' THEN selected
                 ELSE IF plugin_count' > 0 THEN plugin_count' - 1 ELSE 0
  /\ UNCHANGED <<want_load, given>>

\* The arrow keys.
Select ==
  /\ plugin_count > 0
  /\ selected' \in {(selected + 1) % plugin_count, (selected - 1 + plugin_count) % plugin_count}
  /\ UNCHANGED <<catalog, chain, handles, given>>

\* The keys that adjust or reset the parameter of the selected plugin.
Adjust ==
  /\ plugin_count > 0
  /\ \E v \in Params : Set(params, selected, v) /\ Set(given, plugins[selected].id, v)
  /\ UNCHANGED <<catalog, plugins, plugin_cat, plugin_count, selected, handles>>

(***************************************************************************)
(* plugin_check_reload: the watched file changed. plugin_load closes the   *)
(* old library before it tries the new one.                                *)
(***************************************************************************)
Swapped(i) ==
  /\ plugins' = [plugins EXCEPT ![i].live = TRUE, ![i].status = "swapped"]
  /\ handles' = handles \cup {plugins[i].id}

\* Mutant: the new library is opened beside the old one.
SwapFailed_Leak(i) ==
  /\ plugins' = [plugins EXCEPT ![i].live = FALSE, ![i].status = "retained"]
  /\ UNCHANGED handles

SwapFailed(i) ==
  /\ plugins' = [plugins EXCEPT ![i].live = FALSE, ![i].status = "retained"]
  /\ handles' = handles \ {plugins[i].id}

Reload ==
  /\ \E i \in InChain : Swapped(i) \/ SwapFailed(i)
  /\ UNCHANGED <<catalog, params, plugin_cat, plugin_count, selected, given>>

Running ==
  \/ \E e \in Entries : \/ PickReady(e) \/ PickCompiling(e) \/ PickBuild(e)
                        \/ BuildSucceeds(e) \/ BuildFails(e)
  \/ Unload \/ Select \/ Adjust \/ Reload

Next == LoadCli \/ (cli = 0 /\ Running /\ UNCHANGED cli)

Spec == Init /\ [][Next]_vars

-----------------------------------------------------------------------------
Plugin == [id : Ids, live : BOOLEAN, status : {"none", "loaded", "swapped", "retained"}]

\* The variables have the values of their C types; the selection is in the
\* chain, or 0 when it is empty.
TypeOK ==
  /\ state \in [Entries -> {"available", "ready", "compiling", "failed", "active"}]
  /\ want_load \in [Entries -> BOOLEAN]
  /\ plugins \in [Places -> Plugin]
  /\ params \in [Places -> Params]
  /\ plugin_cat \in [Places -> Entries \cup {None}]
  /\ plugin_count \in 0 .. MAX_PLUGINS
  /\ selected \in IF plugin_count = 0 THEN {0} ELSE InChain
  /\ cli \in 0 .. Cli
  /\ handles \subseteq Ids
  /\ given \in [Ids -> Params]

(***************************************************************************)
(* The catalog and the chain agree (plugin_catalog.h:39, "loaded and       *)
(* running in filter chain"): an entry is PC_ACTIVE just when one place of *)
(* the chain, and not two, was loaded from it.                             *)
(***************************************************************************)
ActiveIffInChain ==
  /\ \A e \in Entries : state[e] = "active" <=> \E i \in InChain : plugin_cat[i] = e
  /\ \A i, j \in InChain : plugin_cat[i] = plugin_cat[j] /\ plugin_cat[i] # None => i = j

(***************************************************************************)
(* "plugins[]/params[]/cat[] stay packed" (main.c:807): whatever is loaded *)
(* and unloaded around it, a plugin keeps the parameter it was given.      *)
(***************************************************************************)
ParamsFollowPlugins == \A i \in InChain : params[i] = given[plugins[i].id]

\* No library is held open that no place of the chain runs, however loads,
\* unloads and failed swaps follow each other, and no two places hold the
\* same plugin.
HandlesOwned ==
  /\ handles = {plugins[i].id : i \in {j \in InChain : plugins[j].live}}
  /\ \A i, j \in InChain : plugins[i].id = plugins[j].id => i = j

(***************************************************************************)
(* The types; the catalog says what is in the chain, the three arrays stay *)
(* parallel through every load, swap and unload, and every open library    *)
(* belongs to one place.                                                   *)
(***************************************************************************)
ChainSound ==
  /\ TypeOK
  /\ ActiveIffInChain
  /\ ParamsFollowPlugins
  /\ HandlesOwned
=============================================================================
