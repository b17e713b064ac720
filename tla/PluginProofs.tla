----------------------------- MODULE PluginProofs -----------------------------
(***************************************************************************)
(* Plugins while the program runs. ChainSound for every number of places,  *)
(* plugins and catalog entries, and every order of loads, unloads, swaps   *)
(* and keys: it is inductive as it is stated. ReloadsSound for one program *)
(* beside any number of builds and edited ramps.                           *)
(***************************************************************************)
EXTENDS PluginChain, HotReload, FiniteSetTheorems, TLAPS

-----------------------------------------------------------------------------
(* The chain *)

\* The arrays and the open libraries, whatever the catalog says of them.
ArraysOK ==
  /\ plugins \in [Places -> Plugin]
  /\ params \in [Places -> Params]
  /\ plugin_cat \in [Places -> Entries \cup {None}]
  /\ plugin_count \in 0 .. MAX_PLUGINS
  /\ handles \subseteq Ids
  /\ given \in [Ids -> Params]
  /\ ParamsFollowPlugins
  /\ HandlesOwned

CatalogOK ==
  /\ state \in [Entries -> {"available", "ready", "compiling", "failed", "active"}]
  /\ want_load \in [Entries -> BOOLEAN]

SelectionOK == selected \in IF plugin_count = 0 THEN {0} ELSE InChain

LEMMA ChainParts ==
  ChainSound => /\ ArraysOK /\ CatalogOK /\ SelectionOK /\ ActiveIffInChain
                /\ cli \in 0 .. Cli
  BY DEF ChainSound, TypeOK, ArraysOK, CatalogOK, SelectionOK

LEMMA ChainPartsNext ==
  ASSUME ArraysOK', CatalogOK', SelectionOK', ActiveIffInChain', cli' \in 0 .. Cli
  PROVE  ChainSound'
  BY DEF ChainSound, TypeOK, ArraysOK, CatalogOK, SelectionOK

LEMMA DefaultIsParam == DefaultParam \in Params
  BY ChainAssumption DEF DefaultParam

\* Places in use are places.
LEMMA InChainPlaces ==
  ASSUME plugin_count \in 0 .. MAX_PLUGINS
  PROVE  InChain \subseteq Places
  BY ChainAssumption DEF InChain, Places

-----------------------------------------------------------------------------
(* Loading *)

(***************************************************************************)
(* There is always a number that no loaded plugin has: there is one more   *)
(* than there are places.                                                  *)
(***************************************************************************)
LEMMA FreshIsFresh ==
  ASSUME ArraysOK, ~Full
  PROVE  /\ Fresh \in Ids
         /\ Fresh \notin handles
         /\ \A i \in InChain : plugins[i].id # Fresh
<1> DEFINE taken == {plugins[i].id : i \in InChain}
<1>1. plugin_count \in Nat /\ MAX_PLUGINS \in Nat /\ plugin_count < MAX_PLUGINS
  BY ChainAssumption DEF ArraysOK, Full
<1>2. \E n \in Ids : n \notin taken
  <2> SUFFICES ASSUME \A n \in Ids : \E i \in InChain : plugins[i].id = n
               PROVE  FALSE
    OBVIOUS
  <2> DEFINE f == [n \in Ids |-> CHOOSE i \in InChain : plugins[i].id = n]
  <2>1. f \in [Ids -> InChain]
    OBVIOUS
  <2>2. \A n \in Ids : plugins[f[n]].id = n
    OBVIOUS
  <2>3. /\ IsFiniteSet(Ids) /\ IsFiniteSet(InChain)
        /\ Cardinality(InChain) < Cardinality(Ids)
    BY <1>1, FS_Interval DEF Ids, InChain
  <2> HIDE DEF f
  <2>4. \E x, y \in Ids : x # y /\ f[x] = f[y]
    BY <2>1, <2>3, FS_PigeonHole
  <2> QED BY <2>2, <2>4
<1>3. handles \subseteq taken
  BY DEF ArraysOK, HandlesOwned
<1>4. \E n \in Ids : n \notin handles \cup taken
  BY <1>2, <1>3
<1> QED BY <1>4 DEF Fresh

LEMMA SlotAddedOK ==
  ASSUME ArraysOK, NEW c \in Entries \cup {None}, SlotAdded(c)
  PROVE  /\ ArraysOK'
         /\ plugin_count' = plugin_count + 1
         /\ plugin_count \in Nat
         /\ \A i \in InChain : plugin_cat'[i] = plugin_cat[i]
         /\ plugin_cat'[plugin_count] = c
<1> DEFINE k == plugin_count
           new == [id |-> Fresh, live |-> TRUE, status |-> "loaded"]
<1>1. /\ k \in Nat /\ MAX_PLUGINS \in Nat /\ k < MAX_PLUGINS
      /\ InChain' = InChain \cup {k} /\ k \notin InChain
      /\ InChain' \subseteq Places
  BY ChainAssumption DEF ArraysOK, SlotAdded, Full, InChain, Places
<1>2. /\ Fresh \in Ids /\ Fresh \notin handles
      /\ \A i \in InChain : plugins[i].id # Fresh
  BY FreshIsFresh DEF SlotAdded
<1>3. /\ plugins' = [plugins EXCEPT ![k] = new]
      /\ params' = [params EXCEPT ![k] = DefaultParam]
      /\ plugin_cat' = [plugin_cat EXCEPT ![k] = c]
      /\ plugin_count' = k + 1
      /\ handles' = handles \cup {Fresh}
      /\ given' = [given EXCEPT ![Fresh] = DefaultParam]
  BY DEF SlotAdded, Set
<1>4. new \in Plugin /\ new.id = Fresh /\ new.live = TRUE
  BY <1>2 DEF Plugin
<1> HIDE DEF new
<1>5. /\ plugins' \in [Places -> Plugin]
      /\ params' \in [Places -> Params]
      /\ plugin_cat' \in [Places -> Entries \cup {None}]
      /\ plugin_count' \in 0 .. MAX_PLUGINS
      /\ handles' \subseteq Ids
      /\ given' \in [Ids -> Params]
  BY <1>1, <1>2, <1>3, <1>4, DefaultIsParam DEF ArraysOK
<1>6. /\ plugins'[k] = new /\ params'[k] = DefaultParam /\ plugin_cat'[k] = c
      /\ \A i \in InChain : /\ plugins'[i] = plugins[i] /\ params'[i] = params[i]
                            /\ plugin_cat'[i] = plugin_cat[i]
  BY <1>1, <1>3 DEF ArraysOK
<1>7. ParamsFollowPlugins'
  <2>1. \A i \in InChain : plugins[i].id \in Ids
    BY <1>1 DEF ArraysOK, Plugin
  <2>2. given'[Fresh] = DefaultParam /\ \A n \in Ids : n # Fresh => given'[n] = given[n]
    BY <1>2, <1>3 DEF ArraysOK
  <2> QED BY <1>1, <1>2, <1>4, <1>6, <2>1, <2>2 DEF ArraysOK, ParamsFollowPlugins
<1>8. HandlesOwned'
  <2>1. \A i, j \in InChain' : plugins'[i].id = plugins'[j].id => i = j
    BY <1>1, <1>2, <1>4, <1>6 DEF ArraysOK, HandlesOwned
  <2>2. handles' = {plugins'[i].id : i \in {j \in InChain' : plugins'[j].live}}
    BY <1>1, <1>3, <1>4, <1>6 DEF ArraysOK, HandlesOwned
  <2> QED BY <2>1, <2>2 DEF HandlesOwned
<1> QED BY <1>1, <1>3, <1>5, <1>6, <1>7, <1>8 DEF ArraysOK

\* The chain after a load of c that may fail.
LEMMA RefusedOK ==
  ASSUME ArraysOK, NEW c, SlotRefused(c)
  PROVE  ArraysOK' /\ UNCHANGED chain
  BY DEF SlotRefused, chain, ArraysOK, ParamsFollowPlugins, HandlesOwned, InChain

LEMMA LoadCliOK == ASSUME ChainSound, LoadCli PROVE ChainSound'
<1>1. /\ ArraysOK /\ CatalogOK /\ SelectionOK /\ ActiveIffInChain /\ cli \in 0 .. Cli
      /\ cli > 0 /\ cli' = cli - 1 /\ state' = state /\ want_load' = want_load
      /\ selected' = selected /\ Cli \in Nat
      /\ SlotAdded(None) \/ SlotRefused(None)
  BY ChainParts, ChainAssumption DEF LoadCli, catalog
<1>2. cli' \in 0 .. Cli
  BY <1>1
<1>3. CASE SlotAdded(None)
  <2>1. /\ ArraysOK' /\ plugin_count' = plugin_count + 1 /\ plugin_count \in Nat
        /\ \A i \in InChain : plugin_cat'[i] = plugin_cat[i]
        /\ plugin_cat'[plugin_count] = None
    BY <1>1, <1>3, SlotAddedOK
  <2>2. InChain' = InChain \cup {plugin_count}
    BY <2>1 DEF InChain
  <2>3. SelectionOK'
    BY <1>1, <2>1 DEF SelectionOK, InChain
  <2>4. ActiveIffInChain'
    BY <1>1, <2>1, <2>2, ChainAssumption DEF ActiveIffInChain, None
  <2> QED BY <1>1, <1>2, <2>1, <2>3, <2>4, ChainPartsNext DEF CatalogOK
<1>4. CASE SlotRefused(None)
  <2>1. ArraysOK' /\ UNCHANGED chain
    BY <1>1, <1>4, RefusedOK
  <2> QED BY <1>1, <1>2, <2>1, ChainPartsNext
          DEF chain, CatalogOK, SelectionOK, ActiveIffInChain, InChain
<1> QED BY <1>1, <1>3, <1>4

\* An entry that was not active is loaded or has failed.
LEMMA ActivateOK ==
  ASSUME ChainSound, NEW e \in Entries, Activate(e), state[e] # "active",
         UNCHANGED <<selected, cli>>,
         want_load' \in [Entries -> BOOLEAN]
  PROVE  ChainSound'
<1>1. /\ ArraysOK /\ CatalogOK /\ SelectionOK /\ ActiveIffInChain /\ cli \in 0 .. Cli
  BY ChainParts
<1>2. CASE SlotAdded(e) /\ Set(state, e, "active")
  <2>1. /\ ArraysOK' /\ plugin_count' = plugin_count + 1 /\ plugin_count \in Nat
        /\ \A i \in InChain : plugin_cat'[i] = plugin_cat[i]
        /\ plugin_cat'[plugin_count] = e
    BY <1>1, <1>2, SlotAddedOK
  <2>2. InChain' = InChain \cup {plugin_count} /\ plugin_count \notin InChain
    BY <2>1 DEF InChain
  <2>3. SelectionOK'
    BY <1>1, <2>1 DEF SelectionOK, InChain
  <2>4. CatalogOK' /\ state'[e] = "active" /\ \A d \in Entries : d # e => state'[d] = state[d]
    BY <1>1, <1>2 DEF Set, CatalogOK
  <2>5. \A i \in InChain : plugin_cat[i] # e
    BY <1>1 DEF ActiveIffInChain
  <2>6. ActiveIffInChain'
    BY <1>1, <2>1, <2>2, <2>4, <2>5 DEF ActiveIffInChain, None
  <2> QED BY <1>1, <2>1, <2>3, <2>4, <2>6, ChainPartsNext
<1>3. CASE SlotRefused(e) /\ Set(state, e, "failed")
  <2>1. ArraysOK' /\ UNCHANGED chain
    BY <1>1, <1>3, RefusedOK
  <2>2. CatalogOK' /\ state'[e] # "active" /\ \A d \in Entries : d # e => state'[d] = state[d]
    BY <1>1, <1>3 DEF Set, CatalogOK
  <2>3. ActiveIffInChain'
    BY <1>1, <2>1, <2>2 DEF ActiveIffInChain, InChain, chain
  <2>4. SelectionOK'
    BY <1>1, <2>1 DEF SelectionOK, InChain, chain
  <2> QED BY <1>1, <2>1, <2>2, <2>3, <2>4, ChainPartsNext
<1> QED BY <1>2, <1>3 DEF Activate

\* Steps of the catalog alone, on an entry that is not active and does not become it.
LEMMA EntryOK ==
  ASSUME ChainSound, NEW e \in Entries, NEW s \in {"available", "ready", "compiling", "failed"},
         state[e] # "active", Set(state, e, s),
         UNCHANGED <<chain, handles, given, selected, cli>>,
         want_load' \in [Entries -> BOOLEAN]
  PROVE  ChainSound'
<1>1. /\ ArraysOK /\ CatalogOK /\ SelectionOK /\ ActiveIffInChain /\ cli \in 0 .. Cli
  BY ChainParts
<1>2. CatalogOK' /\ state'[e] # "active" /\ \A d \in Entries : d # e => state'[d] = state[d]
  BY <1>1 DEF Set, CatalogOK
<1>3. ArraysOK' /\ SelectionOK'
  BY <1>1 DEF chain, ArraysOK, SelectionOK, ParamsFollowPlugins, HandlesOwned, InChain
<1>4. ActiveIffInChain'
  BY <1>1, <1>2 DEF ActiveIffInChain, InChain, chain
<1> QED BY <1>1, <1>2, <1>3, <1>4, ChainPartsNext

-----------------------------------------------------------------------------
(* Unloading, keys and swaps *)

(***************************************************************************)
(* What is left of the chain keeps its order: place i has what was in      *)
(* place From(i), and every place but the selected one is one of these.    *)
(***************************************************************************)
From(i) == IF i >= selected THEN i + 1 ELSE i

LEMMA ShiftOK ==
  ASSUME ArraysOK, SelectionOK, Unload
  PROVE  /\ InChain' = 0 .. plugin_count - 2
         /\ \A i \in InChain' : From(i) \in InChain \ {selected}
         /\ \A j \in InChain \ {selected} : \E i \in InChain' : From(i) = j
         /\ \A i, j \in InChain' : From(i) = From(j) => i = j
         /\ \A i \in InChain' : /\ plugins'[i] = plugins[From(i)]
                                /\ params'[i] = params[From(i)]
                                /\ plugin_cat'[i] = plugin_cat[From(i)]
         /\ plugins' \in [Places -> Plugin]
         /\ params' \in [Places -> Params]
         /\ plugin_cat' \in [Places -> Entries \cup {None}]
<1>1. /\ plugin_count \in Nat /\ plugin_count > 0 /\ plugin_count <= MAX_PLUGINS
      /\ MAX_PLUGINS \in Nat
      /\ selected \in 0 .. plugin_count - 1
      /\ plugin_count' = plugin_count - 1
  BY ChainAssumption DEF ArraysOK, SelectionOK, Unload, InChain
<1>2. InChain' = 0 .. plugin_count - 2
  BY <1>1 DEF InChain
<1>3. \A i \in InChain' : From(i) \in InChain \ {selected}
  BY <1>1, <1>2 DEF From, InChain
<1>4. \A j \in InChain \ {selected} : \E i \in InChain' : From(i) = j
  <2> SUFFICES ASSUME NEW j \in InChain \ {selected}
               PROVE  \E i \in InChain' : From(i) = j
    OBVIOUS
  <2>1. j < selected => j \in InChain' /\ From(j) = j
    BY <1>1, <1>2 DEF From, InChain
  <2>2. j > selected => j - 1 \in InChain' /\ From(j - 1) = j
    BY <1>1, <1>2 DEF From, InChain
  <2>3. j < selected \/ j > selected
    BY <1>1 DEF InChain
  <2> QED BY <2>1, <2>2, <2>3
<1>5. \A i, j \in InChain' : From(i) = From(j) => i = j
  BY <1>1, <1>2 DEF From
<1>6. /\ plugins' = Shifted(plugins) /\ params' = Shifted(params)
      /\ plugin_cat' = Shifted(plugin_cat)
  BY DEF Unload, ShiftDown
<1>7. \A i \in Places : i + 1 < plugin_count => i + 1 \in Places
  BY <1>1 DEF Places
<1>8. \A i \in InChain' : i \in Places /\ i + 1 < plugin_count
  BY <1>1, <1>2 DEF Places
<1>9. \A i \in InChain' : /\ plugins'[i] = plugins[From(i)]
                          /\ params'[i] = params[From(i)]
                          /\ plugin_cat'[i] = plugin_cat[From(i)]
  BY <1>6, <1>8 DEF Shifted, From
<1>10. /\ plugins' \in [Places -> Plugin]
       /\ params' \in [Places -> Params]
       /\ plugin_cat' \in [Places -> Entries \cup {None}]
  BY <1>6, <1>7 DEF Shifted, ArraysOK
<1> QED BY <1>2, <1>3, <1>4, <1>5, <1>9, <1>10

LEMMA UnloadOK == ASSUME ChainSound, Unload, UNCHANGED cli PROVE ChainSound'
<1>1. /\ ArraysOK /\ CatalogOK /\ SelectionOK /\ ActiveIffInChain /\ cli' \in 0 .. Cli
  BY ChainParts
<1>2. /\ InChain' = 0 .. plugin_count - 2
      /\ \A i \in InChain' : From(i) \in InChain \ {selected}
      /\ \A j \in InChain \ {selected} : \E i \in InChain' : From(i) = j
      /\ \A i, j \in InChain' : From(i) = From(j) => i = j
      /\ \A i \in InChain' : /\ plugins'[i] = plugins[From(i)]
                             /\ params'[i] = params[From(i)]
                             /\ plugin_cat'[i] = plugin_cat[From(i)]
      /\ plugins' \in [Places -> Plugin]
      /\ params' \in [Places -> Params]
      /\ plugin_cat' \in [Places -> Entries \cup {None}]
  BY <1>1, ShiftOK
<1> HIDE DEF From
<1>3. /\ plugin_count \in Nat /\ plugin_count > 0 /\ plugin_count <= MAX_PLUGINS
      /\ MAX_PLUGINS \in Nat /\ selected \in InChain
      /\ plugin_count' = plugin_count - 1
      /\ handles' = handles \ {plugins[selected].id}
      /\ state' = [e \in Entries |-> IF e = plugin_cat[selected] THEN "ready" ELSE state[e]]
      /\ want_load' = want_load /\ given' = given
  BY <1>1, ChainAssumption DEF ArraysOK, SelectionOK, Unload, InChain
<1>4. HandlesOwned'
  <2>1. \A i, j \in InChain' : plugins'[i].id = plugins'[j].id => i = j
    BY <1>1, <1>2 DEF ArraysOK, HandlesOwned
  <2>2. \A j \in InChain : j # selected => plugins[j].id # plugins[selected].id
    BY <1>1, <1>3 DEF ArraysOK, HandlesOwned
  <2>3. \A n \in handles' : \E i \in InChain' : plugins'[i].live /\ plugins'[i].id = n
    <3> SUFFICES ASSUME NEW n \in handles'
                 PROVE  \E i \in InChain' : plugins'[i].live /\ plugins'[i].id = n
      OBVIOUS
    <3>1. PICK j \in InChain : plugins[j].live /\ plugins[j].id = n /\ j # selected
      BY <1>1, <1>3 DEF ArraysOK, HandlesOwned
    <3>2. PICK i \in InChain' : From(i) = j
      BY <1>2, <3>1
    <3> QED BY <1>2, <3>1, <3>2
  <2>4. \A i \in InChain' : plugins'[i].live => plugins'[i].id \in handles'
    BY <1>1, <1>2, <1>3, <2>2 DEF ArraysOK, HandlesOwned
  <2>5. handles' = {plugins'[i].id : i \in {j \in InChain' : plugins'[j].live}}
    BY <2>3, <2>4
  <2> QED BY <2>1, <2>5 DEF HandlesOwned
<1>5. ParamsFollowPlugins'
  BY <1>1, <1>2, <1>3 DEF ArraysOK, ParamsFollowPlugins
<1>6. ArraysOK'
  <2>1. plugin_count' \in 0 .. MAX_PLUGINS
    BY <1>3
  <2>2. handles' \subseteq Ids /\ given' \in [Ids -> Params]
    BY <1>1, <1>3 DEF ArraysOK
  <2> QED BY <1>2, <1>4, <1>5, <2>1, <2>2 DEF ArraysOK
<1>7. CatalogOK'
  BY <1>1, <1>3 DEF CatalogOK
<1>8. SelectionOK'
  <2>1. selected' = IF selected < plugin_count' THEN selected
                    ELSE IF plugin_count' > 0 THEN plugin_count' - 1 ELSE 0
    BY DEF Unload
  <2> QED BY <1>2, <1>3, <2>1 DEF SelectionOK, InChain
<1>9. ActiveIffInChain'
  <2>1. \A e \in Entries : state'[e] = "active" <=> \E i \in InChain' : plugin_cat'[i] = e
    <3> SUFFICES ASSUME NEW e \in Entries
                 PROVE  state'[e] = "active" <=> \E i \in InChain' : plugin_cat'[i] = e
      OBVIOUS
    <3>1. CASE e = plugin_cat[selected]
      <4>1. state'[e] # "active"
        BY <1>3, <3>1
      <4>2. \A j \in InChain : j # selected => plugin_cat[j] # e
        BY <1>1, <1>3, <3>1, ChainAssumption DEF ActiveIffInChain, None
      <4> QED BY <1>2, <4>1, <4>2
    <3>2. CASE e # plugin_cat[selected]
      <4>1. state'[e] = state[e]
        BY <1>3, <3>2
      <4>2. (\E i \in InChain : plugin_cat[i] = e) => \E i \in InChain' : plugin_cat'[i] = e
        <5> SUFFICES ASSUME NEW j \in InChain, plugin_cat[j] = e
                     PROVE  \E i \in InChain' : plugin_cat'[i] = e
          OBVIOUS
        <5>1. PICK i \in InChain' : From(i) = j
          BY <1>2, <3>2
        <5> QED BY <1>2, <5>1
      <4>3. (\E i \in InChain' : plugin_cat'[i] = e) => \E i \in InChain : plugin_cat[i] = e
        BY <1>2
      <4> QED BY <1>1, <4>1, <4>2, <4>3 DEF ActiveIffInChain
    <3> QED BY <3>1, <3>2
  <2>2. \A i, j \in InChain' : plugin_cat'[i] = plugin_cat'[j] /\ plugin_cat'[i] # None => i = j
    BY <1>1, <1>2 DEF ActiveIffInChain
  <2> QED BY <2>1, <2>2 DEF ActiveIffInChain
<1> QED BY <1>1, <1>6, <1>7, <1>8, <1>9, ChainPartsNext

LEMMA SelectOK == ASSUME ChainSound, Select, UNCHANGED cli PROVE ChainSound'
<1>1. /\ ArraysOK /\ CatalogOK /\ SelectionOK /\ ActiveIffInChain /\ cli' \in 0 .. Cli
      /\ UNCHANGED <<catalog, chain, handles, given>>
  BY ChainParts DEF Select
<1>2. SelectionOK'
  <2>1. plugin_count \in Nat /\ plugin_count > 0 /\ selected \in 0 .. plugin_count - 1
    BY <1>1 DEF Select, SelectionOK, ArraysOK, InChain
  <2>2. /\ (selected + 1) % plugin_count \in 0 .. plugin_count - 1
        /\ (selected - 1 + plugin_count) % plugin_count \in 0 .. plugin_count - 1
    BY <2>1
  <2>3. selected' \in InChain
    BY <2>1, <2>2 DEF Select, InChain
  <2>4. InChain' = InChain /\ plugin_count' = plugin_count
    BY <1>1 DEF chain, InChain
  <2> QED BY <2>1, <2>3, <2>4 DEF SelectionOK
<1>3. ArraysOK' /\ CatalogOK' /\ ActiveIffInChain'
  BY <1>1 DEF chain, catalog, ArraysOK, CatalogOK, ActiveIffInChain, ParamsFollowPlugins,
              HandlesOwned, InChain
<1> QED BY <1>1, <1>2, <1>3, ChainPartsNext

LEMMA AdjustOK == ASSUME ChainSound, Adjust, UNCHANGED cli PROVE ChainSound'
<1>1. /\ ArraysOK /\ CatalogOK /\ SelectionOK /\ ActiveIffInChain /\ cli' \in 0 .. Cli
      /\ UNCHANGED <<catalog, plugins, plugin_cat, plugin_count, selected, handles>>
  BY ChainParts DEF Adjust
<1>2. PICK v \in Params : /\ params' = [params EXCEPT ![selected] = v]
                          /\ given' = [given EXCEPT ![plugins[selected].id] = v]
  BY DEF Adjust, Set
<1>3. selected \in InChain /\ InChain \subseteq Places /\ InChain' = InChain
  BY <1>1, InChainPlaces DEF Adjust, SelectionOK, ArraysOK, InChain
<1>4. \A i \in InChain : plugins[i].id \in Ids
  BY <1>1, <1>3 DEF ArraysOK, Plugin
<1>5. params' \in [Places -> Params] /\ given' \in [Ids -> Params]
  BY <1>1, <1>2, <1>3, <1>4 DEF ArraysOK
<1>6. ParamsFollowPlugins'
  <2>1. \A i \in InChain : i # selected => plugins[i].id # plugins[selected].id
    BY <1>1, <1>3 DEF ArraysOK, HandlesOwned
  <2>2. \A i \in InChain : params'[i] = IF i = selected THEN v ELSE params[i]
    BY <1>1, <1>2, <1>3 DEF ArraysOK
  <2>3. \A i \in InChain :
          given'[plugins[i].id] = IF i = selected THEN v ELSE given[plugins[i].id]
    BY <1>1, <1>2, <1>4, <2>1 DEF ArraysOK
  <2> QED BY <1>1, <1>3, <2>2, <2>3 DEF ArraysOK, ParamsFollowPlugins
<1>7. ArraysOK'
  BY <1>1, <1>5, <1>6 DEF ArraysOK, HandlesOwned, InChain
<1>8. CatalogOK' /\ SelectionOK' /\ ActiveIffInChain'
  BY <1>1 DEF catalog, CatalogOK, SelectionOK, ActiveIffInChain, InChain
<1> QED BY <1>1, <1>7, <1>8, ChainPartsNext

LEMMA ReloadOK == ASSUME ChainSound, Reload, UNCHANGED cli PROVE ChainSound'
<1>1. /\ ArraysOK /\ CatalogOK /\ SelectionOK /\ ActiveIffInChain /\ cli' \in 0 .. Cli
      /\ UNCHANGED <<catalog, params, plugin_cat, plugin_count, selected, given>>
  BY ChainParts DEF Reload
<1>2. PICK k \in InChain : Swapped(k) \/ SwapFailed(k)
  BY DEF Reload
<1>3. InChain \subseteq Places /\ InChain' = InChain
  BY <1>1, InChainPlaces DEF ArraysOK, InChain
<1>4. PICK l \in BOOLEAN, s \in {"swapped", "retained"} :
        /\ plugins' = [plugins EXCEPT ![k].live = l, ![k].status = s]
        /\ handles' = IF l THEN handles \cup {plugins[k].id} ELSE handles \ {plugins[k].id}
  BY <1>2 DEF Swapped, SwapFailed
<1>5. /\ plugins[k] \in Plugin /\ plugins[k].id \in Ids
      /\ plugins' \in [Places -> Plugin]
      /\ plugins'[k].live = l /\ plugins'[k].id = plugins[k].id
      /\ \A i \in InChain : i # k => plugins'[i] = plugins[i]
  BY <1>1, <1>2, <1>3, <1>4 DEF ArraysOK, Plugin
<1>6. \A i \in InChain : plugins'[i].id = plugins[i].id
  BY <1>5
<1>7. HandlesOwned'
  <2>1. \A i, j \in InChain' : plugins'[i].id = plugins'[j].id => i = j
    BY <1>1, <1>3, <1>6 DEF ArraysOK, HandlesOwned
  <2>2. handles' = {plugins'[i].id : i \in {j \in InChain' : plugins'[j].live}}
    BY <1>1, <1>3, <1>4, <1>5 DEF ArraysOK, HandlesOwned
  <2> QED BY <2>1, <2>2 DEF HandlesOwned
<1>8. ArraysOK'
  <2>1. handles' \subseteq Ids
    BY <1>1, <1>4, <1>5 DEF ArraysOK
  <2>2. ParamsFollowPlugins'
    BY <1>1, <1>3, <1>6 DEF ArraysOK, ParamsFollowPlugins
  <2> QED BY <1>1, <1>5, <1>7, <2>1, <2>2 DEF ArraysOK
<1>9. CatalogOK' /\ SelectionOK' /\ ActiveIffInChain'
  BY <1>1 DEF catalog, CatalogOK, SelectionOK, ActiveIffInChain, InChain
<1> QED BY <1>1, <1>8, <1>9, ChainPartsNext

-----------------------------------------------------------------------------
LEMMA InitSound == Init => ChainSound
<1> SUFFICES ASSUME Init PROVE ChainSound
  OBVIOUS
<1>1. InChain = {} /\ plugin_count = 0 /\ MAX_PLUGINS \in Nat /\ MAX_PLUGINS > 0 /\ Cli \in Nat
  BY ChainAssumption DEF Init, InChain
<1>2. NoPlugin \in Plugin
  BY <1>1 DEF NoPlugin, Plugin, Ids
<1>3. TypeOK
  BY <1>1, <1>2, DefaultIsParam DEF Init, TypeOK
<1>4. ActiveIffInChain /\ ParamsFollowPlugins /\ HandlesOwned
  BY <1>1 DEF Init, ActiveIffInChain, ParamsFollowPlugins, HandlesOwned
<1> QED BY <1>3, <1>4 DEF ChainSound

LEMMA RunningOK == ASSUME ChainSound, Running, UNCHANGED cli PROVE ChainSound'
<1>1. want_load \in [Entries -> BOOLEAN] /\ state \in [Entries -> {"available", "ready", "compiling", "failed", "active"}]
  BY DEF ChainSound, TypeOK
<1>2. ASSUME NEW e \in Entries, NEW b \in BOOLEAN
      PROVE  [want_load EXCEPT ![e] = b] \in [Entries -> BOOLEAN]
  BY <1>1
<1>3. ASSUME NEW e \in Entries, PickReady(e)
      PROVE  ChainSound'
  BY <1>1, <1>3, ActivateOK DEF PickReady
<1>4. ASSUME NEW e \in Entries, PickCompiling(e)
      PROVE  ChainSound'
  <2>1. Set(state, e, "compiling")
    BY <1>1, <1>4 DEF PickCompiling, Set
  <2> QED BY <1>2, <1>4, <2>1, EntryOK DEF PickCompiling, Set
<1>5. ASSUME NEW e \in Entries, PickBuild(e)
      PROVE  ChainSound'
  BY <1>2, <1>5, EntryOK DEF PickBuild, Set
<1>6. ASSUME NEW e \in Entries, BuildSucceeds(e)
      PROVE  ChainSound'
  <2>1. want_load' \in [Entries -> BOOLEAN] /\ state[e] # "active" /\ UNCHANGED selected
    BY <1>2, <1>6 DEF BuildSucceeds, Set
  <2>2. CASE want_load[e]
    BY <1>6, <2>1, <2>2, ActivateOK DEF BuildSucceeds
  <2>3. CASE ~want_load[e]
    BY <1>6, <2>1, <2>3, EntryOK DEF BuildSucceeds
  <2> QED BY <2>2, <2>3
<1>7. ASSUME NEW e \in Entries, BuildFails(e)
      PROVE  ChainSound'
  BY <1>2, <1>7, EntryOK DEF BuildFails, Set
<1> QED BY <1>3, <1>4, <1>5, <1>6, <1>7, UnloadOK, SelectOK, AdjustOK, ReloadOK DEF Running

(***************************************************************************)
(* The packed arrays, the catalog and the open libraries agree, in chains  *)
(* and catalogs of every size.                                             *)
(***************************************************************************)
THEOREM ChainIsSound == Spec => []ChainSound
<1>1. ChainSound /\ [Next]_vars => ChainSound'
  <2>1. CASE UNCHANGED vars
    BY <2>1 DEF vars, ChainSound, TypeOK, ActiveIffInChain, ParamsFollowPlugins, HandlesOwned,
                InChain
  <2> QED BY <2>1, LoadCliOK, RunningOK DEF Next
<1> QED BY <1>1, InitSound, PTL DEF Spec

-----------------------------------------------------------------------------
(* The private copy of one program, beside a builder *)

Stages == {"close", "copy", "copying", "copy2", "copying2", "dlopen", "watch", "loop", "delay",
           "out"}
CopyNames(p) == {Beside(s) : s \in 0 .. MaxSec} \cup {Away(p, s) : s \in 0 .. MaxSec}
Versions == 0 .. MaxBuilds

\* Whatever the builder does can still be noticed: it writes, or an event waits.
Noticed(p) == builder = "inplace" \/ news[p] > 0

\* The types, one by one.
LoaderTypes(p) ==
  /\ now \in 0 .. MaxSec /\ builds \in 1 .. MaxBuilds
  /\ builder \in {"idle", "inplace", "apart"} /\ wip \in Inodes \cup {0}
  /\ Lib \in DOMAIN dir /\ \A n \in DOMAIN dir : dir[n] \in Inodes
  /\ body \in [Inodes -> [{1, 2} -> Versions]]
  /\ at \in [Programs -> Stages]
  /\ src \in [Programs -> Inodes \cup {0}] /\ dst \in [Programs -> Inodes \cup {0}]
  /\ tmp_path \in [Programs -> CopyNames(p) \cup {Direct}]
  /\ dl \in [Programs -> [ino : Inodes \cup {0}, was : [{1, 2} -> Versions]]]
  /\ watch \in [Programs -> BOOLEAN] /\ due \in [Programs -> BOOLEAN]
  /\ news \in [Programs -> Nat]

\* There are two names at most, of two files, and the builder writes to neither
\* the copy nor, apart, to the file a copy is made of.
NamesOK(p) ==
  /\ DOMAIN dir = {Lib} \cup ({tmp_path[p]} \ {Direct})
  /\ tmp_path[p] # Direct => dir[tmp_path[p]] # dir[Lib] /\ wip # dir[tmp_path[p]]
  /\ builder = "idle" <=> wip = 0
  /\ builder = "inplace" => wip = dir[Lib]
  /\ builder = "apart" => wip # dir[Lib] /\ wip # src[p]
  /\ builder # "inplace" => Whole(body[dir[Lib]])
  /\ news[p] + (IF builder = "idle" THEN 1 ELSE 2) <= builds

\* What each step of a load has open, mapped and deleted.
StageOK(p) ==
  /\ at[p] \in {"copying", "copying2"} =>
       /\ tmp_path[p] # Direct /\ dst[p] = dir[tmp_path[p]]
       /\ src[p] \in Inodes /\ src[p] # dst[p]
  /\ at[p] \notin {"copying", "copying2"} => src[p] = 0 /\ dst[p] = 0
  /\ at[p] \in {"copy", "copying", "copy2", "copying2", "dlopen"} => dl[p] = NoDl
  /\ at[p] \in {"copy", "copy2", "out"} => tmp_path[p] = Direct
  /\ tmp_path[p] # Direct /\ dl[p].ino # 0 => /\ dl[p].ino = dir[tmp_path[p]]
                                              /\ body[dl[p].ino] = dl[p].was
  /\ due[p] => watch[p]

\* The copy is as far as it has been read.
PartOf(b, s) ==
  /\ b[1] \in {0, s[1]} /\ b[2] \in {0, s[2]}
  /\ b[1] = 0 => b[2] = 0

\* A copy that was made while nothing could be noticed is of a whole library.
CopyOK(p) ==
  due[p] /\ ~Noticed(p) =>
    /\ at[p] \in {"copying", "copying2"} => Whole(body[src[p]]) /\ PartOf(body[dst[p]], body[src[p]])
    /\ at[p] = "dlopen" => Whole(body[dir[LoadPath(p)]])
    /\ at[p] \in {"watch", "loop"} /\ dl[p].ino # 0 => Whole(dl[p].was)

LoaderInv(p) == LoaderTypes(p) /\ NamesOK(p) /\ StageOK(p) /\ CopyOK(p)

\* Names of files are different ones.
LEMMA NamesDiffer ==
  ASSUME NEW p \in Programs, NEW n \in CopyNames(p)
  PROVE  n # Lib /\ n # Direct
  BY LoaderAssumption DEF CopyNames, Beside, Away, Lib, Direct

LEMMA NoDlIs == NoDl.ino = 0 /\ NoDl \in [ino : Inodes \cup {0}, was : [{1, 2} -> Versions]]
<1>1. <<0, 0>> \in [{1, 2} -> Versions]
  BY LoaderAssumption DEF Versions
<1> QED BY <1>1 DEF NoDl

\* Four files suffice: the library, its copy, the one that is built, and the
\* one a program has open or mapped.
LEMMA FreshInodeIs ==
  ASSUME NEW p, Programs = {p}, MAX_INODES >= 4, LoaderInv(p),
         wip = 0 \/ at[p] \in {"copy", "copy2"}
  PROVE  FreshInode \in Inodes /\ FreshInode \notin Used
<1>1. 1 \in Inodes /\ 2 \in Inodes /\ 3 \in Inodes /\ 4 \in Inodes
  BY LoaderAssumption DEF Inodes
<1>2. \E a, b, c : Used \subseteq {0, a, b, c}
  <2>1. Used \subseteq {dir[Lib], wip, src[p], dst[p], dl[p].ino}
                         \cup {dir[tmp_path[p]] : n \in {tmp_path[p]} \ {Direct}}
    BY DEF Used, LoaderInv, NamesOK
  <2>2. CASE at[p] \in {"copying", "copying2"}
    <3>1. wip = 0 /\ dl[p].ino = 0 /\ dst[p] = dir[tmp_path[p]]
      BY <2>2, NoDlIs DEF LoaderInv, StageOK
    <3> WITNESS dir[Lib], src[p], dst[p]
    <3> QED BY <2>1, <3>1
  <2>3. CASE at[p] \in {"copy", "copy2"}
    <3>1. src[p] = 0 /\ dst[p] = 0 /\ dl[p].ino = 0 /\ tmp_path[p] = Direct
      BY <2>3, NoDlIs DEF LoaderInv, StageOK
    <3> WITNESS dir[Lib], wip, 0
    <3> QED BY <2>1, <3>1
  <2>4. CASE at[p] \notin {"copying", "copying2", "copy", "copy2"}
    <3>1. src[p] = 0 /\ dst[p] = 0 /\ wip = 0
      BY <2>4 DEF LoaderInv, StageOK
    <3> WITNESS dir[Lib], dir[tmp_path[p]], dl[p].ino
    <3> QED BY <2>1, <3>1
  <2> QED BY <2>2, <2>3, <2>4
<1>3. PICK a, b, c : Used \subseteq {0, a, b, c}
  BY <1>2
<1>4. \E i \in {1, 2, 3, 4} : i \notin {0, a, b, c}
  OBVIOUS
<1>5. \E i \in Inodes : i \notin Used
  BY <1>1, <1>3, <1>4
<1> QED BY <1>5 DEF FreshInode

LEMMA LoaderStarts ==
  ASSUME NEW p, Programs = {p}, MAX_INODES >= 4, LoaderInit
  PROVE  LoaderInv(p)
<1>1. 1 \in Inodes /\ <<0, 0>> \in [{1, 2} -> Versions] /\ <<1, 1>> \in [{1, 2} -> Versions]
  BY LoaderAssumption DEF Inodes, Versions
<1>2. LoaderTypes(p)
  BY <1>1, NoDlIs, LoaderAssumption DEF LoaderInit, LoaderTypes, Stages
<1>3. NamesOK(p)
  BY <1>1, LoaderAssumption DEF LoaderInit, NamesOK, Whole
<1> QED BY <1>1, <1>2, <1>3, NoDlIs DEF LoaderInit, LoaderInv, StageOK, CopyOK, Noticed

-----------------------------------------------------------------------------
(* The builder and the clock *)

LEMMA BuildStartOK ==
  ASSUME NEW p, Programs = {p}, MAX_INODES >= 4, LoaderInv(p), BuildStart
  PROVE  LoaderInv(p)'
<1>1. /\ builder = "idle" /\ wip = 0 /\ builds < MaxBuilds /\ builds' = builds + 1
      /\ UNCHANGED <<now, dir, loader>>
      /\ body' = [body EXCEPT ![wip'] = <<0, 0>>]
  BY DEF BuildStart, LoaderInv, NamesOK
<1>2. /\ builder' \in {"inplace", "apart"} /\ wip' \in Inodes
      /\ builder' = "inplace" => wip' = dir[Lib]
      /\ builder' = "apart" => wip' \notin Used
  BY FreshInodeIs, <1>1 DEF BuildStart, LoaderInv, LoaderTypes
<1>3. <<0, 0>> \in [{1, 2} -> Versions]
  BY LoaderAssumption DEF Versions
<1>4. Lib \in DOMAIN dir /\ tmp_path[p] # Direct => tmp_path[p] \in DOMAIN dir
  BY DEF LoaderInv, NamesOK
<1>5. 0 \notin Inodes
  BY DEF Inodes
<1>6. LoaderTypes(p)'
  BY <1>1, <1>2, <1>3, LoaderAssumption DEF LoaderInv, LoaderTypes, loader
<1>7. NamesOK(p)'
  BY <1>1, <1>2, <1>4, <1>5, LoaderAssumption DEF LoaderInv, LoaderTypes, NamesOK, loader, Used
<1>8. StageOK(p)'
  BY <1>1, <1>2, <1>4, <1>5 DEF LoaderInv, LoaderTypes, NamesOK, StageOK, loader, Used
<1>9. CopyOK(p)'
  BY <1>1, <1>2, <1>4 DEF LoaderInv, LoaderTypes, NamesOK, StageOK, CopyOK, loader, Used, LoadPath,
     Noticed
<1> QED BY <1>6, <1>7, <1>8, <1>9 DEF LoaderInv

\* One part of a file is written.
LEMMA PartWritten ==
  ASSUME NEW b \in [Inodes -> [{1, 2} -> Versions]], NEW i \in Inodes, NEW k \in {1, 2},
         NEW v \in Versions, NEW c, c = [b EXCEPT ![i][k] = v]
  PROVE  /\ c \in [Inodes -> [{1, 2} -> Versions]]
         /\ c[i][k] = v /\ \A j \in {1, 2} : j # k => c[i][j] = b[i][j]
         /\ \A x \in Inodes : x # i => c[x] = b[x]
<1> DEFINE t == [b[i] EXCEPT ![k] = v]
<1>1. b[i] \in [{1, 2} -> Versions]
  OBVIOUS
<1>2. /\ t \in [{1, 2} -> Versions]
      /\ t[k] = v /\ \A j \in {1, 2} : j # k => t[j] = b[i][j]
  BY <1>1
<1>3. c = [b EXCEPT ![i] = t]
  OBVIOUS
<1> HIDE DEF t
<1> QED BY <1>2, <1>3

LEMMA BuildWriteOK ==
  ASSUME NEW p, Programs = {p}, LoaderInv(p), BuildWrite
  PROVE  LoaderInv(p)'
<1>1. /\ builder \in {"inplace", "apart"} /\ wip \in Inodes
      /\ UNCHANGED <<now, dir, build, loader>>
  BY DEF BuildWrite, LoaderInv, LoaderTypes, NamesOK
<1>2. /\ body' \in [Inodes -> [{1, 2} -> Versions]]
      /\ \A x \in Inodes : x # wip => body'[x] = body[x]
  <2>1. PICK k \in {1, 2} : body' = [body EXCEPT ![wip][k] = builds]
    BY DEF BuildWrite
  <2>2. builds \in Versions /\ body \in [Inodes -> [{1, 2} -> Versions]]
    BY LoaderAssumption DEF LoaderInv, LoaderTypes, Versions
  <2> QED BY <1>1, <2>1, <2>2, PartWritten
<1>3. Lib \in DOMAIN dir /\ dir[Lib] \in Inodes
      /\ (tmp_path[p] # Direct => tmp_path[p] \in DOMAIN dir /\ dir[tmp_path[p]] \in Inodes)
  BY DEF LoaderInv, LoaderTypes, NamesOK
<1>4. LoaderTypes(p)'
  BY <1>1, <1>2 DEF LoaderInv, LoaderTypes, build, loader
<1>5. NamesOK(p)'
  BY <1>1, <1>2, <1>3 DEF LoaderInv, NamesOK, build, loader
<1>6. StageOK(p)'
  BY <1>1, <1>2, <1>3 DEF LoaderInv, LoaderTypes, NamesOK, StageOK, build, loader
<1>7. CopyOK(p)'
  BY <1>1, <1>2, <1>3 DEF LoaderInv, LoaderTypes, NamesOK, StageOK, CopyOK, build, loader,
     LoadPath, Noticed
<1> QED BY <1>4, <1>5, <1>6, <1>7 DEF LoaderInv

LEMMA PublishOK ==
  ASSUME NEW p, Programs = {p}, LoaderInv(p), Publish
  PROVE  LoaderInv(p)'
<1>1. /\ builder \in {"inplace", "apart"} /\ Whole(body[wip]) /\ wip \in Inodes
      /\ dir' = [dir EXCEPT ![Lib] = wip]
      /\ builder' = "idle" /\ wip' = 0
      /\ UNCHANGED <<now, body, builds, at, src, dst, tmp_path, dl, watch>>
  BY DEF Publish, LoaderInv, LoaderTypes, NamesOK
<1>2. /\ news' = [news EXCEPT ![p] = IF watch[p] THEN news[p] + 1 ELSE news[p]]
      /\ due' = [due EXCEPT ![p] = due[p] \/ watch[p]]
      /\ watch[p] \in BOOLEAN /\ due[p] \in BOOLEAN /\ news[p] \in Nat
  BY <1>1 DEF Publish, LoaderInv, LoaderTypes, Heard
<1>3. Lib \in DOMAIN dir /\ dir[Lib] \in Inodes
      /\ (tmp_path[p] # Direct => tmp_path[p] \in DOMAIN dir /\ dir[tmp_path[p]] \in Inodes)
  BY DEF LoaderInv, LoaderTypes, NamesOK
<1>4. tmp_path[p] # Direct => tmp_path[p] # Lib
  BY NamesDiffer DEF LoaderInv, LoaderTypes
<1>5. /\ DOMAIN dir' = DOMAIN dir /\ dir'[Lib] = wip
      /\ tmp_path[p] # Direct => dir'[tmp_path[p]] = dir[tmp_path[p]]
      /\ \A n \in DOMAIN dir : dir'[n] \in Inodes
  BY <1>1, <1>3, <1>4 DEF LoaderInv, LoaderTypes
<1>6. LoaderTypes(p)'
  BY <1>1, <1>2, <1>5 DEF LoaderInv, LoaderTypes
<1>7. NamesOK(p)'
  <2>1. tmp_path[p] # Direct => dir[tmp_path[p]] # 0
    BY <1>3 DEF Inodes
  <2>2. news'[p] + 1 <= builds'
    <3>1. news[p] + 2 <= builds /\ builds \in Nat
      BY <1>1 DEF LoaderInv, LoaderTypes, NamesOK
    <3>2. news'[p] = news[p] + 1 \/ news'[p] = news[p]
      BY <1>2 DEF LoaderInv, LoaderTypes
    <3> QED BY <1>1, <1>2, <3>1, <3>2
  <2> QED BY <1>1, <1>3, <1>5, <2>1, <2>2 DEF LoaderInv, LoaderTypes, NamesOK
<1>8. StageOK(p)'
  BY <1>1, <1>2, <1>5 DEF LoaderInv, LoaderTypes, NamesOK, StageOK
<1>9. CopyOK(p)'
  <2>1. due'[p] => news'[p] > 0
    BY <1>2 DEF LoaderInv, LoaderTypes, StageOK
  <2> QED BY <2>1 DEF CopyOK, Noticed
<1> QED BY <1>6, <1>7, <1>8, <1>9 DEF LoaderInv

LEMMA SecondOK ==
  ASSUME NEW p, Programs = {p}, LoaderInv(p), Second
  PROVE  LoaderInv(p)'
<1>1. UNCHANGED <<files, build, loader>> /\ now' \in 0 .. MaxSec
  BY LoaderAssumption DEF Second, LoaderInv, LoaderTypes
<1> QED BY <1>1 DEF files, build, loader, LoaderInv, LoaderTypes, NamesOK, StageOK, CopyOK, LoadPath,
     Noticed

-----------------------------------------------------------------------------
(* A load *)

\* A copy's name is taken off the directory.
LEMMA WithoutCopy ==
  ASSUME NEW p, Programs = {p}, LoaderInv(p)
  PROVE  LET d == Without(dir, tmp_path[p])
         IN  /\ DOMAIN d = {Lib} /\ d[Lib] = dir[Lib] /\ dir[Lib] \in Inodes
             /\ \A n \in DOMAIN d : d[n] \in Inodes
<1>1. tmp_path[p] # Lib
  BY NamesDiffer DEF LoaderInv, LoaderTypes, Direct, Lib
<1> QED BY <1>1 DEF Without, LoaderInv, LoaderTypes, NamesOK

LEMMA CloseOldOK ==
  ASSUME NEW p, Programs = {p}, LoaderInv(p), CloseOld(p)
  PROVE  LoaderInv(p)'
<1>1. /\ at[p] = "close" /\ at' = [at EXCEPT ![p] = "copy"]
      /\ dl' = [dl EXCEPT ![p] = NoDl] /\ tmp_path' = [tmp_path EXCEPT ![p] = Direct]
      /\ dir' = Without(dir, tmp_path[p])
      /\ UNCHANGED <<now, body, build, src, dst, watch, news, due>>
  BY DEF CloseOld, Assign
<1>2. LoaderTypes(p)'
  BY <1>1, WithoutCopy, NoDlIs DEF LoaderInv, LoaderTypes, Stages, build
<1>3. tmp_path'[p] = Direct /\ at'[p] = "copy" /\ dl'[p] = NoDl
  BY <1>1 DEF LoaderInv, LoaderTypes
<1>4. NamesOK(p)'
  BY <1>1, <1>3, WithoutCopy DEF LoaderInv, LoaderTypes, NamesOK, build
<1> QED BY <1>1, <1>2, <1>3, <1>4, NoDlIs DEF LoaderInv, StageOK, CopyOK

\* copy_file could not open a file, or not create the copy.
LEMMA CopyNotOpen ==
  ASSUME NEW p, Programs = {p}, LoaderInv(p), at[p] \in {"copy", "copy2"},
         Assign(at, p, NextSpot(p)), Assign(tmp_path, p, Direct),
         UNCHANGED <<files, src, dst, now, build, dl, watch, news, due>>
  PROVE  LoaderInv(p)'
<1>1. /\ at'[p] \in {"copy2", "dlopen"} /\ tmp_path'[p] = Direct /\ tmp_path[p] = Direct
      /\ at' \in [Programs -> Stages] /\ tmp_path' \in [Programs -> CopyNames(p) \cup {Direct}]
  BY DEF LoaderInv, LoaderTypes, StageOK, Assign, NextSpot, Stages
<1>2. LoaderTypes(p)' /\ NamesOK(p)'
  BY <1>1 DEF LoaderInv, LoaderTypes, NamesOK, files, build
<1>3. StageOK(p)'
  BY <1>1 DEF LoaderInv, StageOK, files
<1>4. CopyOK(p)'
  BY <1>1 DEF LoaderInv, NamesOK, CopyOK, files, build, LoadPath, Noticed
<1> QED BY <1>2, <1>3, <1>4 DEF LoaderInv

LEMMA CopyOpenOK ==
  ASSUME NEW p, Programs = {p}, MAX_INODES >= 4, LoaderInv(p), CopyOpen(p)
  PROVE  LoaderInv(p)'
<1> DEFINE n == CopyName(p)
           i == IF n \in DOMAIN dir THEN dir[n] ELSE FreshInode
<1>1. at[p] \in {"copy", "copy2"} /\ UNCHANGED <<now, build, dl, watch, news, due>>
  BY DEF CopyOpen
<1>2. CASE Assign(at, p, NextSpot(p)) /\ Assign(tmp_path, p, Direct) /\ UNCHANGED <<files, src, dst>>
  BY <1>1, <1>2, CopyNotOpen
<1>3. CASE /\ dir' = With(dir, n, i) /\ body' = [body EXCEPT ![i] = <<0, 0>>]
           /\ Assign(src, p, dir[Lib]) /\ Assign(dst, p, i) /\ Assign(tmp_path, p, n)
           /\ Assign(at, p, IF at[p] = "copy" THEN "copying" ELSE "copying2")
  <2>1. n \in CopyNames(p) /\ n # Lib /\ n # Direct
    <3>1. n \in CopyNames(p)
      BY <1>1 DEF CopyName, CopyNames, LoaderInv, LoaderTypes
    <3> QED BY <3>1, NamesDiffer
  <2>2. /\ DOMAIN dir = {Lib} /\ dir[Lib] \in Inodes /\ tmp_path[p] = Direct
        /\ dl[p] = NoDl
    BY <1>1 DEF LoaderInv, LoaderTypes, NamesOK, StageOK
  <2>3. i \in Inodes /\ i # dir[Lib] /\ i # wip
    <3>1. i = FreshInode
      BY <2>1, <2>2
    <3>2. FreshInode \in Inodes /\ FreshInode \notin Used
      BY <1>1, FreshInodeIs
    <3> QED BY <2>2, <3>1, <3>2 DEF Used
  <2> HIDE DEF n, i
  <2>4. DOMAIN dir' = {Lib, n} /\ dir'[Lib] = dir[Lib] /\ dir'[n] = i
    BY <1>3, <2>1, <2>2 DEF With
  <2>5. /\ src'[p] = dir[Lib] /\ dst'[p] = i /\ tmp_path'[p] = n
        /\ at'[p] \in {"copying", "copying2"}
        /\ src' \in [Programs -> Inodes \cup {0}] /\ dst' \in [Programs -> Inodes \cup {0}]
        /\ tmp_path' \in [Programs -> CopyNames(p) \cup {Direct}]
        /\ at' \in [Programs -> Stages]
    BY <1>3, <2>1, <2>2, <2>3 DEF LoaderInv, LoaderTypes, Assign, Stages
  <2>6. /\ body' \in [Inodes -> [{1, 2} -> Versions]]
        /\ body'[i] = <<0, 0>> /\ \A x \in Inodes : x # i => body'[x] = body[x]
    <3>1. <<0, 0>> \in [{1, 2} -> Versions] /\ body \in [Inodes -> [{1, 2} -> Versions]]
      BY LoaderAssumption DEF Versions, LoaderInv, LoaderTypes
    <3> QED BY <1>3, <2>3, <3>1
  <2>7. LoaderTypes(p)'
    BY <1>1, <2>2, <2>3, <2>4, <2>5, <2>6 DEF LoaderInv, LoaderTypes, build
  <2>8. NamesOK(p)'
    BY <1>1, <2>1, <2>2, <2>3, <2>4, <2>5, <2>6 DEF LoaderInv, NamesOK, build
  <2>9. StageOK(p)'
    BY <1>1, <2>1, <2>2, <2>3, <2>4, <2>5, NoDlIs DEF LoaderInv, StageOK
  <2>10. CopyOK(p)'
    <3>1. ~Noticed(p)' => Whole(body[dir[Lib]])
      BY <1>1 DEF Noticed, LoaderInv, NamesOK, build
    <3>2. PartOf(<<0, 0>>, body[dir[Lib]])
      BY DEF PartOf
    <3> QED BY <2>2, <2>3, <2>5, <2>6, <3>1, <3>2 DEF CopyOK
  <2> QED BY <2>7, <2>8, <2>9, <2>10 DEF LoaderInv
<1> QED BY <1>2, <1>3 DEF CopyOpen

LEMMA CopyPartOK ==
  ASSUME NEW p, Programs = {p}, LoaderInv(p), CopyPart(p)
  PROVE  LoaderInv(p)'
<1> DEFINE k == IF body[dst[p]][1] = 0 THEN 1 ELSE 2
<1>1. at[p] \in {"copying", "copying2"} /\ UNCHANGED <<now, build, dl, watch, news, due>>
  BY DEF CopyPart
<1>2. /\ tmp_path[p] # Direct /\ tmp_path[p] \in DOMAIN dir
      /\ dst[p] = dir[tmp_path[p]] /\ dst[p] \in Inodes /\ src[p] \in Inodes /\ src[p] # dst[p]
      /\ dst[p] # dir[Lib] /\ dst[p] # wip /\ dir[Lib] \in Inodes
      /\ dl[p] = NoDl
  BY <1>1 DEF LoaderInv, LoaderTypes, NamesOK, StageOK
<1>3. /\ body[src[p]] \in [{1, 2} -> Versions] /\ body[dst[p]] \in [{1, 2} -> Versions]
      /\ k \in {1, 2} /\ body \in [Inodes -> [{1, 2} -> Versions]]
  BY <1>2 DEF LoaderInv, LoaderTypes
<1>4. CASE /\ body[dst[p]][2] = 0 /\ body[src[p]][k] # 0
           /\ body' = [body EXCEPT ![dst[p]][k] = body[src[p]][k]]
           /\ UNCHANGED <<dir, at, src, dst, tmp_path>>
  <2>1. /\ body' \in [Inodes -> [{1, 2} -> Versions]]
        /\ body'[dst[p]][k] = body[src[p]][k]
        /\ \A j \in {1, 2} : j # k => body'[dst[p]][j] = body[dst[p]][j]
        /\ \A x \in Inodes : x # dst[p] => body'[x] = body[x]
    <3>1. body[src[p]][k] \in Versions
      BY <1>3
    <3> QED BY <1>2, <1>3, <1>4, <3>1, PartWritten
  <2>2. LoaderTypes(p)'
    BY <1>1, <1>4, <2>1 DEF LoaderInv, LoaderTypes, build
  <2>3. NamesOK(p)'
    BY <1>1, <1>2, <1>4, <2>1 DEF LoaderInv, NamesOK, build
  <2>4. StageOK(p)'
    BY <1>1, <1>2, <1>4, NoDlIs DEF LoaderInv, StageOK
  <2>5. CopyOK(p)'
    <3>1. PartOf(body[dst[p]], body[src[p]]) => PartOf(body'[dst[p]], body'[src[p]])
      BY <1>2, <1>4, <2>1 DEF PartOf
    <3> QED BY <1>1, <1>2, <1>4, <2>1, <3>1 DEF LoaderInv, CopyOK, Noticed, build
  <2> QED BY <2>2, <2>3, <2>4, <2>5 DEF LoaderInv
<1>5. CASE /\ body[dst[p]][2] # 0 \/ body[src[p]][k] = 0
           /\ Assign(at, p, "dlopen") /\ Assign(src, p, 0) /\ Assign(dst, p, 0)
           /\ UNCHANGED <<files, tmp_path>>
  <2>1. /\ at'[p] = "dlopen" /\ src'[p] = 0 /\ dst'[p] = 0
        /\ at' \in [Programs -> Stages]
        /\ src' \in [Programs -> Inodes \cup {0}] /\ dst' \in [Programs -> Inodes \cup {0}]
    BY <1>5 DEF Assign, LoaderInv, LoaderTypes, Stages
  <2>2. LoaderTypes(p)' /\ NamesOK(p)'
    <3>1. wip # 0 <=> builder # "idle"
      BY DEF LoaderInv, NamesOK
    <3> QED BY <1>1, <1>5, <2>1, <3>1 DEF LoaderInv, LoaderTypes, NamesOK, build, files
  <2>3. StageOK(p)'
    BY <1>1, <1>2, <1>5, <2>1, NoDlIs DEF LoaderInv, StageOK, files
  <2>4. CopyOK(p)'
    <3>1. Whole(body[src[p]]) /\ PartOf(body[dst[p]], body[src[p]]) => Whole(body[dst[p]])
      BY <1>3, <1>5 DEF PartOf, Whole
    <3>2. due[p] /\ ~Noticed(p) => Whole(body[dir[tmp_path[p]]])
      BY <1>1, <1>2, <3>1 DEF LoaderInv, CopyOK
    <3> QED BY <1>1, <1>2, <1>5, <2>1, <3>2 DEF CopyOK, Noticed, build, files, LoadPath
  <2> QED BY <2>2, <2>3, <2>4 DEF LoaderInv
<1>6. CASE /\ dir' = Without(dir, tmp_path[p]) /\ Assign(tmp_path, p, Direct)
           /\ Assign(at, p, NextSpot(p)) /\ Assign(src, p, 0) /\ Assign(dst, p, 0)
           /\ UNCHANGED body
  <2>1. /\ at'[p] \in {"copy2", "dlopen"} /\ src'[p] = 0 /\ dst'[p] = 0 /\ tmp_path'[p] = Direct
        /\ at' \in [Programs -> Stages]
        /\ tmp_path' \in [Programs -> CopyNames(p) \cup {Direct}]
        /\ src' \in [Programs -> Inodes \cup {0}] /\ dst' \in [Programs -> Inodes \cup {0}]
    BY <1>6 DEF Assign, NextSpot, LoaderInv, LoaderTypes, Stages
  <2>2. DOMAIN dir' = {Lib} /\ dir'[Lib] = dir[Lib]
    BY <1>6, WithoutCopy
  <2>3. LoaderTypes(p)'
    BY <1>1, <1>2, <1>6, <2>1, <2>2 DEF LoaderInv, LoaderTypes, build
  <2>4. NamesOK(p)'
    <3>1. builder = "apart" => wip # 0
      BY DEF LoaderInv, NamesOK
    <3> QED BY <1>1, <1>6, <2>1, <2>2, <3>1 DEF LoaderInv, NamesOK, build
  <2>5. StageOK(p)'
    BY <1>1, <1>2, <2>1, NoDlIs DEF LoaderInv, StageOK
  <2>6. CopyOK(p)'
    BY <1>1, <1>6, <2>1, <2>2 DEF LoaderInv, NamesOK, CopyOK, LoadPath, Noticed, build
  <2> QED BY <2>3, <2>4, <2>5, <2>6 DEF LoaderInv
<1> QED BY <1>4, <1>5, <1>6 DEF CopyPart

LEMMA LoadedOK ==
  ASSUME NEW p, Programs = {p}, LoaderInv(p), Loaded(p)
  PROVE  LoaderInv(p)'
<1> DEFINE i == dir[LoadPath(p)]
<1>1. /\ at[p] = "dlopen" /\ LoadPath(p) \in DOMAIN dir
      /\ dl' = [dl EXCEPT ![p] = [ino |-> i, was |-> body[i]]]
      /\ at' = [at EXCEPT ![p] = IF watch[p] THEN "loop" ELSE "watch"]
      /\ UNCHANGED <<now, files, build, src, dst, tmp_path, watch, news, due>>
  BY DEF Loaded, Assign
<1>2. i \in Inodes /\ body[i] \in [{1, 2} -> Versions]
  BY <1>1 DEF LoaderInv, LoaderTypes
<1>3. tmp_path[p] # Direct => i = dir[tmp_path[p]]
  BY DEF LoadPath
<1> HIDE DEF i
<1>4. /\ dl'[p].ino = i /\ dl'[p].was = body[i] /\ at'[p] \in {"watch", "loop"}
      /\ dl' \in [Programs -> [ino : Inodes \cup {0}, was : [{1, 2} -> Versions]]]
      /\ at' \in [Programs -> Stages]
  BY <1>1, <1>2 DEF LoaderInv, LoaderTypes, Stages
<1>5. LoaderTypes(p)' /\ NamesOK(p)'
  BY <1>1, <1>4 DEF LoaderInv, LoaderTypes, NamesOK, files, build
<1>6. StageOK(p)'
  BY <1>1, <1>3, <1>4 DEF LoaderInv, StageOK, files
<1>7. CopyOK(p)'
  BY <1>1, <1>4 DEF LoaderInv, CopyOK, Noticed, build, i
<1> QED BY <1>5, <1>6, <1>7 DEF LoaderInv

LEMMA LoadFailsOK ==
  ASSUME NEW p, Programs = {p}, LoaderInv(p), LoadFails(p)
  PROVE  LoaderInv(p)'
<1>1. /\ at[p] = "dlopen"
      /\ dir' = Without(dir, tmp_path[p]) /\ tmp_path' = [tmp_path EXCEPT ![p] = Direct]
      /\ at' = [at EXCEPT ![p] = IF watch[p] THEN "loop" ELSE "out"]
      /\ UNCHANGED <<now, body, build, src, dst, dl, watch, news, due>>
  BY DEF LoadFails, Assign
<1>2. /\ tmp_path'[p] = Direct /\ at'[p] \in {"loop", "out"}
      /\ tmp_path' \in [Programs -> CopyNames(p) \cup {Direct}]
      /\ at' \in [Programs -> Stages]
  BY <1>1 DEF LoaderInv, LoaderTypes, Stages
<1>3. DOMAIN dir' = {Lib} /\ dir'[Lib] = dir[Lib] /\ \A n \in DOMAIN dir' : dir'[n] \in Inodes
  BY <1>1, WithoutCopy
<1>4. dl[p] = NoDl /\ src[p] = 0 /\ dst[p] = 0
  BY <1>1 DEF LoaderInv, StageOK
<1>5. LoaderTypes(p)' /\ NamesOK(p)'
  BY <1>1, <1>2, <1>3 DEF LoaderInv, LoaderTypes, NamesOK, build
<1>6. StageOK(p)' /\ CopyOK(p)'
  BY <1>1, <1>2, <1>4, NoDlIs DEF LoaderInv, StageOK, CopyOK
<1> QED BY <1>5, <1>6 DEF LoaderInv

LEMMA WatchOK ==
  ASSUME NEW p, Programs = {p}, LoaderInv(p), Watch(p)
  PROVE  LoaderInv(p)'
<1>1. /\ at[p] = "watch" /\ at' = [at EXCEPT ![p] = "loop"]
      /\ watch' = [watch EXCEPT ![p] = TRUE] \/ watch' = watch
      /\ UNCHANGED <<now, files, build, src, dst, tmp_path, dl, news, due>>
  BY DEF Watch, Assign
<1>2. /\ at'[p] = "loop" /\ at' \in [Programs -> Stages]
      /\ watch' \in [Programs -> BOOLEAN] /\ (watch[p] => watch'[p])
  BY <1>1 DEF LoaderInv, LoaderTypes, Stages
<1> QED BY <1>1, <1>2 DEF LoaderInv, LoaderTypes, NamesOK, StageOK, CopyOK, Noticed, files, build

LEMMA CheckReloadOK ==
  ASSUME NEW p, Programs = {p}, LoaderInv(p), CheckReload(p)
  PROVE  LoaderInv(p)'
<1>1. PICK left \in 0 .. news[p] - 1 : news' = [news EXCEPT ![p] = left]
  BY DEF CheckReload, Assign
<1>2. /\ at[p] = "loop" /\ at' = [at EXCEPT ![p] = "delay"]
      /\ UNCHANGED <<now, files, build, src, dst, tmp_path, dl, watch, due>>
  BY DEF CheckReload, Assign
<1>3. /\ at'[p] = "delay" /\ at' \in [Programs -> Stages]
      /\ news'[p] = left /\ news' \in [Programs -> Nat] /\ left <= news[p]
      /\ news[p] \in Nat /\ left \in Nat
  BY <1>1, <1>2 DEF LoaderInv, LoaderTypes, Stages
<1>4. LoaderTypes(p)' /\ StageOK(p)' /\ CopyOK(p)'
  BY <1>2, <1>3 DEF LoaderInv, LoaderTypes, StageOK, CopyOK, files, build
<1>5. NamesOK(p)'
  BY <1>2, <1>3 DEF LoaderInv, LoaderTypes, NamesOK, files, build
<1> QED BY <1>4, <1>5 DEF LoaderInv

LEMMA DelayOK ==
  ASSUME NEW p, Programs = {p}, LoaderInv(p), Delay(p)
  PROVE  LoaderInv(p)'
<1>1. /\ at[p] = "delay" /\ at' = [at EXCEPT ![p] = "close"]
      /\ UNCHANGED <<now, files, build, src, dst, tmp_path, dl, watch, news, due>>
  BY DEF Delay, Assign
<1>2. at'[p] = "close" /\ at' \in [Programs -> Stages]
  BY <1>1 DEF LoaderInv, LoaderTypes, Stages
<1> QED BY <1>1, <1>2 DEF LoaderInv, LoaderTypes, NamesOK, StageOK, CopyOK, Noticed, files, build

LEMMA CleanupOK ==
  ASSUME NEW p, Programs = {p}, LoaderInv(p), Cleanup(p)
  PROVE  LoaderInv(p)'
<1>1. /\ at[p] = "loop" /\ at' = [at EXCEPT ![p] = "out"]
      /\ dl' = [dl EXCEPT ![p] = NoDl] /\ tmp_path' = [tmp_path EXCEPT ![p] = Direct]
      /\ dir' = Without(dir, tmp_path[p])
      /\ watch' = [watch EXCEPT ![p] = FALSE] /\ news' = [news EXCEPT ![p] = 0]
      /\ due' = [due EXCEPT ![p] = FALSE]
      /\ UNCHANGED <<now, body, build, src, dst>>
  BY DEF Cleanup, Assign
<1>2. LoaderTypes(p)'
  BY <1>1, WithoutCopy, NoDlIs DEF LoaderInv, LoaderTypes, Stages, build
<1>3. /\ tmp_path'[p] = Direct /\ at'[p] = "out" /\ dl'[p] = NoDl
      /\ news'[p] = 0 /\ ~due'[p] /\ news[p] \in Nat
  BY <1>1 DEF LoaderInv, LoaderTypes
<1>4. NamesOK(p)'
  <2>1. news'[p] + (IF builder = "idle" THEN 1 ELSE 2) <= builds
    <3>1. news[p] + (IF builder = "idle" THEN 1 ELSE 2) <= builds /\ builds \in Nat
      BY DEF LoaderInv, LoaderTypes, NamesOK
    <3> QED BY <1>3, <3>1
  <2> QED BY <1>1, <1>3, <2>1, WithoutCopy DEF LoaderInv, NamesOK, build
<1> QED BY <1>1, <1>2, <1>3, <1>4, NoDlIs DEF LoaderInv, StageOK, CopyOK

LEMMA LoaderStutters ==
  ASSUME NEW p, LoaderInv(p), UNCHANGED lvars
  PROVE  LoaderInv(p)'
  BY DEF lvars, files, build, loader, LoaderInv, LoaderTypes, NamesOK, StageOK, CopyOK, Noticed,
     LoadPath

LEMMA LoaderSteps ==
  ASSUME NEW p, Programs = {p}, MAX_INODES >= 4, LoaderInv(p), [HotNext]_hvars
  PROVE  LoaderInv(p)'
<1>1. [LoaderNext]_lvars
  BY DEF HotNext, PluginStep, RampStep, LoaderNext, hvars
<1>2. CASE LoaderNext
  <2>1. CASE BuildStart \/ BuildWrite \/ Publish \/ Second
    BY <2>1, BuildStartOK, BuildWriteOK, PublishOK, SecondOK
  <2>2. CASE Step(p) \/ Cleanup(p)
    BY <2>2, CloseOldOK, CopyOpenOK, CopyPartOK, LoadedOK, LoadFailsOK, WatchOK, CheckReloadOK,
       DelayOK, CleanupOK DEF Step
  <2> QED BY <1>2, <2>1, <2>2 DEF LoaderNext
<1> QED BY <1>1, <1>2, LoaderStutters

LEMMA InvIsIntact ==
  ASSUME NEW p, Programs = {p}, LoaderInv(p)
  PROVE  LoadedIntact
<1>1. LoaderTypeOK
  <2>1. news[p] \in 0 .. MaxBuilds /\ at[p] \in Stages /\ dl[p].ino \in Inodes \cup {0}
    BY LoaderAssumption DEF LoaderInv, LoaderTypes, NamesOK
  <2> QED BY <2>1 DEF LoaderInv, LoaderTypes, LoaderTypeOK, Versions, Stages
<1>2. MappedNeverChanges
  BY DEF LoaderInv, StageOK, MappedNeverChanges
<1>3. TornNotKept
  BY DEF LoaderInv, CopyOK, Noticed, TornNotKept
<1>4. NoCopyLeft
  BY DEF LoaderInv, NamesOK, StageOK, NoCopyLeft
<1> QED BY <1>1, <1>2, <1>3, <1>4 DEF LoadedIntact

-----------------------------------------------------------------------------
(* The registry of ramps *)

Ramps == 0 .. MaxRamps
RampSet == [name : Names \cup {"default"}, ramp : Ramps]

RampsOK ==
  /\ ramps \in Ramps /\ editing \in Names \cup {NoName}
  /\ file \in [Names -> {Absent} \cup Ramps]
  /\ editing # NoName /\ file[editing] = Blank => ramps < MaxRamps

\* Of every name there is one set, whatever its ramp.
SetsOK(s) ==
  /\ s \in Seq(RampSet)
  /\ Len(s) > 0 /\ s[1] = Default
  /\ \A j, k \in DOMAIN s : s[j].name = s[k].name => j = k

CharsetsInv == RampsOK /\ SetsOK(sets) /\ active \in DOMAIN sets

LEMMA NamesAre == "default" \notin Names /\ NoName \notin Names
  BY CharsetsAssumption DEF Names, NoName

LEMMA CharsetsStart == CharsetsInit => CharsetsInv
<1> SUFFICES ASSUME CharsetsInit PROVE CharsetsInv
  OBVIOUS
<1>1. 0 \in Ramps /\ Default \in RampSet
  BY CharsetsAssumption DEF Ramps, RampSet, Default
<1>2. sets \in Seq(RampSet) /\ Len(sets) = 1 /\ sets[1] = Default
  BY <1>1 DEF CharsetsInit
<1>3. DOMAIN sets = 1 .. 1
  BY <1>2
<1>4. SetsOK(sets) /\ active \in DOMAIN sets
  BY <1>2, <1>3 DEF SetsOK, CharsetsInit
<1>5. RampsOK
  BY <1>1 DEF RampsOK, CharsetsInit
<1> QED BY <1>4, <1>5 DEF CharsetsInv

LEMMA EditOK == ASSUME RampsOK, EditRamp PROVE RampsOK' /\ UNCHANGED <<sets, active>>
<1>1. MaxRamps \in Nat
  BY CharsetsAssumption
<1>2. CASE WriteRamp
  BY <1>1, <1>2 DEF WriteRamp, Changes, RampsOK, Ramps, Blank, Absent, registry
<1>3. CASE CloseRamp
  BY <1>1, <1>3 DEF CloseRamp, RampsOK, registry
<1>4. ASSUME NEW n \in Names, OpenRamp(n) PROVE RampsOK' /\ UNCHANGED <<sets, active>>
  BY <1>1, <1>4 DEF OpenRamp, Changes, RampsOK, Ramps, Blank, Absent, registry
<1>5. ASSUME NEW n \in Names, MoveRamp(n) PROVE RampsOK' /\ UNCHANGED <<sets, active>>
  BY <1>1, <1>5 DEF MoveRamp, Changes, RampsOK, Ramps, registry
<1>6. ASSUME NEW n \in Names, DeleteRamp(n) PROVE RampsOK' /\ UNCHANGED <<sets, active>>
  BY <1>1, <1>6 DEF DeleteRamp, Changes, RampsOK, Ramps, registry
<1> QED BY <1>2, <1>3, <1>4, <1>5, <1>6 DEF EditRamp

LEMMA WithRampOK ==
  ASSUME SetsOK(sets), NEW n \in Names, NEW line \in {Absent} \cup Ramps
  PROVE  SetsOK(WithRamp(n, line)) /\ Len(WithRamp(n, line)) >= Len(sets)
<1> DEFINE s == WithRamp(n, line)
           new == [name |-> n, ramp |-> line]
<1>1. /\ sets \in Seq(RampSet) /\ Len(sets) \in Nat /\ Len(sets) > 0 /\ sets[1] = Default
      /\ DOMAIN sets = 1 .. Len(sets) /\ \A j \in 1 .. Len(sets) : sets[j] \in RampSet
      /\ \A j, k \in 1 .. Len(sets) : sets[j].name = sets[k].name => j = k
  BY DEF SetsOK
<1>2. CASE line \in {Absent, Blank}
  BY <1>1, <1>2 DEF WithRamp
<1>3. CASE line \notin {Absent, Blank} /\ SetsOf(n) = {}
  <2>1. new \in RampSet /\ new.name = n
    BY <1>3 DEF RampSet
  <2>2. s = Append(sets, new)
    BY <1>3 DEF WithRamp
  <2> HIDE DEF s, new
  <2>3. /\ s \in Seq(RampSet) /\ Len(s) = Len(sets) + 1 /\ s[Len(sets) + 1] = new
        /\ \A j \in 1 .. Len(sets) : s[j] = sets[j]
    BY <1>1, <2>1, <2>2
  <2>4. \A j \in 1 .. Len(sets) : s[j].name # n
    BY <1>1, <1>3, <2>3 DEF SetsOf
  <2>5. DOMAIN s = 1 .. (Len(sets) + 1)
    BY <2>3
  <2>6. \A j \in DOMAIN s : j \in 1 .. Len(sets) \/ j = Len(sets) + 1
    BY <1>1, <2>5
  <2>7. \A j, k \in DOMAIN s : s[j].name = s[k].name => j = k
    BY <1>1, <2>1, <2>3, <2>4, <2>6
  <2> QED BY <1>1, <2>3, <2>7 DEF SetsOK, s
<1>4. CASE line \notin {Absent, Blank} /\ SetsOf(n) # {}
  <2>1. s = [j \in 1 .. Len(sets) |-> IF j \in SetsOf(n) THEN [sets[j] EXCEPT !.ramp = line]
                                      ELSE sets[j]]
    BY <1>1, <1>4 DEF WithRamp
  <2>2. line \in Ramps
    BY <1>4
  <2>3. \A j \in 1 .. Len(sets) : [sets[j] EXCEPT !.ramp = line] \in RampSet
                                  /\ [sets[j] EXCEPT !.ramp = line].name = sets[j].name
    BY <1>1, <2>2 DEF RampSet
  <2>4. 1 \notin SetsOf(n)
    BY <1>1, NamesAre DEF SetsOf, Default
  <2> HIDE DEF s
  <2>5. \A j \in 1 .. Len(sets) : s[j] \in RampSet /\ s[j].name = sets[j].name
    BY <1>1, <2>1, <2>3
  <2>6. DOMAIN s = 1 .. Len(sets) /\ s \in [1 .. Len(sets) -> RampSet]
    BY <2>1, <2>5
  <2>7. s \in Seq(RampSet) /\ Len(s) = Len(sets)
    BY <1>1, <2>6
  <2>8. s[1] = Default
    BY <1>1, <2>1, <2>4
  <2> QED BY <1>1, <2>5, <2>6, <2>7, <2>8 DEF SetsOK, s
<1> QED BY <1>2, <1>3, <1>4

LEMMA ScanFileOK == ASSUME CharsetsInv, ScanFile PROVE CharsetsInv'
<1>1. Known[scan] \in Names
  BY DEF ScanFile, Names
<1>2. file[Known[scan]] \in {Absent} \cup Ramps
  BY <1>1 DEF CharsetsInv, RampsOK
<1>3. sets' = WithRamp(Known[scan], file[Known[scan]]) /\ UNCHANGED <<ramp_files, active>>
  BY DEF ScanFile
<1>4. SetsOK(sets') /\ Len(sets') >= Len(sets)
  BY <1>1, <1>2, <1>3, WithRampOK DEF CharsetsInv
<1>5. active' \in DOMAIN sets'
  BY <1>3, <1>4 DEF CharsetsInv, SetsOK
<1> QED BY <1>3, <1>4, <1>5 DEF CharsetsInv, RampsOK, ramp_files

\* Going round from a place by one step ends at a place.
LEMMA RoundIsIn ==
  ASSUME NEW n \in Nat, n > 0, NEW x \in Int
  PROVE  (x % n) + 1 \in 1 .. n
  OBVIOUS

LEMMA NextRampOK == ASSUME CharsetsInv, NextRamp PROVE CharsetsInv'
<1>1. UNCHANGED <<ramp_files, sets>>
  BY DEF NextRamp
<1>2. Len(sets) \in Nat /\ Len(sets) > 0 /\ active \in Int /\ DOMAIN sets = 1 .. Len(sets)
  BY DEF CharsetsInv, SetsOK
<1>3. PICK step \in {1, -1} : active' = ((active - 1 + step + Len(sets)) % Len(sets)) + 1
  BY DEF NextRamp
<1>4. active - 1 + step + Len(sets) \in Int
  BY <1>2
<1>5. active' \in 1 .. Len(sets)
  BY <1>2, <1>3, <1>4, RoundIsIn
<1> QED BY <1>1, <1>2, <1>5 DEF CharsetsInv, RampsOK, ramp_files

LEMMA CharsetsSteps == ASSUME CharsetsInv, [HotNext]_hvars PROVE CharsetsInv'
<1>1. CASE EditRamp
  BY <1>1, EditOK DEF CharsetsInv
<1>2. CASE ScanFile \/ NextRamp
  BY <1>2, ScanFileOK, NextRampOK
<1>3. CASE WatchRamps \/ CheckRamps \/ UNCHANGED cvars
  BY <1>3 DEF WatchRamps, CheckRamps, cvars, ramp_files, registry, CharsetsInv, RampsOK
<1> QED BY <1>1, <1>2, <1>3 DEF HotNext, PluginStep, RampStep, CharsetsStep, hvars

LEMMA InvIsRegistry == CharsetsInv => CharsetsOK
<1> SUFFICES ASSUME CharsetsInv PROVE CharsetsOK
  OBVIOUS
<1>1. \A j \in DOMAIN sets : sets[j] \in RampSet
  BY DEF CharsetsInv, SetsOK
<1> QED BY <1>1 DEF CharsetsInv, SetsOK, CharsetsOK, SetsOf, RampSet, Ramps

(***************************************************************************)
(* While a plugin is rebuilt and ramps are edited, what one program runs   *)
(* is a copy nobody writes, whole unless a build can still be noticed,     *)
(* none is left behind, and the registry has each name once: for any       *)
(* number of builds, edits, names and seconds, the two crossing in any     *)
(* way. One program has at most four files at once.                        *)
(***************************************************************************)
THEOREM ReloadsAreSound ==
  ASSUME NEW p, Programs = {p}, MAX_INODES >= 4
  PROVE  HotSpec => []ReloadsSound
<1> DEFINE I == LoaderInv(p) /\ CharsetsInv
<1>1. HotInit => I
  BY LoaderStarts, CharsetsStart DEF HotInit
<1>2. I /\ [HotNext]_hvars => I'
  BY LoaderSteps, CharsetsSteps
<1>3. I => ReloadsSound
  BY InvIsIntact, InvIsRegistry DEF ReloadsSound
<1> HIDE DEF I
<1> QED BY <1>1, <1>2, <1>3, PTL DEF HotSpec
=============================================================================
