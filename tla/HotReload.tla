------------------------------ MODULE HotReload ------------------------------
(***************************************************************************)
(* What the main loop reloads while it runs: in each turn the plugins      *)
(* (PluginLoader), one after the other with their delay, and then the      *)
(* character ramps (Charsets). It does one at a time, so a library that    *)
(* takes long keeps changed ramps waiting.                                 *)
(***************************************************************************)
EXTENDS PluginLoader, Charsets

CONSTANT MaxMixed     \* bound on libraries built and ramps written together

ASSUME HotReloadAssumption == MaxMixed \in Nat

hvars == <<lvars, cvars>>

HotInit == LoaderInit /\ CharsetsInit

\* The loop is past the plugins, and the scan is not under way.
PastPlugins == \A p \in Programs : at[p] \in {"loop", "out"}

\* Bounds: any number of one kind, or MaxMixed changes of both kinds.
Allowed(b, r) == b = 1 \/ r = 0 \/ (b - 1) + r <= MaxMixed
Opened == ramps + (IF editing # NoName THEN 1 ELSE 0)

PluginStep ==
  /\ \/ BuildStart /\ Allowed(builds + 1, Opened)
     \/ BuildWrite \/ Publish \/ Second
     \/ scan = 0 /\ \E p \in Programs : Step(p) \/ Cleanup(p)
     \/ scan = 1 /\ inotify = "none" /\ \E p \in Programs : at[p] # "loop" /\ Step(p)
  /\ UNCHANGED cvars

RampStep ==
  /\ \/ EditRamp /\ (editing # NoName \/ Allowed(builds, ramps + 1))
     \/ PastPlugins /\ (CharsetsStep \/ NextRamp)
  /\ UNCHANGED lvars

HotNext == PluginStep \/ RampStep

(***************************************************************************)
(* The loop of main comes round, plugin_load and a scan return; a build or *)
(* an edit that was started ends.                                          *)
(***************************************************************************)
HotSpec ==
  /\ HotInit /\ [][HotNext]_hvars
  /\ WF_hvars(BuildWrite /\ UNCHANGED cvars) /\ WF_hvars(Publish /\ UNCHANGED cvars)
  /\ WF_hvars(PluginStep /\ \E p \in Programs : Step(p))
  /\ WF_hvars(RampStep /\ (WriteRamp \/ CloseRamp))
  /\ WF_hvars(RampStep /\ CharsetsStep)

-----------------------------------------------------------------------------
(***************************************************************************)
(* The types; what runs is a copy of its own, whole in the end; nothing is *)
(* left on the disk; and the registry of ramps is in order.                *)
(***************************************************************************)
ReloadsSound ==
  /\ LoadedIntact
  /\ CharsetsOK

(***************************************************************************)
(* Hot reload: in the end the newest library runs and the newest ramps are *)
(* drawn with, however builds, edits, reloads and scans crossed.           *)
(***************************************************************************)
NewestUsed ==
  /\ NewestLoaded
  /\ NewestRamps
=============================================================================
