------------------------------ MODULE Charsets ------------------------------
(***************************************************************************)
(* The registry of character ramps in src/ascii.c: a directory of files    *)
(* with known names is read at the start and whenever inotify reports that *)
(* something happened in it, and 'n' and 'N' cycle through what was found. *)
(* Files are read one after the other, beside editors that write them in   *)
(* place, move them into place or delete them.                             *)
(*                                                                         *)
(* A file's first line is blank, or the ramp of one edit. The registry has *)
(* a place for every known name (MAX_CHARSETS), and one read of the queue  *)
(* takes all of its events.                                                *)
(***************************************************************************)
EXTENDS Sequences, Integers

CONSTANTS
  Known,        \* the names looked for, in their order
  MaxRamps      \* bound on the ramps written

ASSUME CharsetsAssumption ==
  /\ Known \in Seq(STRING) /\ MaxRamps \in Nat
  /\ \A i \in DOMAIN Known : Known[i] \notin {"none", "default"}

VARIABLES
  ramps,        \* edits so far
  file,         \* first line of each file, or Absent
  editing,      \* the file an editor has open, or NoName
  sets, active, \* the registry: names with their ramps; the one that is used
  scan,         \* place of the file the scan reads next, 0 when there is none
  inotify,      \* "none" before it is set up, "on", or "failed"
  events,       \* something is in its queue
  unheard       \* history: files changed while nobody watched, not read since

registry == <<sets, active, scan, inotify>>
ramp_files == <<ramps, file, editing>>
cvars == <<ramp_files, registry, events, unheard>>

Names == {Known[i] : i \in DOMAIN Known}
NoName == "none"
Absent == -1
Blank == 0
Default == [name |-> "default", ramp |-> 0]

\* charset_registry_init: the built-in ramp, and a first scan before the watch.
CharsetsInit ==
  /\ ramps = 0 /\ file = [n \in Names |-> Absent] /\ editing = NoName
  /\ sets = <<Default>> /\ active = 1 /\ scan = 1
  /\ inotify = "none" /\ events = FALSE /\ unheard = {}

-----------------------------------------------------------------------------
\* IN_CLOSE_WRITE, IN_MOVED_TO, IN_CREATE and IN_DELETE, once there is a watch.
Reported == events' = (events \/ inotify = "on")
Quietly == UNCHANGED events

Changes(n, line) ==
  /\ file' = [file EXCEPT ![n] = line]
  /\ unheard' = IF inotify = "on" THEN unheard ELSE unheard \cup {n}

\* An editor opens the file, and so creates or empties it; writes it; closes it.
OpenRamp(n) ==
  /\ editing = NoName /\ ramps < MaxRamps
  /\ editing' = n /\ Changes(n, Blank)
  /\ IF file[n] = Absent THEN Reported ELSE Quietly
  /\ UNCHANGED <<ramps, registry>>

WriteRamp ==
  /\ editing # NoName /\ file[editing] = Blank
  /\ ramps' = ramps + 1 /\ Changes(editing, ramps + 1)
  /\ Quietly
  /\ UNCHANGED <<editing, registry>>

CloseRamp ==
  /\ editing # NoName /\ file[editing] # Blank
  /\ editing' = NoName
  /\ Reported
  /\ UNCHANGED <<ramps, file, registry, unheard>>

\* A finished file is moved there, or the file is deleted.
MoveRamp(n) ==
  /\ editing = NoName /\ ramps < MaxRamps
  /\ ramps' = ramps + 1 /\ Changes(n, ramps + 1)
  /\ Reported
  /\ UNCHANGED <<editing, registry>>

DeleteRamp(n) ==
  /\ editing = NoName /\ file[n] # Absent /\ ramps < MaxRamps
  /\ ramps' = ramps + 1 /\ Changes(n, Absent)
  /\ Reported
  /\ UNCHANGED <<editing, registry>>

EditRamp == WriteRamp \/ CloseRamp \/ \E n \in Names : OpenRamp(n) \/ MoveRamp(n) \/ DeleteRamp(n)

-----------------------------------------------------------------------------
\* The set of a name, if there is one.
SetsOf(n) == {j \in DOMAIN sets : sets[j].name = n}

\* Mutant: a set that is known keeps the ramp it has.
WithRamp_Keep(n, line) ==
  IF line \in {Absent, Blank} \/ SetsOf(n) # {} THEN sets
  ELSE Append(sets, [name |-> n, ramp |-> line])

\* charset_registry_scan, of one file: without a first line it changes nothing,
\* and a name that is known gets the new ramp.
WithRamp(n, line) ==
  IF line \in {Absent, Blank} THEN sets
  ELSE IF SetsOf(n) = {} THEN Append(sets, [name |-> n, ramp |-> line])
  ELSE [j \in DOMAIN sets |-> IF j \in SetsOf(n) THEN [sets[j] EXCEPT !.ramp = line] ELSE sets[j]]

\* Mutant: what happens during a scan is forgotten with it.
ScanFile_Drains ==
  /\ scan \in DOMAIN Known
  /\ sets' = WithRamp(Known[scan], file[Known[scan]])
  /\ unheard' = unheard \ {Known[scan]}
  /\ scan' = IF scan = Len(Known) /\ inotify # "none" THEN 0 ELSE scan + 1
  /\ events' = FALSE
  /\ UNCHANGED <<ramp_files, active, inotify>>

ScanFile ==
  /\ scan \in DOMAIN Known
  /\ sets' = WithRamp(Known[scan], file[Known[scan]])
  /\ unheard' = unheard \ {Known[scan]}
  /\ scan' = IF scan = Len(Known) /\ inotify # "none" THEN 0 ELSE scan + 1
  /\ UNCHANGED <<ramp_files, active, inotify, events>>

\* After the first scan: inotify_init1, inotify_add_watch.
WatchRamps ==
  /\ scan = Len(Known) + 1
  /\ inotify' \in {"on", "failed"} /\ scan' = 0
  /\ UNCHANGED <<ramp_files, sets, active, events, unheard>>

\* charset_registry_check_reload: whatever the events are, scan.
CheckRamps ==
  /\ scan = 0 /\ inotify = "on" /\ events
  /\ events' = FALSE /\ scan' = 1
  /\ UNCHANGED <<ramp_files, sets, active, inotify, unheard>>

\* 'n' and 'N'.
NextRamp ==
  /\ scan = 0
  /\ \E step \in {1, -1} : active' = ((active - 1 + step + Len(sets)) % Len(sets)) + 1
  /\ UNCHANGED <<ramp_files, sets, scan, inotify, events, unheard>>

CharsetsStep == ScanFile \/ WatchRamps \/ CheckRamps

-----------------------------------------------------------------------------
\* The registry has no name twice, and what is used is in it.
CharsetsOK ==
  /\ active \in DOMAIN sets /\ sets[1] = Default
  /\ \A n \in Names : \A j, k \in SetsOf(n) : j = k
  /\ \A j \in DOMAIN sets : sets[j].ramp \in 0 .. MaxRamps

(***************************************************************************)
(* "Hot-reloadable charsets ... monitor with inotify" (README.md:35): once *)
(* edits stop, every file that was changed under the watch, or was read    *)
(* since, is in the registry as it is on the disk, however edits and scans *)
(* crossed.                                                                *)
(***************************************************************************)
NewestRamps ==
  \A n \in Names :
    <>[](inotify = "on" /\ editing # n /\ n \notin unheard /\ file[n] \notin {Absent, Blank}
           => \E j \in SetsOf(n) : sets[j].ramp = file[n])
=============================================================================
