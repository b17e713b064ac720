------------------------------ MODULE Recorder ------------------------------
(***************************************************************************)
(* src/recorder.c and its use in main.c: recordings (.cast) and            *)
(* screenshots (.ansi and .png) of the frames that are shown, in a         *)
(* directory other instances write to as well, on a disk that can fill up, *)
(* with a wall clock that can be set, by a program that can be killed. A   *)
(* picture is written by the steps of PngWrite, and names are the stamps   *)
(* of CivilDate.                                                           *)
(*                                                                         *)
(* nl_crc32_update is taken to tell the frames of a run apart.             *)
(***************************************************************************)
EXTENDS PngWrite, CivilDate, FiniteSets

CONSTANTS
  Frames,        \* pictures, as the text and pixels that are shown
  Seconds,       \* values of the wall clock, as [days, secs]
  MAX_NAMES,     \* names tried for one second: 100
  MaxSeen, MaxFiles   \* bounds on frames in a recording, files in the directory

ASSUME RecorderAssumption == MAX_NAMES \in Nat \ {0} /\ MaxSeen \in Nat /\ MaxFiles \in Nat

VARIABLES
  now,                     \* rec_unix_now
  disk,                    \* file name |-> content
  rec,                     \* recorder_t; last is what its CRC and length stand for
  want_shot,
  saved_cast, saved_shot,  \* the files the program reports when it ends
  running,
  shot,                    \* shot_save: the picture's name and the frame it is of
  seen                     \* history: frames shown since the recording started

vars == <<now, disk, rec, want_shot, saved_cast, saved_shot, running, shot, seen, pngVars>>

Name == [sec : {Stamp(t) : t \in Seconds}, i : 0 .. MAX_NAMES - 1, ext : {"cast", "ansi", "png"}]
\* No file, no frame.
None == [sec |-> <<>>, i |-> 0, ext |-> "cast"]
Cast(fs, t) == [frames |-> fs, torn |-> t]
Shot(f) == [frames |-> <<f>>, torn |-> FALSE]
NoRec == [active |-> FALSE, path |-> None, frames |-> 0, last |-> None]

Init ==
  /\ now \in Seconds
  /\ disk = [n \in {} |-> 0]
  /\ rec = NoRec
  /\ want_shot = FALSE
  /\ saved_cast = None /\ saved_shot = None
  /\ running = TRUE
  /\ shot = [name |-> None, frame |-> None]
  /\ seen = <<>>
  /\ Idle

Put(d, n, c) == [x \in DOMAIN d \cup {n} |-> IF x = n THEN c ELSE d[x]]

\* Mutant: the file is opened without O_EXCL.
OpenUnique_NotExcl(sec, ext) == {[sec |-> sec, i |-> 0, ext |-> ext]}

\* open_unique: the first name of this second that is free, if one is.
OpenUnique(sec, ext) ==
  {n \in Name : /\ n.sec = sec /\ n.ext = ext /\ n \notin DOMAIN disk
                /\ \A j \in 0 .. n.i - 1 : [n EXCEPT !.i = j] \in DOMAIN disk}

-----------------------------------------------------------------------------
\* Mutant: a header that cannot be written removes the file and records on.
RecStart_GoesOn ==
  /\ ~rec.active
  /\ \E n \in OpenUnique(Stamp(now), "cast") :
       rec' = [active |-> TRUE, path |-> n, frames |-> 0, last |-> None]
  /\ seen' = <<>>
  /\ UNCHANGED <<now, disk, want_shot, saved_cast, saved_shot, running, shot, pngVars>>

\* 't' when idle: rec_start. Whatever fails, the directory, the name or the
\* header, nothing is left behind.
RecStart ==
  /\ ~rec.active
  /\ \/ \E n \in OpenUnique(Stamp(now), "cast") :
          /\ disk' = Put(disk, n, Cast(<<>>, FALSE))
          /\ rec' = [active |-> TRUE, path |-> n, frames |-> 0, last |-> None]
          /\ seen' = <<>>
     \/ UNCHANGED <<disk, rec, seen>>
  /\ UNCHANGED <<now, want_shot, saved_cast, saved_shot, running, shot, pngVars>>

\* rec_stop, by 't' or at the end.
Stopped ==
  /\ rec.active
  /\ rec' = [rec EXCEPT !.active = FALSE]
  /\ saved_cast' = rec.path
  /\ seen' = <<>>

RecStop ==
  /\ Stopped
  /\ UNCHANGED <<now, disk, want_shot, saved_shot, running, shot, pngVars>>

Repeat(f) == rec.frames > 0 /\ f = rec.last
Written(f) == Put(disk, rec.path, Cast(Append(disk[rec.path].frames, f), FALSE))
Torn == Put(disk, rec.path, Cast(disk[rec.path].frames, TRUE))

\* Mutant: what was written last is not remembered.
Recorded_Forgets(f) ==
  IF ~rec.active \/ Repeat(f) THEN {<<disk, rec>>}
  ELSE {<<Written(f), [rec EXCEPT !.frames = @ + 1, !.last = IF rec.frames = 0 THEN f ELSE @]>>,
        <<Torn, [rec EXCEPT !.active = FALSE]>>}

\* Mutant: a write that fails does not end the recording.
Recorded_GoesOn(f) ==
  IF ~rec.active \/ Repeat(f) THEN {<<disk, rec>>}
  ELSE {<<Written(f), [rec EXCEPT !.frames = @ + 1, !.last = f]>>, <<Torn, rec>>}

(***************************************************************************)
(* The directory and the recorder rec_frame leaves: the frame is skipped,  *)
(* written, or half written, which ends the recording.                     *)
(***************************************************************************)
Recorded(f) ==
  IF ~rec.active \/ Repeat(f) THEN {<<disk, rec>>}
  ELSE {<<Written(f), [rec EXCEPT !.frames = @ + 1, !.last = f]>>,
        <<Torn, [rec EXCEPT !.active = FALSE]>>}

\* Mutant: the picture gets a free name of its own.
TextSaved_OwnName(f, d) ==
  \/ disk' = d /\ UNCHANGED <<saved_shot, shot, pngVars>>
  \/ \E n \in OpenUnique(Stamp(now), "ansi"), p \in OpenUnique(Stamp(now), "png") :
       /\ disk' = Put(d, n, Shot(f)) /\ saved_shot' = n
       /\ shot' = [name |-> p, frame |-> f]
       /\ Called(p \in DOMAIN d)

(***************************************************************************)
(* shot_save, after d: nothing can be written, or the text is, which       *)
(* claims the name, and png_write is called for a picture of that name.    *)
(***************************************************************************)
TextSaved(f, d) ==
  \/ disk' = d /\ UNCHANGED <<saved_shot, shot, pngVars>>
  \/ \E n \in OpenUnique(Stamp(now), "ansi") :
       LET p == [n EXCEPT !.ext = "png"]
       IN  /\ disk' = Put(d, n, Shot(f)) /\ saved_shot' = n
           /\ shot' = [name |-> p, frame |-> f]
           /\ Called(p \in DOMAIN d)

\* A frame is shown, recorded, and saved if that was asked for.
ShowFrame(f) ==
  /\ \E r \in Recorded(f) :
       /\ rec' = r[2]
       /\ IF want_shot THEN TextSaved(f, r[1])
                       ELSE disk' = r[1] /\ UNCHANGED <<saved_shot, shot, pngVars>>
  /\ want_shot' = FALSE
  /\ seen' = IF rec'.active THEN Append(seen, f) ELSE <<>>
  /\ UNCHANGED <<now, saved_cast, running>>

\* A step of png_write: what its path holds is what is on the disk.
Picture ==
  /\ Writing
  /\ disk' = IF path' = path THEN disk
             ELSE Put(disk, shot.name, [Shot(shot.frame) EXCEPT !.torn = path' # "whole"])
  /\ UNCHANGED <<now, rec, want_shot, saved_cast, saved_shot, running, shot, seen>>

\* shot_save returns: the picture is reported, or the text alone.
ShotDone ==
  /\ Return
  /\ saved_shot' = IF pc = "saved" THEN shot.name ELSE saved_shot
  /\ shot' = [name |-> None, frame |-> None]
  /\ UNCHANGED <<now, disk, rec, want_shot, saved_cast, running, seen>>

\* 's'
AskShot ==
  /\ want_shot' = TRUE
  /\ UNCHANGED <<now, disk, rec, saved_cast, saved_shot, running, shot, seen, pngVars>>

\* The end of main.
Exit ==
  /\ Stopped \/ (~rec.active /\ UNCHANGED <<rec, saved_cast, seen>>)
  /\ running' = FALSE
  /\ UNCHANGED <<now, disk, want_shot, saved_shot, shot, pngVars>>

-----------------------------------------------------------------------------
\* Another instance saves a screenshot or starts a recording.
Elsewhere ==
  /\ \/ \E n \in OpenUnique(Stamp(now), "cast") : disk' = Put(disk, n, Cast(<<>>, FALSE))
     \/ \E n \in OpenUnique(Stamp(now), "ansi"), f \in Frames :
          disk' = Put(Put(disk, n, Shot(f)), [n EXCEPT !.ext = "png"], Shot(f))
  /\ UNCHANGED <<now, rec, want_shot, saved_cast, saved_shot, running, shot, seen, pngVars>>

\* Time passes, or the clock is set, back as well.
Clock ==
  /\ now' \in Seconds
  /\ UNCHANGED <<disk, rec, want_shot, saved_cast, saved_shot, running, shot, seen, pngVars>>

\* The program is killed: what is on the disk stays, the first writes of a
\* frame's line as well.
Die ==
  /\ running' = FALSE
  /\ disk' = disk \/ (pc = "idle" /\ rec.active /\ disk' = Torn)
  /\ UNCHANGED <<now, rec, want_shot, saved_cast, saved_shot, shot, seen, pngVars>>

\* The loop of main: nothing else happens in it while a picture is written.
Loop ==
  /\ pc = "idle"
  /\ RecStart \/ RecStop \/ AskShot \/ Exit \/ \E f \in Frames : ShowFrame(f)

Next ==
  /\ running
  /\ Loop \/ Picture \/ ShotDone \/ Die \/ Elsewhere \/ Clock

Bounded == Len(seen') <= MaxSeen /\ Cardinality(DOMAIN disk') <= MaxFiles

Spec == Init /\ [][Next /\ Bounded]_vars

-----------------------------------------------------------------------------
\* The variables have the values of their C types, and the active recording is
\* a file that is there.
TypeOK ==
  /\ now \in Seconds /\ DOMAIN disk \subseteq Name
  /\ \A n \in DOMAIN disk : disk[n] \in [frames : Seq(Frames), torn : BOOLEAN]
  /\ rec.active \in BOOLEAN /\ rec.frames \in Nat /\ rec.last \in Frames \cup {None}
  /\ rec.active => rec.path \in DOMAIN disk
  /\ want_shot \in BOOLEAN /\ running \in BOOLEAN

(***************************************************************************)
(* "Never overwrites" (recorder.h:66): whatever is captured by whom in the *)
(* same second, and wherever the clock is set, a file that is there stays  *)
(* as it is, but for the end of the recording that is active.              *)
(***************************************************************************)
NeverOverwrites ==
  [][\A n \in DOMAIN disk : n \in DOMAIN disk' /\ (disk'[n] # disk[n] => rec.active /\ n = rec.path)]_vars

(***************************************************************************)
(* "same stem as the .ansi so the pair belongs together" (recorder.c:574): *)
(* beside every picture is the text of the same frame.                     *)
(***************************************************************************)
PairBelongs ==
  \A n \in DOMAIN disk : n.ext = "png" =>
    /\ [n EXCEPT !.ext = "ansi"] \in DOMAIN disk
    /\ disk[n] = disk[[n EXCEPT !.ext = "ansi"]]

\* s without what repeats the element before it.
Distinct(s) == LET first == {k \in 1 .. Len(s) : k = 1 \/ s[k] # s[k - 1]}
               IN  [k \in 1 .. Cardinality(first) |->
                      s[CHOOSE m \in first : Cardinality({x \in first : x <= m}) = k]]

(***************************************************************************)
(* "It is exact ... Frames that did not change are skipped"                *)
(* (recorder.h:9-11): an active recording holds the frames shown since it  *)
(* was started, in order, without the repeats.                             *)
(***************************************************************************)
CastExact == rec.active => disk[rec.path].frames = Distinct(seen)

(***************************************************************************)
(* What the program reports as saved is there, and is whole.               *)
(***************************************************************************)
SavedIsThere ==
  \A n \in {saved_cast, saved_shot} \ {None} : n \in DOMAIN disk /\ ~disk[n].torn

(***************************************************************************)
(* "A crash never leaves half a picture" (recorder.h:84): every picture in *)
(* the directory is whole, wherever the program dies.                      *)
(***************************************************************************)
NeverHalf == \A n \in DOMAIN disk : n.ext = "png" => ~disk[n].torn

(***************************************************************************)
(* The stamps files are going to be named by are the calendar's dates on   *)
(* every day of Years, over leap years, both kinds of century and up to    *)
(* the cap: two days have two names, which sort as the days do.            *)
(***************************************************************************)
StampIsDate == DOMAIN disk = {} => DatesRight

(***************************************************************************)
(* What is in the directory is whole, belongs together, and is what the    *)
(* program reported, after any failure or end of the program.              *)
(***************************************************************************)
FilesWhole ==
  /\ PairBelongs
  /\ SavedIsThere
  /\ NeverHalf
  /\ NoTmpLeft

(***************************************************************************)
(* The types, and a recording that is exact.                               *)
(***************************************************************************)
CastSound ==
  /\ TypeOK
  /\ CastExact
=============================================================================
