------------------------------ MODULE Captures ------------------------------
(***************************************************************************)
(* What is recorded is replayed: when the program of Recorder has ended,   *)
(* or was killed, the panel or --play of another run (main.c) opens one of *)
(* the recordings that are there.                                          *)
(***************************************************************************)
EXTENDS Recorder, Replay

CONSTANTS
  Texts,       \* what frames look like, as sequences of characters
  Times,       \* recording times
  MaxReplayed  \* bound on the whole frames of a recording that is replayed

\* A frame has a text: its first character moves the cursor.
ASSUME TextsAssumption == \A x \in Texts : x \in Seq(Range(x)) \ {<<>>}

\* Times are of one digit.
ASSUME TimesAssumption == Times \subseteq 0 .. 9

\* The times of a recording do not go back: they are of CLOCK_MONOTONIC.
Ordered(ts) == \A j, k \in DOMAIN ts : j <= k => ts[j] <= ts[k]

\* A recording, with a text for each frame and a time for each event, and the
\* last line it was cut off in. Bound: nothing else is in the directory.
Play(n) ==
  /\ ~running /\ n.ext = "cast"
  /\ DOMAIN disk = {n} /\ Len(disk[n].frames) <= MaxReplayed
  /\ \E textOf \in [Frames -> Texts], ts \in [1 .. Len(disk[n].frames) -> Times],
        last \in [t : Times, data : Texts] :
       /\ \A f, g \in Frames : f # g => textOf[f] # textOf[g]
       /\ Ordered(Append(ts, last.t))
       /\ LET es == [k \in DOMAIN ts |-> [t |-> ts[k], data |-> textOf[disk[n].frames[k]]]]
          IN  IF disk[n].torn
              THEN \E left \in 0 .. Len(EventLine(last)) - 1 : Started(es, last, left)
              ELSE Started(es, NoEvent, 0)
  /\ UNCHANGED vars

CapturesNext ==
  \/ Next /\ Bounded /\ UNCHANGED replayVars
  \/ \E n \in DOMAIN disk : Play(n)
  \/ Replaying /\ UNCHANGED vars

\* Nothing is recorded and nothing is replayed.
CapturesInit == Init /\ NoReplay

CapturesSpec == CapturesInit /\ [][CapturesNext]_<<vars, replayVars>>
=============================================================================
