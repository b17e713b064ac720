------------------------------- MODULE Replay -------------------------------
(***************************************************************************)
(* replay_core of src/browser.c, and the text of a recording it reads: the *)
(* lines rec_frame of src/recorder.c writes. The file is read into a       *)
(* buffer of CAP symbols, line by line; each event waits for its time on a *)
(* clock that stands still while paused and runs at the speed asked for,   *)
(* and the keyboard is looked at while it waits.                           *)
(*                                                                         *)
(* A symbol is a character, the header's object, a one-digit time, the     *)
(* text between time and data, or the four digits of a \u escape. Replay   *)
(* time is counted in parts of 1/ONE of a unit, so that speeds are whole:  *)
(* ONE is 1.0. Captures starts a replay.                                   *)
(***************************************************************************)
EXTENDS Integers, Sequences, SequencesExt

CONSTANTS
  CAP,                  \* the size of the buffer: 4 MiB
  SHORT,                \* what a read gives that does not give all it could
  ONE, SLOWEST, FASTEST,  \* speeds: 1.0, 0.0625 and 16.0
  STEP,                 \* the longest sleep: 50 ms
  LAG                   \* bound on how late a sleep ends or a write returns

ASSUME ReplayAssumption ==
  /\ {CAP, SHORT, ONE, SLOWEST, FASTEST, STEP} \subseteq Nat \ {0} /\ LAG \in Nat
  /\ SLOWEST <= ONE /\ ONE <= FASTEST

\* Doubling and halving 1.0 does not jump over the fastest or slowest speed.
ASSUME SpeedsAssumption ==
  \E S \in SUBSET (SLOWEST .. FASTEST) :
     /\ {ONE, FASTEST} \subseteq S
     /\ \A s \in S : /\ s < FASTEST => 2 * s \in S
                     /\ s > SLOWEST => s \div 2 \in S

VARIABLES
  rp,                   \* where replay_core is
  opt,                  \* from the panel or by --play, in a loop or not
  text, at,             \* the file, and how much of it was read
  buf, start, eof,      \* the buffer and its line_start
  ev,                   \* out_time and out_data of the line at hand
  cur, owed,            \* cur_t, and the time since last_ns
  speed, paused,
  played, aborted,      \* events_played > 0; aborted_local
  broke,                \* the loop was left by an error
  shown,                \* what the screen shows since it was cleared, by event
  ran,                  \* history: time the replay was not paused
  told                  \* history: the events of the file, and one cut off

replayVars == <<rp, opt, text, at, buf, start, eof, ev, cur, owed, speed, paused,
                played, aborted, broke, shown, ran, told>>

-----------------------------------------------------------------------------
Digits == <<"0", "1", "2", "3", "4", "5", "6", "7", "8", "9">>
Hex == [NL |-> "000a", CR |-> "000d", ESC |-> "001b"]
Upto(a, b) == IF a < b THEN a ELSE b

\* Mutant: control characters are written as they are.
Escaped_ControlsPass(c) == IF c \in {"\"", "\\"} THEN <<"\\", c>> ELSE <<c>>

\* json_byte
Escaped(c) ==
  IF c \in {"\"", "\\"} THEN <<"\\", c>>
  ELSE IF c \in DOMAIN Hex THEN <<"\\", "u", Hex[c]>> ELSE <<c>>

\* rec_frame: the line of an event.
EventLine(e) ==
  <<"[", Digits[e.t + 1], ", \"o\", \"">>
    \o FlattenSeq([i \in DOMAIN e.data |-> Escaped(e.data[i])])
    \o <<"\"", "]", "NL">>

CastText(es) == <<"{}", "NL">> \o FlattenSeq([k \in DOMAIN es |-> EventLine(es[k])])

Bad == [ok |-> FALSE, data |-> <<>>]
Before(c, r) == IF r.ok THEN [r EXCEPT !.data = <<c>> \o @] ELSE Bad

\* Mutant: the character after a backslash is read a second time.
DataAt_Rereads(line) ==
  LET Read[p \in 4 .. Len(line) + 2] ==
        IF p > Len(line) \/ line[p] = "\"" THEN [ok |-> TRUE, data |-> <<>>]
        ELSE IF line[p] # "\\" THEN Before(line[p], Read[p + 1])
        ELSE IF p = Len(line) THEN Bad
        ELSE Before(line[p + 1], Read[p + 1])
  IN  Read[4]

(***************************************************************************)
(* parse_event from the data on, to its quote or the end of the line: an   *)
(* escape that is unknown or cut off refuses the line, a missing quote     *)
(* does not.                                                               *)
(***************************************************************************)
DataAt(line) ==
  LET Read[p \in 4 .. Len(line) + 1] ==
        IF p > Len(line) \/ line[p] = "\"" THEN [ok |-> TRUE, data |-> <<>>]
        ELSE IF line[p] # "\\" THEN Before(line[p], Read[p + 1])
        ELSE IF p = Len(line) THEN Bad
        ELSE IF line[p + 1] \in {"\"", "\\"} THEN Before(line[p + 1], Read[p + 2])
        ELSE IF line[p + 1] # "u" \/ p + 1 = Len(line) THEN Bad
        ELSE IF \E c \in DOMAIN Hex : Hex[c] = line[p + 2]
             THEN Before(CHOOSE c \in DOMAIN Hex : Hex[c] = line[p + 2], Read[p + 3])
        ELSE Bad
  IN  Read[4]

\* parse_event: [ok, t, data].
Parsed(line) ==
  IF Len(line) < 3 \/ line[1] # "[" \/ line[3] # ", \"o\", \"" THEN [ok |-> FALSE]
  ELSE LET d == DataAt(line)
       IN  [ok |-> d.ok, data |-> d.data,
            t |-> (CHOOSE n \in DOMAIN Digits : Digits[n] = line[2]) - 1]

NoEvent == [t |-> 0, data |-> <<>>]

-----------------------------------------------------------------------------
NoReplay ==
  /\ rp = "off" /\ opt = [panel |-> FALSE, loop |-> FALSE]
  /\ text = <<>> /\ at = 0 /\ buf = <<>> /\ start = 0 /\ eof = FALSE
  /\ ev = NoEvent /\ cur = 0 /\ owed = 0 /\ speed = ONE /\ paused = FALSE
  /\ played = FALSE /\ aborted = FALSE /\ broke = FALSE
  /\ shown = <<>> /\ ran = 0
  /\ told = [events |-> <<>>, cut |-> NoEvent]

(***************************************************************************)
(* browser_replay_cast, or browser_play_cast with --speed and --loop, on a *)
(* file of these events, in whose last line, if left >= 0, only left       *)
(* symbols were written.                                                   *)
(***************************************************************************)
Started(es, cutoff, left) ==
  /\ rp = "off" /\ rp' = "refill"
  /\ \/ opt' = [panel |-> TRUE, loop |-> FALSE] /\ speed' = ONE
     \/ \E l \in BOOLEAN : opt' = [panel |-> FALSE, loop |-> l] /\ speed' \in {ONE, FASTEST}
  /\ text' = CastText(es) \o SubSeq(EventLine(cutoff), 1, left)
  /\ told' = [events |-> es, cut |-> cutoff]
  /\ UNCHANGED <<at, buf, start, eof, ev, cur, owed, paused, played, aborted, broke, shown, ran>>

\* The read of a turn of the loop: some of what is there, its end, or an error.
Refill ==
  /\ rp = "refill"
  /\ start' = 0
  /\ \/ /\ ~eof /\ Len(buf) < CAP /\ at < Len(text)
        /\ \E n \in {Upto(m, Len(text) - at) : m \in {Upto(SHORT, CAP - Len(buf)), CAP - Len(buf)}} :
             at' = at + n /\ buf' = buf \o SubSeq(text, at + 1, at + n)
        /\ rp' = "lines" /\ UNCHANGED <<eof, broke>>
     \/ /\ ~eof /\ Len(buf) < CAP /\ at = Len(text)
        /\ eof' = TRUE /\ rp' = "lines" /\ UNCHANGED <<at, buf, broke>>
     \/ /\ ~eof /\ Len(buf) < CAP
        /\ broke' = TRUE /\ rp' = "over" /\ UNCHANGED <<at, buf, eof>>
     \/ /\ eof
        /\ rp' = "lines" /\ UNCHANGED <<at, buf, eof, broke>>
  /\ UNCHANGED <<opt, text, ev, cur, owed, speed, paused, played, aborted, shown, ran, told>>

\* The next complete line, if there is one: an event, or what is not.
Line ==
  /\ rp = "lines"
  /\ LET nl == {i \in start + 1 .. Len(buf) : buf[i] = "NL"}
     IN  \/ /\ nl = {}
            /\ rp' = "tail" /\ UNCHANGED <<start, ev>>
         \/ \E i \in nl :
              LET e == Parsed(SubSeq(buf, start + 1, i - 1))
              IN  /\ \A j \in nl : i <= j
                  /\ start' = i
                  /\ IF e.ok THEN rp' = "wait" /\ ev' = [t |-> e.t, data |-> e.data]
                             ELSE UNCHANGED <<rp, ev>>
  /\ UNCHANGED <<opt, text, at, buf, eof, cur, owed, speed, paused, played, aborted, broke,
                 shown, ran, told>>

Early == cur < ONE * ev.t \/ paused

\* A key that ends the replay: any in the panel, q in --play.
Abort ==
  /\ rp = "wait" /\ Early
  /\ rp' = "over" /\ aborted' = TRUE
  /\ UNCHANGED <<opt, text, at, buf, start, eof, ev, cur, owed, speed, paused, played, broke,
                 shown, ran, told>>

\* No key, or one of --play's: space, + and -.
Keyed ==
  \/ UNCHANGED <<speed, paused>>
  \/ ~opt.panel /\ paused' = ~paused /\ UNCHANGED speed
  \/ ~opt.panel /\ speed < FASTEST /\ speed' = 2 * speed /\ UNCHANGED paused
  \/ ~opt.panel /\ speed > SLOWEST /\ speed' = speed \div 2 /\ UNCHANGED paused

\* Mutant: the time spent paused is counted when it goes on.
Tick_PauseCounts ==
  /\ rp = "wait" /\ Early
  /\ Keyed
  /\ LET step == IF paused' THEN STEP ELSE Upto(STEP, (ONE * ev.t - cur) \div speed' + 1)
     IN  \E slept \in {step, step + LAG} :
           IF paused' THEN owed' = STEP /\ UNCHANGED <<cur, ran>>
           ELSE /\ cur' = cur + (owed + slept) * speed' /\ owed' = 0
                /\ ran' = ran + slept
  /\ UNCHANGED <<rp, opt, text, at, buf, start, eof, ev, played, aborted, broke, shown, told>>

\* A turn of the loop that waits: a key, a sleep, and the clock.
Tick ==
  /\ rp = "wait" /\ Early
  /\ Keyed
  /\ LET step == IF paused' THEN STEP ELSE Upto(STEP, (ONE * ev.t - cur) \div speed' + 1)
     IN  \E slept \in {step, step + LAG} :
           IF paused' THEN UNCHANGED <<cur, ran>>
           ELSE cur' = cur + (owed + slept) * speed' /\ ran' = ran + slept
  /\ owed' = 0
  /\ UNCHANGED <<rp, opt, text, at, buf, start, eof, ev, played, aborted, broke, shown, told>>

\* The event's bytes go to the terminal, which takes a while.
Show ==
  /\ rp = "wait" /\ ~Early
  /\ rp' = "lines"
  /\ shown' = IF ev.data = <<>> THEN shown ELSE Append(shown, ev.data)
  /\ played' = TRUE
  /\ ev' = NoEvent
  /\ \E late \in {0, LAG} : owed' = owed + late /\ ran' = ran + late
  /\ UNCHANGED <<opt, text, at, buf, start, eof, cur, speed, paused, aborted, broke, told>>

\* At the end of the file what has no newline is a last line, shown at once.
LastLine ==
  /\ rp = "tail"
  /\ IF eof /\ start < Len(buf)
     THEN LET e == Parsed(SubSeq(buf, start + 1, Len(buf)))
          IN  /\ shown' = IF e.ok /\ e.data # <<>> THEN Append(shown, e.data) ELSE shown
              /\ played' = (played \/ e.ok)
              /\ start' = Len(buf)
     ELSE UNCHANGED <<shown, played, start>>
  /\ rp' = "move"
  /\ UNCHANGED <<opt, text, at, buf, eof, ev, cur, owed, speed, paused, aborted, broke, ran, told>>

\* Mutant: a line that is not complete yet is not kept.
Moved_Drops == IF start > 0 THEN <<>> ELSE buf

\* What was not looked at moves to the start of the buffer.
Moved == SubSeq(buf, start + 1, Len(buf))

\* The end of a turn: on, again from the top, or over.
Turn ==
  /\ rp = "move"
  /\ buf' = Moved
  /\ \/ /\ eof /\ buf' = <<>> /\ opt.loop /\ played
        /\ \/ /\ rp' = "refill" /\ at' = 0 /\ eof' = FALSE
              /\ cur' = 0 /\ owed' = 0 /\ ran' = 0 /\ shown' = <<>> /\ UNCHANGED broke
           \/ rp' = "over" /\ broke' = TRUE /\ UNCHANGED <<at, eof, cur, owed, ran, shown>>
     \/ /\ eof /\ buf' = <<>> /\ ~(opt.loop /\ played)
        /\ rp' = "over" /\ UNCHANGED <<at, eof, cur, owed, ran, shown, broke>>
     \/ /\ ~(eof /\ buf' = <<>>) /\ Len(buf') = CAP
        /\ rp' = "over" /\ broke' = TRUE /\ UNCHANGED <<at, eof, cur, owed, ran, shown>>
     \/ /\ ~(eof /\ buf' = <<>>) /\ Len(buf') < CAP
        /\ rp' = "refill" /\ UNCHANGED <<at, eof, cur, owed, ran, shown, broke>>
  /\ start' = 0
  /\ UNCHANGED <<opt, text, ev, speed, paused, played, aborted, told>>

\* It returns; the panel's footer waits for a key first.
Returned ==
  /\ rp = "over" /\ rp' = "closed"
  /\ UNCHANGED <<opt, text, at, buf, start, eof, ev, cur, owed, speed, paused, played, aborted,
                 broke, shown, ran, told>>

Replaying == Refill \/ Line \/ Abort \/ Tick \/ Show \/ LastLine \/ Turn \/ Returned

-----------------------------------------------------------------------------
(***************************************************************************)
(* The pictures shown are those recorded, byte for byte and in order,      *)
(* however the file is cut into reads. Only the event a crash or a full    *)
(* disk cut off may be shown in part, and it is shown last.                *)
(***************************************************************************)
ShownIsRecorded ==
  LET n == Len(told.events)
  IN  /\ Len(shown) <= n + 1
      /\ \A k \in 1 .. Upto(n, Len(shown)) : shown[k] = told.events[k].data
      /\ Len(shown) = n + 1 => IsPrefix(shown[n + 1], told.cut.data)

\* A replay nobody ended shows every event there is: no line that fits the
\* buffer is lost between two reads.
NothingMissed ==
  rp \in {"over", "closed"} /\ ~aborted /\ ~broke => Len(shown) >= Len(told.events)

(***************************************************************************)
(* "Advances with wall time scaled by speed, stands still while paused"    *)
(* (browser.c:730): in the panel the clock is the time that passed, what   *)
(* late sleeps and slow writes took included; no speed makes it run ahead  *)
(* of the time that was not paused. A sleep is never asked for a negative  *)
(* time.                                                                   *)
(***************************************************************************)
Paced ==
  /\ opt.panel /\ rp # "off" => cur + owed * ONE = ran * ONE
  /\ cur <= FASTEST * ran
  /\ paused => cur < ONE * ev.t

(***************************************************************************)
(* What a recording is for: it comes back as it was, at its pace.          *)
(***************************************************************************)
ReplayExact ==
  /\ ShownIsRecorded
  /\ NothingMissed
  /\ Paced
=============================================================================
