--------------------------------- MODULE Keys ---------------------------------
(***************************************************************************)
(* What the keyboard and the mouse promise: everything the user does is    *)
(* handled once, in order, by the part of the interface that owns it.      *)
(*                                                                         *)
(* An event may be torn, and then it may be misread; the events after it   *)
(* are not. Torn are                                                       *)
(*   - an event part of whose bytes come more than 25 ms after its ESC, or *)
(*     whose first byte a preview takes as "any key";                      *)
(*   - a sequence the loop does not know, longer than those it drops (F5,  *)
(*     Delete, a cursor key or a letter with a modifier): the rest of it   *)
(*     is taken for keys;                                                  *)
(*   - ESC and what is done before ESC is handled, which the loop cannot   *)
(*     tell from a sequence.                                               *)
(***************************************************************************)
EXTENDS Panels

CONSTANTS Events, MaxPending

VARIABLES ui, inbox

vars == <<ui, inbox>>

\* What the loop takes for one sequence: ESC [ x or ESC O x that no key is bound
\* to, and a mouse report of the old kind.
Swallowed(s) ==
  \/ Len(s) = 3 /\ s[2] = "[" /\ s[3] \notin {"A", "B", "M", "<"}
  \/ Len(s) = 3 /\ s[2] = "O"
  \/ Len(s) = 6 /\ s[2] = "[" /\ s[3] = "M"

\* A longer one, and a letter with Alt: the loop is through with it before it
\* ends, or takes it for ESC.
Longer(s) ==
  \/ Len(s) > 3 /\ s[2] = "[" /\ s[3] \notin {"M", "<"}
  \/ Len(s) > 1 /\ s[2] \notin {"[", "O"}

\* The loop may wait for more, or be through with it too soon: a lone ESC, a
\* sequence cut short, and one that only begins like those above.
Open(e) ==
  \/ e.type = "esc"
  \/ e.type = "unbound" /\ ~Swallowed(e.bytes) /\ ~Longer(e.bytes)

\* box and e, done after it: behind an event the loop is still open to, both
\* are torn.
RunsOn(box) == \E k \in DOMAIN box : Open(box[k].ev)
New(e) == [ev |-> e, torn |-> e.type = "unbound" /\ ~Swallowed(e.bytes)]
Done(box, e) ==
  IF RunsOn(box)
  THEN Append([box EXCEPT ![Len(box)].torn = TRUE], [ev |-> e, torn |-> TRUE])
  ELSE Append(box, New(e))

Init ==
  /\ ui = Ui0
  /\ inbox = <<>>

\* The user does something.
Do(e) ==
  /\ Len(inbox) < MaxPending
  /\ inbox' = Done(inbox, e)
  /\ UNCHANGED ui

\* What an event does to the interface.
Effect(u, e) ==
  CASE u.view # "none" -> {Answered(u)}
    [] u.view = "none" /\ e.type = "key" -> Key(u, e.key)
    [] u.view = "none" /\ e.type = "up" -> {Arrow(u, -1)}
    [] u.view = "none" /\ e.type = "down" -> {Arrow(u, 1)}
    [] u.view = "none" /\ e.type = "esc" -> {Escape(u)}
    [] u.view = "none" /\ e.type = "mouse" -> {Mouse(u, e.report)}
    [] u.view = "none" /\ e.type = "unbound" -> {u}

\* What is left of the keys typed ahead when a wait for a key begins: those
\* that had arrived are thrown away, and one may be cut in two.
Drained(box) ==
  Suffixes(box) \cup
  {[s EXCEPT ![1].torn = TRUE] : s \in Suffixes(box) \ {<<>>}}

Handle ==
  /\ inbox # <<>> /\ ~Head(inbox).torn
  /\ ui' \in Effect(ui, Head(inbox).ev)
  /\ inbox' \in IF ui'.view \notin {"none", ui.view} THEN Drained(Tail(inbox)) ELSE {Tail(inbox)}

\* Part of a sequence is late, or its ESC is taken by a preview.
TornHead(box) == [box EXCEPT ![1].torn = TRUE]
Tear ==
  /\ inbox # <<>> /\ Head(inbox).ev.type # "key"
  /\ inbox' = TornHead(inbox)
  /\ ui' \in {ui, Escape(ui), Answered(ui)}

\* What a torn event still does is not what was meant, and none but torn ones
\* go with it, unless it opens a preview.
AllTorn(box, n) == \A k \in 1 .. n : box[k].torn
Misread ==
  /\ inbox # <<>> /\ Head(inbox).torn
  /\ inbox' \in {s \in Suffixes(inbox) : AllTorn(inbox, Len(inbox) - Len(s))} \cup
                (IF ui'.view \notin {"none", ui.view} THEN Drained(Tail(inbox)) ELSE {})
  /\ DOMAIN ui' = DOMAIN ui

\* A recording that plays is over: its footer waits for a key.
PlayedOut ==
  /\ ui.view = "playing"
  /\ ui' = Played(ui)
  /\ inbox' \in Drained(inbox)

\* SIGINT, SIGTERM
Interrupt ==
  /\ ui' = [ui EXCEPT !.running = FALSE]
  /\ UNCHANGED inbox

Next ==
  \/ \E e \in Events : Do(e)
  \/ Handle
  \/ Tear
  \/ Misread
  \/ PlayedOut
  \/ Interrupt

Spec == Init /\ [][Next]_vars
=============================================================================
