------------------------------- MODULE Keyboard -------------------------------
(***************************************************************************)
(* How the main loop reads the keyboard and the mouse, byte by byte        *)
(* (src/main.c, the parser of src/mouse.c): keys, escape sequences that    *)
(* arrive in pieces, mouse reports, and the previews and replays that read *)
(* keys of their own (src/browser.c). It implements Keys.                  *)
(*                                                                         *)
(* A sequence reaches the program one byte at a time, and a piece may be   *)
(* late. A lone ESC is told from a sequence by 25 ms of silence; what is   *)
(* done before the loop has come to it is taken with it.                   *)
(***************************************************************************)
EXTENDS Panels

CONSTANTS
  Events,       \* what the user may do, see Encoding
  MaxPending    \* bound: events that are not handled yet

\* What a field of a report holds: at most five digits.
Fields == 0 .. 99999

\* ESC is an event of its own; what no key is bound to starts with it.
ASSUME EventsAssumption ==
  /\ MaxPending \in Nat
  /\ \A e \in Events :
       \/ e.type = "key" /\ e.key \in STRING \ {"ESC"}
       \/ e.type \in {"esc", "up", "down"}
       \/ /\ e.type = "unbound" /\ e.bytes \in Seq(STRING) /\ e.bytes # <<>>
          /\ \A k \in 1 .. Len(e.bytes) : e.bytes[k] = "ESC" <=> k = 1
       \/ e.type = "mouse" /\ e.report \in [b : Fields, x : Fields, y : Fields, pressed : BOOLEAN]

VARIABLES
  sending,   \* bytes of the last event that have not arrived
  tty,       \* bytes that have arrived
  pc,        \* "loop", or what read_escape_byte waits for: "esc", "csi", "skip"
  skip,      \* bytes still to swallow
  parser,    \* mouse_parser_t
  ui,        \* see Panels
  inbox      \* history: events whose bytes are not all handled, see Keys

keyVars == <<sending, tty, pc, skip, parser, ui, inbox>>

Promise == INSTANCE Keys

Numerals == <<"1", "2", "3", "4", "5", "6", "7", "8", "9">>
Digit(n) == IF n = 0 THEN "0" ELSE Numerals[n]
ValueOf(c) == IF c = "0" THEN 0 ELSE CHOOSE n \in 1 .. 9 : Numerals[n] = c
IsDigit(c) == c = "0" \/ c \in ToSet(Numerals)

\* A number of up to five digits, without zeros in front.
Places == <<1, 10, 100, 1000, 10000>>
Decimal(n) ==
  LET width == Max({k \in 1 .. 5 : k = 1 \/ n >= Places[k]})
  IN  [k \in 1 .. width |-> Digit((n \div Places[width + 1 - k]) % 10)]

\* What a terminal sends; unbound events carry their bytes.
Encoding(e) ==
  CASE e.type = "key" -> <<e.key>>
    [] e.type = "esc" -> <<"ESC">>
    [] e.type = "up" -> <<"ESC", "[", "A">>
    [] e.type = "down" -> <<"ESC", "[", "B">>
    [] e.type = "unbound" -> e.bytes
    [] e.type = "mouse" ->
         <<"ESC", "[", "<">> \o Decimal(e.report.b) \o <<";">> \o Decimal(e.report.x)
           \o <<";">> \o Decimal(e.report.y) \o <<IF e.report.pressed THEN "M" ELSE "m">>

NoReport == [state |-> 0, val |-> <<0, 0, 0>>, digits |-> 0]

KeyboardInit ==
  /\ sending = <<>> /\ tty = <<>>
  /\ pc = "loop" /\ skip = 0
  /\ parser = NoReport
  /\ ui = Ui0
  /\ inbox = <<>>

-----------------------------------------------------------------------------
\* The bytes of the events in box, and the events the last n bytes belong to.
Bytes(box) == FlattenSeq([k \in DOMAIN box |-> Encoding(box[k].ev)])
Size(box) == Len(Bytes(box))
Unhandled(box, n) ==
  IF n = 0 THEN <<>> ELSE CHOOSE s \in Suffixes(box) :
    /\ Size(s) >= n
    /\ \A r \in Suffixes(box) : Size(r) >= n => Len(s) <= Len(r)

Unread == Len(tty') + Len(sending')
TornHead(box) == IF box = <<>> THEN box ELSE [box EXCEPT ![1].torn = TRUE]
\* The first event of s has lost bytes to something else.
Cut(s, n) == IF n < Size(s) THEN TornHead(s) ELSE s

\* Back in the loop and not in a report, an event whose bytes are all gone is
\* handled.
Settled ==
  inbox' = IF pc' = "loop" /\ parser'.state = 0 THEN Unhandled(inbox, Unread) ELSE inbox

\* drain_keys: what has arrived is thrown away.
DrainedInbox == inbox' = Cut(Unhandled(inbox, Len(sending)), Len(sending))
-----------------------------------------------------------------------------
\* The user does something.
Do(e) ==
  /\ Len(inbox) < MaxPending
  /\ sending = <<>>
  /\ sending' = Encoding(e)
  /\ inbox' = Promise!Done(inbox, e)
  /\ UNCHANGED <<tty, pc, skip, parser, ui>>

Arrive ==
  /\ sending # <<>>
  /\ tty' = Append(tty, Head(sending))
  /\ sending' = Tail(sending)
  /\ UNCHANGED <<pc, skip, parser, ui, inbox>>

\* A byte is read.
Read ==
  /\ tty # <<>>
  /\ tty' = Tail(tty)
  /\ UNCHANGED sending

InLoop == pc = "loop" /\ ui.view = "none" /\ Read

\* mouse_parser_feed
Begun == [state |-> 1, val |-> <<0, 0, 0>>, digits |-> 0]
FedDigit(p, c) ==
  [p EXCEPT !.digits = @ + 1, !.val[p.state] = @ * 10 + ValueOf(c)]
NextField(p) == [p EXCEPT !.state = @ + 1, !.digits = 0]
IsMore(p, c) ==
  \/ IsDigit(c) /\ p.digits < 5
  \/ c = ";" /\ p.state < 3 /\ p.digits > 0
IsDone(p, c) == c \in {"M", "m"} /\ p.state = 3 /\ p.digits > 0
Report(p, c) == [b |-> p.val[1], x |-> p.val[2], y |-> p.val[3], pressed |-> c = "M"]

\* A byte of a mouse report, which is not for the keys.
FeedMore ==
  /\ InLoop /\ parser.state # 0 /\ IsMore(parser, Head(tty))
  /\ parser' = IF IsDigit(Head(tty)) THEN FedDigit(parser, Head(tty)) ELSE NextField(parser)
  /\ UNCHANGED <<pc, skip, ui>>
  /\ Settled

\* Mutant: the parser is not reset after a report.
FeedDone_StaysOn ==
  /\ InLoop /\ parser.state # 0 /\ IsDone(parser, Head(tty))
  /\ ui' = Mouse(ui, Report(parser, Head(tty)))
  /\ UNCHANGED <<pc, skip, parser>>
  /\ Settled

\* The last byte: the event goes to the frame. The loop ends here after a quit.
FeedDone ==
  /\ InLoop /\ parser.state # 0 /\ IsDone(parser, Head(tty))
  /\ parser' = NoReport
  /\ ui' = Mouse(ui, Report(parser, Head(tty)))
  /\ pc' = IF ui.running THEN pc ELSE "end"
  /\ inbox' = Unhandled(inbox, Unread)
  /\ UNCHANGED skip

\* A byte that is no part of a report ends the parser and is a key.
IsKey == parser.state = 0 \/ ~(IsMore(parser, Head(tty)) \/ IsDone(parser, Head(tty)))

ReadEsc ==
  /\ InLoop /\ IsKey /\ Head(tty) = "ESC"
  /\ pc' = "esc"
  /\ parser' = NoReport
  /\ UNCHANGED <<skip, ui, inbox>>

\* A key: when it opens a preview or a replay, what has arrived is thrown away.
ReadKey ==
  /\ pc = "loop" /\ ui.view = "none" /\ tty # <<>> /\ IsKey /\ Head(tty) # "ESC"
  /\ ui' \in Key(ui, Head(tty))
  /\ parser' = NoReport
  /\ IF ui'.view = "none"
     THEN Read
     ELSE tty' = <<>> /\ UNCHANGED sending
  /\ UNCHANGED <<pc, skip>>
  /\ IF ui'.view = "none" THEN Settled ELSE DrainedInbox

-----------------------------------------------------------------------------
\* read_escape_byte gives the byte after ESC.
AfterEsc ==
  /\ pc = "esc" /\ Read
  /\ CASE Head(tty) = "O" -> pc' = "skip" /\ skip' = 1 /\ UNCHANGED ui
       [] Head(tty) = "[" -> pc' = "csi" /\ UNCHANGED <<skip, ui>>
       [] OTHER -> pc' = "loop" /\ ui' = Escape(ui) /\ UNCHANGED skip
  /\ UNCHANGED parser
  /\ Settled

\* Mutant: two bytes of payload.
AfterCsi_ShortX10 ==
  /\ pc = "csi" /\ Read
  /\ CASE Head(tty) = "<" -> pc' = "loop" /\ parser' = Begun /\ UNCHANGED <<skip, ui>>
       [] Head(tty) = "M" -> pc' = "skip" /\ skip' = 2 /\ UNCHANGED <<parser, ui>>
       [] Head(tty) = "A" -> pc' = "loop" /\ ui' = Arrow(ui, -1) /\ UNCHANGED <<skip, parser>>
       [] Head(tty) = "B" -> pc' = "loop" /\ ui' = Arrow(ui, 1) /\ UNCHANGED <<skip, parser>>
       [] OTHER -> pc' = "loop" /\ UNCHANGED <<skip, parser, ui>>
  /\ Settled

\* The byte after ESC [: a report begins, three bytes of an old report are
\* swallowed, an arrow is handled, anything else is dropped.
AfterCsi ==
  /\ pc = "csi" /\ Read
  /\ CASE Head(tty) = "<" -> pc' = "loop" /\ parser' = Begun /\ UNCHANGED <<skip, ui>>
       [] Head(tty) = "M" -> pc' = "skip" /\ skip' = 3 /\ UNCHANGED <<parser, ui>>
       [] Head(tty) = "A" -> pc' = "loop" /\ ui' = Arrow(ui, -1) /\ UNCHANGED <<skip, parser>>
       [] Head(tty) = "B" -> pc' = "loop" /\ ui' = Arrow(ui, 1) /\ UNCHANGED <<skip, parser>>
       [] OTHER -> pc' = "loop" /\ UNCHANGED <<skip, parser, ui>>
  /\ Settled

Swallow ==
  /\ pc = "skip" /\ Read
  /\ skip' = skip - 1
  /\ pc' = IF skip = 1 THEN "loop" ELSE "skip"
  /\ UNCHANGED <<parser, ui>>
  /\ Settled

(***************************************************************************)
(* 25 ms without a byte: it was a lone ESC, or the sequence is given up.   *)
(* When bytes are still to come, they are late.                            *)
(***************************************************************************)
Silence ==
  /\ pc \in {"esc", "csi", "skip"} /\ tty = <<>>
  /\ pc' = "loop" /\ skip' = 0
  /\ ui' = IF pc = "esc" THEN Escape(ui) ELSE ui
  /\ inbox' = TornHead(Unhandled(inbox, Len(sending)))
  /\ UNCHANGED <<sending, tty, parser>>

-----------------------------------------------------------------------------
\* A preview or the footer after a replay reads a byte, any byte.
ViewKey ==
  /\ ui.view \in {"preview", "footer"} /\ Read
  /\ ui' = Answered(ui)
  /\ inbox' = Cut(Unhandled(inbox, Unread), Unread)
  /\ UNCHANGED <<pc, skip, parser>>

\* So does a replay, whose footer throws away what else has arrived.
AbortPlay ==
  /\ ui.view = "playing" /\ tty # <<>>
  /\ ui' = Answered(ui)
  /\ tty' = <<>>
  /\ DrainedInbox
  /\ UNCHANGED <<sending, pc, skip, parser>>

\* The recording is over.
PlayedOut ==
  /\ ui.view = "playing"
  /\ ui' = Played(ui)
  /\ tty' = <<>>
  /\ DrainedInbox
  /\ UNCHANGED <<sending, pc, skip, parser>>

\* SIGINT, SIGTERM
Interrupt ==
  /\ ui.running
  /\ ui' = [ui EXCEPT !.running = FALSE]
  /\ UNCHANGED <<sending, tty, pc, skip, parser, inbox>>

\* No byte is left: the loop ends if it is to end.
Leave ==
  /\ pc = "loop" /\ ui.view = "none" /\ tty = <<>> /\ ~ui.running
  /\ pc' = "end"
  /\ UNCHANGED <<sending, tty, skip, parser, ui, inbox>>

KeyboardNext ==
  \/ \E e \in Events : Do(e)
  \/ Arrive
  \/ FeedMore \/ FeedDone \/ ReadEsc \/ ReadKey
  \/ AfterEsc \/ AfterCsi \/ Swallow \/ Silence
  \/ ViewKey \/ AbortPlay \/ PlayedOut
  \/ Interrupt \/ Leave

KeyboardSpec == KeyboardInit /\ [][KeyboardNext]_keyVars

-----------------------------------------------------------------------------
KeyboardTypeOK ==
  /\ pc \in {"loop", "esc", "csi", "skip", "end"}
  /\ skip \in 0 .. 3
  /\ parser.state \in 0 .. 3 /\ parser.digits \in 0 .. 5
  /\ Len(inbox) <= MaxPending
  /\ ui.view \in {"none", "preview", "playing", "footer"}
  /\ ui.br.sel \in 0 .. Max({0, Len(ui.br.files) - 1})
  /\ ui.sel \in 0 .. Max({0, PLUGINS - 1})
  /\ Len(ui.pk.query) < QUERY_MAX

\* The picker's cursor is on an entry that matches, if any does: Enter loads
\* what the picker shows.
CursorOnMatch ==
  ui.pk.active => ui.pk.sel \in 0 .. Max({0, Len(Matches(ui.pk.query)) - 1})

\* Nothing is read for the main loop while something else has the screen.
ViewsInLoop == ui.view # "none" => pc = "loop"

\* What has not been read is the end of what the user did: no byte of an event
\* is read twice, and none is lost between the events.
InboxCovers == tty \o sending \in Suffixes(Bytes(inbox))

KeyboardSound == KeyboardTypeOK /\ CursorOnMatch /\ ViewsInLoop /\ InboxCovers

\* What the user does is handled once, in order, and by the part that owns it:
\* a report never reaches the keys, a swallowed payload never quits.
HandlesEvents == Promise!Spec
=============================================================================
