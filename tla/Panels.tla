-------------------------------- MODULE Panels --------------------------------
(***************************************************************************)
(* What a key or a mouse event does to the user interface of the main      *)
(* loop: the captures browser and the plugin picker own the keyboard while *)
(* they are open, the mouse goes to the frame, everything else is a hotkey.*)
(*                                                                         *)
(* The interface is a record:                                              *)
(*   br       the browser: active, the files it lists, the cursor          *)
(*   pk       the picker: active, the query, the cursor                    *)
(*   sel      the selected plugin                                          *)
(*   rec      a recording is active                                        *)
(*   view     "none", or what has taken over the screen: a "preview", a    *)
(*            recording that is "playing", the "footer" after it           *)
(*   running  keep_running                                                 *)
(*   out      the last thing handed to another part of the program, with a *)
(*            bit that flips each time: a hotkey that main.c's switch acts  *)
(*            on, a mouse event, a catalog entry to load                   *)
(***************************************************************************)
EXTENDS Integers, SequencesExt

CONSTANTS
  Names,       \* names of the plugin catalog, in its order: sequences of letters
  QUERY_MAX,   \* PICKER_QUERY_MAX
  Printable,   \* the bytes 32 to 126
  Lists,       \* what a scan of the captures may find: sequences of file types
  PLUGINS      \* plugins in the chain

ASSUME PanelsAssumption ==
  /\ QUERY_MAX \in Nat \ {0} /\ PLUGINS \in Nat
  /\ Printable \subseteq STRING
  /\ Names \in Seq(Seq(STRING))
  /\ <<>> \in Lists /\ Lists \subseteq Seq({"cast", "ansi", "png"})

Closed == [active |-> FALSE, files |-> <<>>, sel |-> 0]
Shut == [active |-> FALSE, query |-> <<>>, sel |-> 0]
Ui0 == [br |-> Closed, pk |-> Shut, sel |-> 0, rec |-> FALSE, view |-> "none",
        running |-> TRUE, out |-> [flip |-> 0, what |-> <<"none">>]]

Given(ui, what) == [ui EXCEPT !.out = [flip |-> 1 - @.flip, what |-> what]]

-----------------------------------------------------------------------------
\* browser_key, the cursor: it stops at both ends.
BrowserUp(b) == [b EXCEPT !.sel = IF @ > 0 THEN @ - 1 ELSE @]
BrowserDown(b) == [b EXCEPT !.sel = IF @ < Len(b.files) - 1 THEN @ + 1 ELSE @]

\* What Enter opens; a recording is not replayed while one is made.
Opened(ui) ==
  CASE ui.br.files[ui.br.sel + 1] = "ansi" -> [ui EXCEPT !.view = "preview"]
    [] ui.br.files[ui.br.sel + 1] = "cast" /\ ~ui.rec -> [ui EXCEPT !.view = "playing"]
    [] OTHER -> ui

(***************************************************************************)
(* A byte while the browser is open. A file that cannot be opened shows    *)
(* nothing; browser_clear_area draws only.                                 *)
(***************************************************************************)
BrowserKey(ui, c) ==
  CASE c \in {"CR", "NL"} -> IF ui.br.sel < Len(ui.br.files) THEN {ui, Opened(ui)} ELSE {ui}
    [] c \in {"b", "B", "q", "Q"} -> {[ui EXCEPT !.br.active = FALSE]}
    [] c = "k" -> {[ui EXCEPT !.br = BrowserUp(@)]}
    [] c = "j" -> {[ui EXCEPT !.br = BrowserDown(@)]}
    [] c = "g" -> {[ui EXCEPT !.br.sel = 0]}
    [] c = "G" -> {[ui EXCEPT !.br.sel = IF ui.br.files = <<>> THEN 0 ELSE Len(ui.br.files) - 1]}
    [] OTHER -> {ui}

-----------------------------------------------------------------------------
\* picker_name_match: the query is somewhere in the name.
NameMatch(name, query) ==
  \E k \in 0 .. Len(name) - Len(query) : SubSeq(name, k + 1, k + Len(query)) = query

\* picker_matches: entries of the catalog, in its order.
Matches(query) ==
  LET upTo[i \in 0 .. Len(Names)] ==
        IF i = 0 THEN <<>>
        ELSE IF NameMatch(Names[i], query) THEN Append(upTo[i - 1], i) ELSE upTo[i - 1]
  IN  upTo[Len(Names)]

\* The cursor goes round.
PickerMove(p, d) ==
  LET n == Len(Matches(p.query))
  IN  IF n = 0 THEN p ELSE [p EXCEPT !.sel = (@ + d + n) % n]

Erased(p) == IF p.query = <<>> THEN p ELSE [p EXCEPT !.query = Front(@), !.sel = 0]
\* Mutant: the cursor stays where it was in the longer list.
Typed_KeepsCursor(p, c) ==
  IF c \in Printable /\ Len(p.query) + 1 < QUERY_MAX THEN [p EXCEPT !.query = Append(@, c)] ELSE p

Typed(p, c) ==
  IF c \in Printable /\ Len(p.query) + 1 < QUERY_MAX
  THEN [p EXCEPT !.query = Append(@, c), !.sel = 0]
  ELSE p

\* Enter: the entry under the cursor is asked for, and the picker closes.
Chosen(ui) ==
  LET m == Matches(ui.pk.query)
      shut == [ui EXCEPT !.pk.active = FALSE]
  IN  IF m = <<>> THEN shut
      ELSE Given(shut, <<"load", m[IF ui.pk.sel >= Len(m) THEN Len(m) ELSE ui.pk.sel + 1]>>)

\* A byte while the picker is open.
PickerKey(ui, c) ==
  CASE c \in {"BS", "DEL"} -> [ui EXCEPT !.pk = Erased(@)]
    [] c \in {"CR", "NL"} -> Chosen(ui)
    [] OTHER -> [ui EXCEPT !.pk = Typed(@, c)]

-----------------------------------------------------------------------------
\* '/': the sources are read again, and the picker opens if there are any.
Slash(ui) == IF Names = <<>> THEN ui ELSE [ui EXCEPT !.pk = [Shut EXCEPT !.active = TRUE]]

(***************************************************************************)
(* A hotkey: quit, the browser with a fresh scan, a recording that starts  *)
(* if it can, or a setting that the switch of main.c changes.              *)
(***************************************************************************)
Hotkey(ui, c) ==
  CASE c \in {"q", "Q"} -> {[ui EXCEPT !.running = FALSE]}
    [] c \in {"b", "B"} -> {[ui EXCEPT !.br = [active |-> TRUE, files |-> l, sel |-> 0]] : l \in Lists}
    [] c \in {"t", "T"} -> {[ui EXCEPT !.rec = r] : r \in {FALSE, ~ui.rec}}
    [] OTHER -> {Given(ui, <<"key", c>>)}

\* Who owns a byte that is a key.
Key(ui, c) ==
  CASE ui.br.active -> BrowserKey(ui, c)
    [] ~ui.br.active /\ ui.pk.active -> {PickerKey(ui, c)}
    [] ~ui.br.active /\ ~ui.pk.active /\ c = "/" -> {Slash(ui)}
    [] OTHER -> Hotkey(ui, c)

\* The arrows: d is -1 for up, 1 for down.
Arrow(ui, d) ==
  CASE ui.br.active -> [ui EXCEPT !.br = IF d < 0 THEN BrowserUp(@) ELSE BrowserDown(@)]
    [] ~ui.br.active /\ ui.pk.active -> [ui EXCEPT !.pk = PickerMove(@, d)]
    [] OTHER -> IF PLUGINS = 0 THEN ui ELSE [ui EXCEPT !.sel = (@ + d + PLUGINS) % PLUGINS]

\* ESC on its own closes what is open, the browser first.
Escape(ui) ==
  IF ui.br.active THEN [ui EXCEPT !.br.active = FALSE]
  ELSE [ui EXCEPT !.pk.active = FALSE]

\* Mouse events go to mouse_drag_event whatever is open.
Mouse(ui, m) == Given(ui, <<"mouse", m>>)

\* A byte ends a preview, aborts a replay, leaves its footer.
Answered(ui) == [ui EXCEPT !.view = IF @ = "playing" THEN "footer" ELSE "none"]

\* The recording that plays is over, or cannot be read after all.
Played(ui) == [ui EXCEPT !.view = "footer"]
=============================================================================
