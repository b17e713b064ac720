------------------------------ MODULE MCSession -------------------------------
(***************************************************************************)
(* Keys that mean something to the browser, the picker and the hotkeys,    *)
(* the arrows, sequences nobody handles: of each kind that is dropped, a   *)
(* key with a modifier, a letter with Alt; a mouse report; and             *)
(* plugins whose segments are apart, share a page, overlap, end in zeros   *)
(* behind the file's part or are nothing but zeros, or are malformed.      *)
(***************************************************************************)
EXTENDS Session

Hit(k) == [type |-> "key", key |-> k]
Unbound(bytes) == [type |-> "unbound", bytes |-> bytes]
Pointer(b, x, y, pressed) ==
  [type |-> "mouse", report |-> [b |-> b, x |-> x, y |-> y, pressed |-> pressed]]

MCEvents ==
  {Hit(k) : k \in {"m", "b", "q", "t", "/", "[", "CR", "DEL"}} \cup
  {[type |-> t] : t \in {"esc", "up", "down"}} \cup
  {Unbound(<<"ESC", "[", "C">>), Unbound(<<"ESC", "O", "q">>),
   Unbound(<<"ESC", "[", "M", "q", "b", "A">>),
   Unbound(<<"ESC", "[", "5", "q">>), Unbound(<<"ESC", "b">>)} \cup
  {Pointer(0, 12, 5, TRUE)}

\* Two names with a letter in common, one without.
MCNames == <<<<"m", "b">>, <<"j">>, <<"b", "m">>>>
MCPrintable == {"m", "b", "q", "t", "/", "[", "O", "<"}
MCLists == {<<>>, <<"ansi", "cast">>}

Load(v, m, f, o, w) ==
  [type |-> "LOAD", vaddr |-> v, memsz |-> m, filesz |-> f, offset |-> o, write |-> w, exec |-> FALSE]
MCPhdrs ==
  {Load(v, m, f, v % 2, TRUE) : v \in 0 .. 2, m \in 1 .. 3, f \in 0 .. 2} \cup
  {Load(v, 1, 1, v, FALSE) : v \in 0 .. 2} \cup
  {[Load(0, 1, 1, 0, TRUE) EXCEPT !.exec = TRUE], Load(2, 1, 1, 1, FALSE), Load(0, 3, 2, 3, TRUE)} \cup
  {[Load(2, 1, 1, 2, FALSE) EXCEPT !.type = "DYNAMIC"]}

Tbl(sym, nsym, rela, nrela) ==
  [sym |-> sym, nsym |-> nsym, str |-> 0, strsz |-> 1, hash |-> 0, rela |-> rela, nrela |-> nrela]
MCTables == {Tbl(0, 1, 2, 1), Tbl(0, 1, 2, 0), Tbl(0, 1, 0, 2), Tbl(0, 3, 0, 1)}

\* The user types in a session in colour, with a capture thread and no plugin.
MCTyping == {"camera", "rgb", "out", "thread"}

\* What no action reads is left out: what was handed out last, what a closed
\* panel was showing, the keyboard outside of the loop, and which image it is
\* that has been loaded (ImageSound has looked at each when it was).
Shown ==
  [ui EXCEPT !.out = 0,
             !.br = IF @.active THEN @ ELSE Closed,
             !.pk = IF @.active THEN @ ELSE Shut]
Keys0 ==
  IF stage = "loop" THEN <<sending, tty, pc, skip, parser, inbox, Shown>> ELSE <<ui.running>>
View == <<own, IF stage = "load" THEN image ELSE <<dl.pc>>, Keys0>>
=============================================================================
