-------------------------------- MODULE Session --------------------------------
(***************************************************************************)
(* A run of the program (main of src/main.c): what is acquired one after   *)
(* the other when it starts, the ways out when a part of that fails, the   *)
(* loop with its keyboard (Keyboard), the end, and signals at any moment.  *)
(* A plugin given with -p is copied and mapped (src/plugins.c, NlDlfcn).   *)
(*                                                                         *)
(* What the user types before the terminal is raw is flushed by tcsetattr  *)
(* and left out. With --play FILE the program shows a recording and ends.  *)
(***************************************************************************)
EXTENDS Keyboard

CONSTANTS PAGE, ADDRESSES, MAX_VADDR, MAX_SPAN, FSIZE, PHNUM, Phdrs, Tables

\* Sizes and addresses are unsigned; the address space holds what NL_MAX_VADDR
\* and NL_MAX_SPAN let through, with room for the image to end on a page.
ASSUME ImageAssumption ==
  /\ PAGE \in Nat \ {0} /\ ADDRESSES \in Nat /\ PHNUM \in Nat
  /\ MAX_VADDR \in Nat /\ MAX_SPAN \in Nat /\ FSIZE \in Nat
  /\ MAX_VADDR + MAX_SPAN <= ADDRESSES * PAGE
  /\ \A p \in Phdrs : /\ {p.vaddr, p.memsz, p.filesz, p.offset} \subseteq Nat
                      /\ p.write \in BOOLEAN /\ p.exec \in BOOLEAN
  /\ \A t \in Tables :
       {t.hash, t.sym, t.nsym, t.str, t.strsz, t.rela, t.nrela} \subseteq Nat

CONSTANT Typing   \* bound: the user types in sessions without a plugin that hold this

VARIABLES
  stage,    \* where main is
  screen,     \* the terminal: alternate screen, hidden cursor, raw mode, mouse reports
  flagged,  \* raw_mode_active
  held,     \* what the program has acquired
  copies,   \* private copies of plugins on disk
  dl, mem, relocated

Dl == INSTANCE NlDlfcn

image == <<dl, mem, relocated>>
own == <<stage, screen, flagged, held, copies>>
all == <<own, keyVars, image>>

Shell == [alt |-> FALSE, hidden |-> FALSE, raw |-> FALSE, mouse |-> FALSE]

SessionInit ==
  /\ KeyboardInit /\ Dl!DlInit
  /\ stage = "options"
  /\ screen = Shell /\ flagged = FALSE
  /\ held = {} /\ copies = {}

Go(from, to) == stage = from /\ stage' = to
Quiet == UNCHANGED <<keyVars, image>>
Gets(x) == held' = held \cup {x} /\ UNCHANGED <<screen, flagged, copies>> /\ Quiet
Keeps == UNCHANGED <<screen, flagged, held, copies>> /\ Quiet

-----------------------------------------------------------------------------
\* --play: the file can be opened, or the program ends.
PlayProbe ==
  /\ stage = "options"
  /\ stage' \in {"playEnter", "refused"}
  /\ Keeps

PlayEnter ==
  /\ Go("playEnter", "playRaw")
  /\ screen' = [screen EXCEPT !.alt = TRUE, !.hidden = TRUE]
  /\ UNCHANGED <<flagged, held, copies>> /\ Quiet

\* The recording is over, aborted, or could not be read after all.
PlayEnd ==
  /\ Go("playing", "playRestore")
  /\ Keeps

\* SCREEN_LEAVE
PlayLeave ==
  /\ Go("playLeave", "exit")
  /\ screen' = [screen EXCEPT !.alt = FALSE, !.hidden = FALSE]
  /\ UNCHANGED <<flagged, held, copies>> /\ Quiet

-----------------------------------------------------------------------------
\* plugin_slot_add for the plugin given with -p, or none is given.
NoPlugin == Go("options", "camera") /\ Keeps

\* make_private_copy: beside the library, in /tmp, or the library itself.
CopyPlugin ==
  /\ Go("options", "load")
  /\ copies' \in {{}, {"beside"}, {"tmp"}}
  /\ UNCHANGED <<screen, flagged, held>> /\ Quiet

\* dlopen goes on.
LoadPlugin ==
  /\ stage = "load" /\ dl.pc \notin {"open", "failed"}
  /\ Dl!DlNext
  /\ UNCHANGED <<own, keyVars>>

\* dlopen failed: the copy is removed, the program goes on without.
LoadFailed ==
  /\ Go("load", "camera") /\ dl.pc = "failed"
  /\ copies' = {}
  /\ UNCHANGED <<screen, flagged, held>> /\ Quiet

\* No plugin_get, or another interface: the library is closed again.
LoadRefused ==
  /\ Go("load", "camera") /\ dl.pc = "open"
  /\ Dl!DlClose
  /\ copies' = {}
  /\ UNCHANGED <<screen, flagged, held, keyVars>>

\* The plugin is in the chain, its directory is watched if it can be.
LoadDone ==
  /\ Go("load", "camera") /\ dl.pc = "open"
  /\ \/ Gets("watch")
     \/ Keeps

-----------------------------------------------------------------------------
\* webcam_init
Camera ==
  \/ Go("camera", "gray") /\ Gets("camera")
  \/ Go("camera", "refused") /\ Keeps

\* Mutant: the camera stays open.
NoMemory_KeepsCamera(from) ==
  /\ Go(from, "refused")
  /\ held' = held \ {"gray", "rgb"}
  /\ UNCHANGED <<screen, flagged, copies>> /\ Quiet

\* No text buffer: what there is is freed.
NoMemory(from) ==
  /\ Go(from, "refused")
  /\ held' = held \ {"gray", "rgb", "camera"}
  /\ UNCHANGED <<screen, flagged, copies>> /\ Quiet

\* The pixel buffers: the one for colours is asked for, when there are to be
\* any, whether or not the first was given, and only then are both looked at.
\* On the way out the first is freed, the other is not.
Gray == Go("gray", "rgb") /\ (Gets("gray") \/ Keeps)
Rgb == "gray" \in held /\ Go("rgb", "out") /\ (Gets("rgb") \/ Keeps)
NoPixels ==
  /\ Go("rgb", "starved")
  /\ \E got \in SUBSET {"rgb"} :
       /\ "gray" \in held => got = {}
       /\ held' = (held \cup got) \ {"gray", "camera"}
  /\ UNCHANGED <<screen, flagged, copies>> /\ Quiet
Out ==
  \/ Go("out", "thread") /\ Gets("out")
  \/ NoMemory("out")

\* The capture thread, whose slots replace the buffer, or none.
Thread ==
  /\ Go("thread", "enter")
  /\ \/ held' = (held \ {"gray"}) \cup {"thread"}
     \/ UNCHANGED held
  /\ UNCHANGED <<screen, flagged, copies>> /\ Quiet

Enter ==
  /\ Go("enter", "raw")
  /\ screen' = [screen EXCEPT !.alt = TRUE, !.hidden = TRUE]
  /\ UNCHANGED <<flagged, held, copies>> /\ Quiet

\* term_raw_mode: tcsetattr, and the flag the signal handler goes by.
RawMode ==
  /\ \/ Go("raw", "rawFlag")
     \/ Go("playRaw", "playRawFlag")
  /\ screen' = [screen EXCEPT !.raw = TRUE]
  /\ UNCHANGED <<flagged, held, copies>> /\ Quiet

RawFlag ==
  /\ \/ Go("rawFlag", "mouse")
     \/ Go("playRawFlag", "playing")
  /\ flagged' = TRUE
  /\ UNCHANGED <<screen, held, copies>> /\ Quiet

MouseOn ==
  /\ Go("mouse", "clock")
  /\ screen' = [screen EXCEPT !.mouse = TRUE]
  /\ UNCHANGED <<flagged, held, copies>> /\ Quiet

\* The clock: without it the program ends here, the terminal as it is.
Clock ==
  /\ \/ Go("clock", IF ui.running THEN "loop" ELSE "mouseOff")
     \/ Go("clock", "stuck")
  /\ Keeps

-----------------------------------------------------------------------------
\* The loop: keys and the mouse, or a quit at the top of an iteration.
LoopKeys ==
  /\ stage = "loop" /\ pc # "end"
  /\ IF held = Typing /\ dl.pc = "closed" THEN KeyboardNext ELSE Interrupt \/ Leave
  /\ UNCHANGED <<own, image>>

LoopDone == Go("loop", "mouseOff") /\ pc = "end" /\ Keeps

\* The camera or the capture thread fails, once the keys have been read.
CaptureFails ==
  /\ Go("loop", "mouseOff") /\ pc = "loop" /\ ui.view = "none" /\ tty = <<>>
  /\ Keeps

-----------------------------------------------------------------------------
MouseOff ==
  /\ Go("mouseOff", "restore")
  /\ screen' = [screen EXCEPT !.mouse = FALSE]
  /\ UNCHANGED <<flagged, held, copies>> /\ Quiet

\* term_restore
Restore ==
  /\ \/ Go("restore", "restoreFlag")
     \/ Go("playRestore", "playRestoreFlag")
  /\ screen' = [screen EXCEPT !.raw = FALSE]
  /\ UNCHANGED <<flagged, held, copies>> /\ Quiet

RestoreFlag ==
  /\ \/ Go("restoreFlag", "leave")
     \/ Go("playRestoreFlag", "playLeave")
  /\ flagged' = FALSE
  /\ UNCHANGED <<screen, held, copies>> /\ Quiet

\* The main screen comes back, after a recording that goes on was closed.
LeaveScreen ==
  /\ Go("leave", "free")
  /\ screen' = [screen EXCEPT !.alt = FALSE, !.hidden = FALSE]
  /\ UNCHANGED <<flagged, held, copies>> /\ Quiet

FreeBuffers ==
  /\ Go("free", "plugins")
  /\ held' = held \ {"gray", "rgb", "out"}
  /\ UNCHANGED <<screen, flagged, copies>> /\ Quiet

\* Mutant: the private copy stays on disk.
Plugins_KeepCopies ==
  /\ Go("plugins", "stopThread")
  /\ IF dl.pc = "open" THEN Dl!DlClose ELSE UNCHANGED image
  /\ held' = held \ {"watch"}
  /\ UNCHANGED <<screen, flagged, copies, keyVars>>

\* plugin_cleanup
Plugins ==
  /\ Go("plugins", "stopThread")
  /\ IF dl.pc = "open" THEN Dl!DlClose ELSE UNCHANGED image
  /\ copies' = {}
  /\ held' = held \ {"watch"}
  /\ UNCHANGED <<screen, flagged, keyVars>>

StopThread ==
  /\ Go("stopThread", "closeCamera")
  /\ held' = held \ {"thread"}
  /\ UNCHANGED <<screen, flagged, copies>> /\ Quiet

CloseCamera ==
  /\ Go("closeCamera", "exit")
  /\ held' = held \ {"camera"}
  /\ UNCHANGED <<screen, flagged, copies>> /\ Quiet

-----------------------------------------------------------------------------
\* The program has ended: as it should, without having started, without pixel
\* buffers, without a clock, by a signal, by a signal in the middle of a change
\* of mode.
Over == {"exit", "refused", "starved", "stuck", "killed", "torn"}

\* SIGINT and SIGTERM only ask the loop to end.
Ask ==
  /\ stage \notin Over \cup {"loop"}
  /\ Interrupt
  /\ UNCHANGED <<own, image>>

\* SIGHUP, SIGQUIT, SIGABRT, SIGSEGV: emergency_terminal_restore and exit.
Emergency ==
  /\ stage \notin Over
  /\ screen' = [screen EXCEPT !.raw = @ /\ ~flagged, !.mouse = FALSE, !.hidden = FALSE]
  /\ stage' = IF stage \in {"rawFlag", "playRawFlag"} THEN "torn" ELSE "killed"
  /\ held' = {}
  /\ UNCHANGED <<flagged, copies>> /\ Quiet

SessionNext ==
  \/ PlayProbe \/ PlayEnter \/ PlayEnd \/ PlayLeave
  \/ NoPlugin \/ CopyPlugin \/ LoadPlugin \/ LoadFailed \/ LoadRefused \/ LoadDone
  \/ Camera \/ Gray \/ Rgb \/ NoPixels \/ Out \/ Thread \/ Enter
  \/ RawMode \/ RawFlag \/ MouseOn \/ Clock
  \/ LoopKeys \/ LoopDone \/ CaptureFails
  \/ MouseOff \/ Restore \/ RestoreFlag \/ LeaveScreen
  \/ FreeBuffers \/ Plugins \/ StopThread \/ CloseCamera
  \/ Ask \/ Emergency

SessionSpec == SessionInit /\ [][SessionNext]_all

-----------------------------------------------------------------------------
\* At a normal end and after a start that failed, the shell gets its terminal
\* back; after a fatal signal the alternate screen stays. Two ends leave more of
\* it changed: no clock at the start ("stuck"), and a fatal signal between
\* tcsetattr and the flag ("torn").
TerminalGivenBack ==
  /\ stage \in {"exit", "refused", "starved"} => screen = Shell
  /\ stage = "killed" => [screen EXCEPT !.alt = FALSE] = Shell

\* Mouse reports are on only while the terminal is raw: they never reach a
\* shell as text.
ReportsOnlyRaw == screen.mouse => screen.raw

\* The loop runs on a terminal that is set up, and the signal handler knows.
LoopOnScreen ==
  stage = "loop" => flagged /\ screen = [alt |-> TRUE, hidden |-> TRUE, raw |-> TRUE, mouse |-> TRUE]

\* A normal end gives back all that was acquired: private copies on disk and
\* mapped plugins too.
NothingLeft ==
  stage = "exit" => held = {} /\ copies = {} /\ dl.pc # "open" /\ mem = Dl!Nothing

\* A start that fails gives back the camera and the buffers, but for one of
\* colours that was given when the first was not.
RefusedReleases ==
  /\ stage = "refused" => held \subseteq {"watch"}
  /\ stage = "starved" => held \subseteq {"watch", "rgb"}

\* The thread never outlives the camera it reads from.
ThreadHasCamera == "thread" \in held => "camera" \in held

SessionSound ==
  /\ KeyboardSound
  /\ TerminalGivenBack /\ ReportsOnlyRaw /\ LoopOnScreen
  /\ NothingLeft /\ RefusedReleases /\ ThreadHasCamera
ImageSound == Dl!ImageSound
=============================================================================
