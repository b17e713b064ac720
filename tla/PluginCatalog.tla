---------------------------- MODULE PluginCatalog ----------------------------
(***************************************************************************)
(* src/plugin_catalog.c: one plugin, found by a scan, compiled on demand   *)
(* by a child process into a cache directory that outlives the program and *)
(* that several running programs share. One step is one call of the        *)
(* catalog by the render loop (main.c), one step of a build child, an      *)
(* edit, or the end of a program, in order or not.                         *)
(*                                                                         *)
(* A build reads a source and the headers of the SDK, and its hash is the  *)
(* pair of their versions; the script is part of the program. A library    *)
(* file is who linked it, from which versions, and whether the linker is   *)
(* done with it. The linker replaces its output file, so a file taken away *)
(* from under it keeps being written.                                      *)
(***************************************************************************)
EXTENDS Integers

CONSTANTS
  Apps,         \* programs, each in one session after another
  Versions,     \* of the source, and of the headers
  Prebuilt,     \* whether a shipped library of the plugin may be, or not be, installed
  MaxEdits,     \* bound on the edits of the inputs
  MaxSessions   \* bound on the sessions of a program

ASSUME CatalogAssumption ==
  /\ Versions \subseteq Nat \ {0}
  /\ Prebuilt \subseteq BOOLEAN
  /\ MaxEdits \in Nat /\ MaxSessions \in Nat

VARIABLES
  source, headers, edits,   \* versions there are now, or None; edits so far
  lib, tmp,          \* library and `.tmp` beside it, in the cache and where it is shipped
  stamp,             \* hash in <name>.stamp, or NoHash
  up, sessions,      \* a program runs; its sessions so far
  state, src_path, so_path, hash, want_load,   \* its catalog_entry_t
  child,             \* its build child, which also counts the edits under it
  spoiled            \* history: a stamp may vouch for what it does not name

entry == <<state, src_path, so_path, hash, want_load>>
files == <<lib, tmp, stamp>>
inputs == <<source, headers, edits>>
app == <<up, sessions>>
vars == <<inputs, files, app, entry, child, spoiled>>

None == 0
NoHash == <<None, None>>
Hashes == (Versions \X Versions) \cup {NoHash}
NoFile == [by |-> "nobody", ver |-> NoHash, done |-> TRUE]
Shipped == [by |-> "installer", ver |-> NoHash, done |-> TRUE]
Cached(h) == [by |-> "earlier", ver |-> h, done |-> TRUE]
Exists(f) == f # NoFile
Paths == {"cache", "shipped"}

\* Where the child is, what its compiler read, whether the shell that waits
\* for the compiler lives, and the edits so far.
NoChild == [at |-> "none", read |-> NoHash, shell |-> FALSE, edits |-> 0]
NewChild == [at |-> "start", read |-> NoHash, shell |-> TRUE, edits |-> 0]

Set(f, a, v) == f' = [f EXCEPT ![a] = v]

\* An earlier session left nothing in the cache, or a library and its stamp.
Init ==
  /\ source \in Versions \cup {None} /\ headers \in Versions \cup {None} /\ edits = 0
  /\ stamp \in Hashes
  /\ \E installed \in Prebuilt :
       lib = [p \in Paths |->
                CASE p = "cache" -> IF stamp = NoHash THEN NoFile ELSE Cached(stamp)
                  [] p = "shipped" -> IF installed THEN Shipped ELSE NoFile]
  /\ tmp = [p \in Paths |-> NoFile]
  /\ up = [a \in Apps |-> FALSE] /\ sessions = [a \in Apps |-> 0]
  /\ state = [a \in Apps |-> "none"]
  /\ src_path = [a \in Apps |-> FALSE]
  /\ so_path = [a \in Apps |-> "cache"]
  /\ hash = [a \in Apps |-> NoHash]
  /\ want_load = [a \in Apps |-> FALSE]
  /\ child = [a \in Apps |-> NoChild] /\ spoiled = FALSE

-----------------------------------------------------------------------------
\* pc_compute_hdr_hash: without include/plugins.h there is nothing to vouch against.
HeaderHash == headers

\* Mutant: the headers are not part of the hash.
InputsHash_NoHeaders == IF source = None THEN NoHash ELSE <<source, source>>

\* pc_inputs_hash_with_hdr: the source, the script and the headers, or a failure.
InputsHash ==
  IF source = None \/ HeaderHash = None THEN NoHash ELSE <<source, HeaderHash>>

\* pc_inputs_hash may also fail to read them.
InputsHashes == {InputsHash, NoHash}

Building(a) == child[a] # NoChild

\* The source or the headers are edited, reverted, removed or put back. A hash
\* before a build and one after it say nothing of a change and its reversal.
Edit ==
  /\ edits < MaxEdits /\ edits' = edits + 1
  /\ \/ source' \in (Versions \cup {None}) \ {source} /\ UNCHANGED headers
     \/ headers' \in (Versions \cup {None}) \ {headers} /\ UNCHANGED source
  /\ child' = [a \in Apps |-> IF Building(a) THEN [child[a] EXCEPT !.edits = @ + 1] ELSE NoChild]
  /\ spoiled' = (spoiled \/ \E a \in Apps : Building(a) /\ (child[a].edits > 0 \/ ~up[a]))
  /\ UNCHANGED <<files, app, entry>>

\* pc_stamp_matches
StampMatches(h) == h # NoHash /\ stamp = h

\* pc_cache_current, of a library that is there: the stamp vouches for it.
Current(h) == Exists(lib["cache"]) /\ StampMatches(h)

\* list_sources: a C file with plugin_get in it, under a name that will do.
Listed == source # None

(***************************************************************************)
(* catalog_scan, catalog_add_prebuilt: what a program knows of the plugin  *)
(* once both have run. A current build in the cache wins, then the shipped *)
(* library; without a source that is all there is.                         *)
(***************************************************************************)
Found(h, shipped) ==
  CASE Listed /\ Current(h) -> [state |-> "ready", src |-> TRUE, so |-> "cache"]
    [] shipped /\ ~(Listed /\ Current(h)) ->
         [state |-> "ready", src |-> Listed, so |-> "shipped"]
    [] Listed /\ ~shipped /\ ~Current(h) ->
         [state |-> "available", src |-> TRUE, so |-> "cache"]
    [] OTHER -> [state |-> "none", src |-> FALSE, so |-> "cache"]

Scan(a, shipped) ==
  \E h \in InputsHashes :
    LET e == Found(h, shipped)
    IN  Set(state, a, e.state) /\ Set(src_path, a, e.src) /\ Set(so_path, a, e.so)

\* The program starts, once what its last session left running has ended.
Start(a) ==
  /\ ~up[a] /\ ~Building(a) /\ sessions[a] < MaxSessions
  /\ Set(up, a, TRUE) /\ Set(sessions, a, sessions[a] + 1)
  /\ Scan(a, Exists(lib["shipped"]))
  /\ UNCHANGED <<inputs, files, hash, want_load, child, spoiled>>

\* '/': "pick up sources added since startup"; a known entry is left alone.
Rescan(a) ==
  /\ up[a] /\ state[a] = "none"
  /\ Scan(a, FALSE)
  /\ UNCHANGED <<inputs, files, app, hash, want_load, child, spoiled>>

\* plugin_activate: the library is loaded, or something is wrong with it.
Activate(a) ==
  \/ /\ Exists(lib[so_path[a]]) /\ lib[so_path[a]].done
     /\ Set(state, a, "active")
  \/ Set(state, a, "failed")

PickReady(a) ==
  /\ up[a] /\ state[a] = "ready"
  /\ Activate(a)
  /\ UNCHANGED <<inputs, files, app, src_path, so_path, hash, want_load, child, spoiled>>

PickCompiling(a) ==
  /\ up[a] /\ state[a] = "compiling"
  /\ Set(want_load, a, TRUE)
  /\ UNCHANGED <<inputs, files, app, state, src_path, so_path, hash, child, spoiled>>

-----------------------------------------------------------------------------
\* Mutant: what the stamp does not vouch for is left where it is.
DropStale_Keep(a, h) == UNCHANGED <<lib, stamp>>

\* A library the stamp does not vouch for is dropped with it, if it is one's own.
DropStale(a, h) ==
  IF h # NoHash /\ ~StampMatches(h)
    THEN /\ stamp' = NoHash
         /\ lib' = IF so_path[a] = "cache" THEN [lib EXCEPT !["cache"] = NoFile] ELSE lib
    ELSE UNCHANGED <<stamp, lib>>

\* pc_spawn: a shell runs PB_SCRIPT, or there is no log file or no process.
Spawn(a) ==
  \/ /\ Set(state, a, "compiling") /\ Set(want_load, a, TRUE)
     /\ Set(child, a, NewChild)
  \/ /\ Set(state, a, "failed") /\ Set(want_load, a, FALSE)
     /\ UNCHANGED child

(***************************************************************************)
(* catalog_start_build: hash the inputs (or fail to), drop what the stamp  *)
(* does not vouch for, and start the child. A library that is rebuilt      *)
(* where it was shipped gets a stamp that the cache's does not deserve.    *)
(***************************************************************************)
PickBuild(a) ==
  /\ up[a] /\ state[a] \in {"available", "failed"} /\ src_path[a]
  /\ \E h \in InputsHashes : Set(hash, a, h) /\ DropStale(a, h)
  /\ Spawn(a)
  /\ spoiled' = (spoiled \/ (so_path[a] = "shipped" /\ Exists(lib["cache"])))
  /\ UNCHANGED <<inputs, tmp, app, src_path, so_path>>

\* "no plugin SDK (headers)": looked for when an SDK is installed.
PickNoSdk(a) ==
  /\ up[a] /\ state[a] \in {"available", "failed"} /\ src_path[a] /\ headers = None
  /\ Set(state, a, "failed") /\ Set(want_load, a, FALSE)
  /\ UNCHANGED <<inputs, files, app, src_path, so_path, hash, child, spoiled>>

\* "prebuilt library, no source to build": nothing but the message changes.
PickNoSource(a) ==
  /\ up[a] /\ state[a] = "failed" /\ ~src_path[a]
  /\ UNCHANGED vars

\* 'u': plugin_slot_remove.
Unload(a) ==
  /\ up[a] /\ state[a] = "active"
  /\ Set(state, a, "ready")
  /\ UNCHANGED <<inputs, files, app, src_path, so_path, hash, want_load, child, spoiled>>

-----------------------------------------------------------------------------
(***************************************************************************)
(* The build child: PB_SCRIPT of plugin_build.h compiles to "$2.tmp", and  *)
(* the shell moves it to "$2".                                             *)
(***************************************************************************)
At(a, step) == child[a].at = step
Goes(a, step) == Set(child, a, [child[a] EXCEPT !.at = step])

ReadSource(a) ==
  /\ At(a, "start") /\ source # None
  /\ Set(child, a, [child[a] EXCEPT !.at = "include", !.read = <<source, None>>])
  /\ UNCHANGED <<inputs, files, app, entry, spoiled>>

ReadHeaders(a) ==
  /\ At(a, "include") /\ headers # None
  /\ Set(child, a, [child[a] EXCEPT !.at = "compile", !.read[2] = headers])
  /\ UNCHANGED <<inputs, files, app, entry, spoiled>>

\* What it ends with is taken by who waits for it, if anyone does.
Ends(a, how) == IF up[a] THEN Goes(a, how) ELSE Set(child, a, NoChild)

CompileFails(a) ==
  /\ \E step \in {"start", "include", "compile"} : At(a, step)
  /\ Ends(a, "bad")
  /\ UNCHANGED <<inputs, files, app, entry, spoiled>>

\* Mutant: the linker writes the library itself.
Link_InPlace(a) ==
  /\ At(a, "compile") /\ Goes(a, "link")
  /\ Set(lib, so_path[a], [by |-> a, ver |-> child[a].read, done |-> FALSE])
  /\ UNCHANGED <<inputs, tmp, stamp, app, entry, spoiled>>

Link(a) ==
  /\ At(a, "compile") /\ Goes(a, "link")
  /\ Set(tmp, so_path[a], [by |-> a, ver |-> child[a].read, done |-> FALSE])
  /\ UNCHANGED <<inputs, lib, stamp, app, entry, spoiled>>

\* The file is complete, wherever it has been moved meanwhile.
Complete(f, a) == [p \in Paths |-> IF f[p].by = a THEN [f[p] EXCEPT !.done = TRUE] ELSE f[p]]

LinkDone(a) ==
  /\ At(a, "link")
  /\ IF child[a].shell THEN Goes(a, "mv") ELSE Set(child, a, NoChild)
  /\ tmp' = Complete(tmp, a)
  /\ lib' = Complete(lib, a)
  /\ UNCHANGED <<inputs, stamp, app, entry, spoiled>>

Move(a) ==
  /\ At(a, "mv")
  /\ IF Exists(tmp[so_path[a]])
       THEN /\ Set(lib, so_path[a], tmp[so_path[a]])
            /\ Set(tmp, so_path[a], NoFile)
            /\ Ends(a, "ok")
       ELSE Ends(a, "bad") /\ UNCHANGED <<lib, tmp>>
  /\ UNCHANGED <<inputs, stamp, app, entry, spoiled>>

Child(a) == ReadSource(a) \/ ReadHeaders(a) \/ CompileFails(a) \/ Link(a) \/ LinkDone(a)
              \/ Move(a)

-----------------------------------------------------------------------------
(***************************************************************************)
(* catalog_poll once pc_reap has the child, with what the render loop does *)
(* with the result in the same turn.                                       *)
(***************************************************************************)
Succeeded(a) == At(a, "ok") /\ Exists(lib[so_path[a]])

\* Mutant: the inputs are not hashed again.
PollReady_NoRehash(a) ==
  /\ state[a] = "compiling" /\ Succeeded(a)
  /\ hash[a] # NoHash
  /\ stamp' = hash[a]
  /\ Set(child, a, NoChild)
  /\ IF want_load[a] THEN Activate(a) ELSE Set(state, a, "ready")
  /\ Set(want_load, a, FALSE)
  /\ UNCHANGED <<inputs, lib, tmp, app, src_path, so_path, hash, spoiled>>

\* pc_stamp_write: a file of its own is renamed, or it cannot be.
StampWrite(h) == stamp' \in {h, stamp}

\* Inputs changed at most once under the build, so that hashing them tells.
SeenByHash(a) == child[a].edits < 2

PollReady(a) ==
  /\ state[a] = "compiling" /\ Succeeded(a)
  /\ hash[a] # NoHash /\ hash[a] = InputsHash
  /\ StampWrite(hash[a])
  /\ Set(child, a, NoChild)
  /\ IF want_load[a] THEN Activate(a) ELSE Set(state, a, "ready")
  /\ Set(want_load, a, FALSE)
  /\ spoiled' = (spoiled /\ ~(so_path[a] = "cache" /\ SeenByHash(a)))
  /\ UNCHANGED <<inputs, lib, tmp, app, src_path, so_path, hash>>

\* Mutant: the library of other inputs is left in the cache.
PollDiscard_Keep(a) ==
  /\ state[a] = "compiling" /\ Succeeded(a)
  /\ Set(state, a, "failed")
  /\ Set(want_load, a, FALSE)
  /\ Set(child, a, NoChild)
  /\ UNCHANGED <<inputs, files, app, src_path, so_path, hash, spoiled>>

\* "source changed during build; rebuild", or one of the hashes failed.
PollDiscard(a) ==
  /\ state[a] = "compiling" /\ Succeeded(a)
  /\ lib' = IF so_path[a] = "cache" THEN [lib EXCEPT !["cache"] = NoFile] ELSE lib
  /\ Set(state, a, "failed")
  /\ Set(want_load, a, FALSE)
  /\ Set(child, a, NoChild)
  /\ spoiled' = (spoiled /\ so_path[a] # "cache")
  /\ UNCHANGED <<inputs, tmp, stamp, app, src_path, so_path, hash>>

\* Mutant: a child that failed is not noticed.
PollFailed_Ignored(a) ==
  /\ state[a] = "compiling" /\ (At(a, "ok") \/ At(a, "bad")) /\ ~Succeeded(a)
  /\ UNCHANGED vars

\* Mutant: a child that still runs is taken for one that failed.
PollFailed_Running(a) ==
  /\ state[a] = "compiling" /\ ~Succeeded(a)
  /\ Set(state, a, "failed")
  /\ Set(want_load, a, FALSE)
  /\ UNCHANGED <<inputs, files, app, src_path, so_path, hash, child, spoiled>>

PollFailed(a) ==
  /\ state[a] = "compiling" /\ (At(a, "ok") \/ At(a, "bad")) /\ ~Succeeded(a)
  /\ Set(state, a, "failed")
  /\ Set(want_load, a, FALSE)
  /\ Set(child, a, NoChild)
  /\ UNCHANGED <<inputs, files, app, src_path, so_path, hash, spoiled>>

Poll(a) == up[a] /\ (PollReady(a) \/ PollDiscard(a) \/ PollFailed(a))

-----------------------------------------------------------------------------
\* The session is over. A build it did not see the end of leaves a library
\* that an older stamp may vouch for.
Over(a) ==
  /\ up[a]
  /\ Set(up, a, FALSE)
  /\ Set(state, a, "none") /\ Set(src_path, a, FALSE)
  /\ Set(hash, a, NoHash) /\ Set(want_load, a, FALSE)
  /\ LET unseen == state[a] = "compiling" /\ (child[a].edits > 0 \/ hash[a] = NoHash)
     IN  spoiled' = (spoiled \/ unseen)
  /\ UNCHANGED <<inputs, files, sessions, so_path>>

\* catalog_cleanup (pc_kill): the shell of a running build is killed and
\* reaped. The compiler it started is not, and runs on.
Exit(a) ==
  /\ Over(a)
  /\ Set(child, a, IF child[a].at \in {"include", "compile", "link"}
                     THEN [child[a] EXCEPT !.shell = FALSE] ELSE NoChild)

\* The program is killed, and its build runs on to the end.
Crash(a) ==
  /\ Over(a)
  /\ Set(child, a, IF At(a, "ok") \/ At(a, "bad") THEN NoChild ELSE child[a])

Ended == (\A a \in Apps : ~up[a] /\ ~Building(a)) /\ UNCHANGED vars

App(a) == Start(a) \/ Rescan(a) \/ PickReady(a) \/ PickCompiling(a) \/ PickBuild(a)
            \/ PickNoSdk(a) \/ PickNoSource(a) \/ Unload(a) \/ Exit(a) \/ Crash(a)
Next == Edit \/ Ended \/ \E a \in Apps : App(a) \/ Child(a) \/ Poll(a)

(***************************************************************************)
(* A build child runs to its end, and the render loop polls once a frame   *)
(* (also when no frame arrives: KeysKeepWorking of CapturePipe).           *)
(***************************************************************************)
Spec == Init /\ [][Next]_vars /\ \A a \in Apps : WF_vars(Child(a)) /\ WF_vars(Poll(a))

-----------------------------------------------------------------------------
File == [by : Apps \cup {"nobody", "installer", "earlier"}, ver : Hashes, done : BOOLEAN]

\* The values of the variables; a child exists only while its entry compiles or
\* after its program ended.
TypeOK ==
  /\ source \in Versions \cup {None} /\ headers \in Versions \cup {None}
  /\ edits \in 0 .. MaxEdits
  /\ lib \in [Paths -> File] /\ tmp \in [Paths -> File]
  /\ stamp \in Hashes
  /\ up \in [Apps -> BOOLEAN] /\ sessions \in [Apps -> 0 .. MaxSessions]
  /\ state \in [Apps -> {"none", "available", "ready", "compiling", "failed", "active"}]
  /\ src_path \in [Apps -> BOOLEAN] /\ so_path \in [Apps -> Paths]
  /\ hash \in [Apps -> Hashes]
  /\ want_load \in [Apps -> BOOLEAN]
  /\ child \in [Apps -> [at : {"none", "start", "include", "compile", "link", "mv", "ok", "bad"},
                         read : (Versions \cup {None}) \X (Versions \cup {None}),
                         shell : BOOLEAN, edits : 0 .. MaxEdits]]
  /\ \A a \in Apps : up[a] => (Building(a) <=> state[a] = "compiling")
  /\ spoiled \in BOOLEAN

(***************************************************************************)
(* "a watcher never sees half a library" (plugin_build.h:41): whatever the *)
(* child is doing, the library under its own name is a complete one.       *)
(***************************************************************************)
NoHalfLibrary == \A p \in Paths : lib[p].done

(***************************************************************************)
(* A cached library is never left behind with a stamp that vouches for     *)
(* other inputs, wherever a program is stopped or killed and whatever its  *)
(* compiler does after it, as long as inputs do not change twice under one *)
(* build, are hashed and do not change under one whose end nobody sees,    *)
(* and no shipped library is rebuilt beside a cached one.                  *)
(***************************************************************************)
StampVouches ==
  (~spoiled /\ \A a \in Apps : ~Building(a))
    => (Exists(lib["cache"]) /\ stamp # NoHash => lib["cache"].ver = stamp)

(***************************************************************************)
(* The types, whole libraries under their own names, and stamps that name  *)
(* what the library was made from: what the next session relies on.        *)
(***************************************************************************)
CatalogSound ==
  /\ TypeOK
  /\ NoHalfLibrary
  /\ StampVouches

\* A build has just been taken, or a library found in the cache that is offered.
Taken(a) == state[a] = "compiling" /\ state'[a] \in {"ready", "active"}
FoundCached(a) == state[a] = "none" /\ state'[a] = "ready" /\ so_path'[a] = "cache"

(***************************************************************************)
(* "Edit the source | stale, rebuilds", "Edit any header | stale,          *)
(* rebuilds" (README.md:293-294): what is taken from a build was compiled  *)
(* from the source and the headers there are, unless these changed twice   *)
(* or more under it; and so was what is found in the cache, in every       *)
(* session, unless it was spoiled since the last build taken or discarded  *)
(* there. So "Source swapped mid-build | discarded" (README.md:298) and    *)
(* "if they changed mid-build .so is thrown away" (plugin_catalog.h:107)   *)
(* hold of a change, not of one that is reverted before the poll: that     *)
(* library is taken, stamped and offered from then on.                     *)
(***************************************************************************)
CurrentUnlessSpoiled ==
  [][\A a \in Apps : (Taken(a) /\ SeenByHash(a)) \/ (FoundCached(a) /\ ~spoiled)
       => lib'[so_path'[a]].ver = <<source, headers>>]_vars

\* Every build comes to an end the user sees, or the program ends first.
BuildEnds == \A a \in Apps : state[a] = "compiling" ~> state[a] # "compiling"

\* A load the user asked for is carried out or reported as failed.
WantIsServed == \A a \in Apps : want_load[a] ~> ~want_load[a] \/ ~up[a]

(***************************************************************************)
(* A build ends, and with it the wish to load what it builds.              *)
(***************************************************************************)
BuildsServed ==
  /\ BuildEnds
  /\ WantIsServed
=============================================================================
