---------------------------- MODULE PluginLoader ----------------------------
(***************************************************************************)
(* src/plugins.c: a plugin's library, the private copies it is loaded      *)
(* from, and its hot reload, beside a builder that replaces the library by *)
(* a rename or writes it where it is. A file is an inode, so that one that *)
(* is open or mapped outlives its name; its content is the version of each *)
(* of its two parts, read and written one after the other.                 *)
(*                                                                         *)
(* What dlopen does with a file is NlDlfcn; here a whole library loads,    *)
(* unless its interface is refused, and one that is not may load or not.   *)
(***************************************************************************)
EXTENDS Integers

CONSTANTS
  Programs,     \* programs that load the library, one session each
  MaxBuilds,    \* bound on the versions built
  Refused,      \* versions with another PLUGIN_ABI
  MaxSec,       \* bound on time()
  MAX_INODES    \* bound on the files there are at once

ASSUME LoaderAssumption ==
  /\ MaxBuilds \in Nat \ {0} /\ MaxSec \in Nat /\ MAX_INODES \in Nat \ {0}
  /\ Refused \subseteq 1 .. MaxBuilds
  /\ Programs \cap {"lib", "none", "beside"} = {}

VARIABLES
  now,           \* time()
  dir,           \* the names there are |-> inode
  body,          \* inode |-> versions of its two parts, 0 when not written
  builds, builder, wip,   \* versions so far; the builder's step; the file it writes
  at,            \* where each program is
  src, dst,      \* the files copy_file has open
  tmp_path,      \* the copy's name
  dl,            \* what dlopen mapped: its inode, and what was in it then
  watch, news,   \* the watch is on; events on the library not read yet
  due            \* history: a version was published while the watch was on

files == <<dir, body>>
build == <<builds, builder, wip>>
loader == <<at, src, dst, tmp_path, dl, watch, news, due>>
lvars == <<now, files, build, loader>>

Inodes == 1 .. MAX_INODES
Lib == <<"lib", 0>>
Direct == <<"none", 0>>                 \* tmp_path is empty
Beside(sec) == <<"beside", sec>>        \* path.<sec>.tmp
Away(p, sec) == <<p, sec>>              \* /tmp/asciicam-<sec>-<pl>-name
Whole(b) == b[1] = b[2] /\ b[1] # 0
NoDl == [ino |-> 0, was |-> <<0, 0>>]

Assign(f, a, v) == f' = [f EXCEPT ![a] = v]
Without(d, n) == [x \in DOMAIN d \ {n} |-> d[x]]
With(d, n, i) == [x \in DOMAIN d \cup {n} |-> IF x = n THEN i ELSE d[x]]
Used == {dir[n] : n \in DOMAIN dir} \cup {wip} \cup {src[p] : p \in Programs}
          \cup {dst[p] : p \in Programs} \cup {dl[p].ino : p \in Programs}
FreshInode == CHOOSE i \in Inodes : i \notin Used

LoaderInit ==
  /\ now = 0
  /\ dir = [n \in {Lib} |-> 1] /\ body = [i \in Inodes |-> IF i = 1 THEN <<1, 1>> ELSE <<0, 0>>]
  /\ builds = 1 /\ builder = "idle" /\ wip = 0
  /\ at = [p \in Programs |-> "close"]
  /\ src = [p \in Programs |-> 0] /\ dst = [p \in Programs |-> 0]
  /\ tmp_path = [p \in Programs |-> Direct] /\ dl = [p \in Programs |-> NoDl]
  /\ watch = [p \in Programs |-> FALSE] /\ news = [p \in Programs |-> 0]
  /\ due = [p \in Programs |-> FALSE]

-----------------------------------------------------------------------------
\* The builder starts on the next version: in place, or in a file of its own.
BuildStart ==
  /\ builder = "idle" /\ builds < MaxBuilds
  /\ builds' = builds + 1
  /\ \/ builder' = "inplace" /\ wip' = dir[Lib]
     \/ builder' = "apart" /\ wip' = FreshInode
  /\ body' = [body EXCEPT ![wip'] = <<0, 0>>]
  /\ UNCHANGED <<now, dir, loader>>

BuildWrite ==
  /\ builder \in {"inplace", "apart"}
  /\ \E k \in {1, 2} :
       /\ body[wip][k] = 0 /\ (k = 2 => body[wip][1] # 0)
       /\ body' = [body EXCEPT ![wip][k] = builds]
  /\ UNCHANGED <<now, dir, build, loader>>

\* Mutant: the watch does not ask for IN_MOVED_TO.
Heard_NotMoved == {"inplace"}

\* plugin_watch_init: IN_CLOSE_WRITE | IN_MOVED_TO.
Heard == {"inplace", "apart"}

\* It closes the file, or moves it to its place.
Publish ==
  /\ builder # "idle" /\ Whole(body[wip])
  /\ dir' = [dir EXCEPT ![Lib] = wip]
  /\ LET told == {p \in Programs : watch[p] /\ builder \in Heard}
     IN  news' = [p \in Programs |-> IF p \in told THEN news[p] + 1 ELSE news[p]]
  /\ due' = [p \in Programs |-> due[p] \/ watch[p]]
  /\ builder' = "idle" /\ wip' = 0
  /\ UNCHANGED <<now, body, builds, at, src, dst, tmp_path, dl, watch>>

Second ==
  /\ now < MaxSec /\ now' = now + 1
  /\ UNCHANGED <<files, build, loader>>

-----------------------------------------------------------------------------
\* Mutant: the old library is closed when the new one is loaded.
CloseOld_Later(p) ==
  /\ at[p] = "close" /\ Assign(at, p, "copy")
  /\ UNCHANGED <<now, files, build, src, dst, tmp_path, dl, watch, news, due>>

\* plugin_load: the old handle is closed and its copy deleted.
CloseOld(p) ==
  /\ at[p] = "close" /\ Assign(at, p, "copy")
  /\ Assign(dl, p, NoDl)
  /\ dir' = Without(dir, tmp_path[p]) /\ Assign(tmp_path, p, Direct)
  /\ UNCHANGED <<now, body, build, src, dst, watch, news, due>>

\* make_private_copy: beside the library, else in /tmp, else none.
CopyName(p) == IF at[p] = "copy" THEN Beside(now) ELSE Away(p, now)
NextSpot(p) == IF at[p] \in {"copy", "copying"} THEN "copy2" ELSE "dlopen"

\* copy_file opens both files; what has the copy's name is truncated.
CopyOpen(p) ==
  /\ at[p] \in {"copy", "copy2"}
  /\ \/ LET n == CopyName(p)
            i == IF n \in DOMAIN dir THEN dir[n] ELSE FreshInode
        IN  /\ dir' = With(dir, n, i) /\ body' = [body EXCEPT ![i] = <<0, 0>>]
            /\ Assign(src, p, dir[Lib]) /\ Assign(dst, p, i)
            /\ Assign(tmp_path, p, n)
            /\ Assign(at, p, IF at[p] = "copy" THEN "copying" ELSE "copying2")
     \/ /\ Assign(at, p, NextSpot(p)) /\ Assign(tmp_path, p, Direct)
        /\ UNCHANGED <<files, src, dst>>
  /\ UNCHANGED <<now, build, dl, watch, news, due>>

\* One read and one write: the next part, the end of the source, or a failure.
CopyPart(p) ==
  /\ at[p] \in {"copying", "copying2"}
  /\ LET k == IF body[dst[p]][1] = 0 THEN 1 ELSE 2
     IN  \/ /\ body[dst[p]][2] = 0 /\ body[src[p]][k] # 0
            /\ body' = [body EXCEPT ![dst[p]][k] = body[src[p]][k]]
            /\ UNCHANGED <<dir, at, src, dst, tmp_path>>
         \/ /\ body[dst[p]][2] # 0 \/ body[src[p]][k] = 0
            /\ Assign(at, p, "dlopen") /\ Assign(src, p, 0) /\ Assign(dst, p, 0)
            /\ UNCHANGED <<files, tmp_path>>
         \/ /\ dir' = Without(dir, tmp_path[p]) /\ Assign(tmp_path, p, Direct)
            /\ Assign(at, p, NextSpot(p)) /\ Assign(src, p, 0) /\ Assign(dst, p, 0)
            /\ UNCHANGED body
  /\ UNCHANGED <<now, build, dl, watch, news, due>>

LoadPath(p) == IF tmp_path[p] = Direct THEN Lib ELSE tmp_path[p]

\* Mutant: the events of the meantime are thrown away.
Loaded_Drains(p) ==
  /\ at[p] = "dlopen" /\ LoadPath(p) \in DOMAIN dir
  /\ LET i == dir[LoadPath(p)]
     IN  /\ body[i] # <<0, 0>>
         /\ ~(Whole(body[i]) /\ body[i][1] \in Refused)
         /\ Assign(dl, p, [ino |-> i, was |-> body[i]])
  /\ Assign(at, p, IF watch[p] THEN "loop" ELSE "watch")
  /\ Assign(news, p, 0)
  /\ UNCHANGED <<now, files, build, src, dst, tmp_path, watch, due>>

\* dlopen, plugin_get and the interface's version are as they should.
Loaded(p) ==
  /\ at[p] = "dlopen" /\ LoadPath(p) \in DOMAIN dir
  /\ LET i == dir[LoadPath(p)]
     IN  /\ body[i] # <<0, 0>>
         /\ ~(Whole(body[i]) /\ body[i][1] \in Refused)
         /\ Assign(dl, p, [ino |-> i, was |-> body[i]])
  /\ Assign(at, p, IF watch[p] THEN "loop" ELSE "watch")
  /\ UNCHANGED <<now, files, build, src, dst, tmp_path, watch, news, due>>

\* Or not: the copy is deleted. A plugin that is new is not added; one that
\* was loaded stays in the chain without its library.
LoadFails(p) ==
  /\ at[p] = "dlopen"
  /\ LoadPath(p) \in DOMAIN dir =>
       LET b == body[dir[LoadPath(p)]] IN ~(Whole(b) /\ b[1] \notin Refused)
  /\ dir' = Without(dir, tmp_path[p]) /\ Assign(tmp_path, p, Direct)
  /\ Assign(at, p, IF watch[p] THEN "loop" ELSE "out")
  /\ UNCHANGED <<now, body, build, src, dst, dl, watch, news, due>>

\* plugin_watch_init
Watch(p) ==
  /\ at[p] = "watch" /\ Assign(at, p, "loop")
  /\ \/ Assign(watch, p, TRUE)
     \/ UNCHANGED watch
  /\ UNCHANGED <<now, files, build, src, dst, tmp_path, dl, news, due>>

(***************************************************************************)
(* plugin_check_reload, once in a turn of the loop: a read takes one event *)
(* or several, and one of the library's starts the delay.                  *)
(***************************************************************************)
CheckReload(p) ==
  /\ at[p] = "loop" /\ watch[p] /\ news[p] > 0
  /\ \E left \in 0 .. news[p] - 1 : Assign(news, p, left)
  /\ Assign(at, p, "delay")
  /\ UNCHANGED <<now, files, build, src, dst, tmp_path, dl, watch, due>>

Delay(p) ==
  /\ at[p] = "delay" /\ Assign(at, p, "close")
  /\ UNCHANGED <<now, files, build, src, dst, tmp_path, dl, watch, news, due>>

\* plugin_cleanup, when the plugin is unloaded or the program ends.
Cleanup(p) ==
  /\ at[p] = "loop" /\ Assign(at, p, "out")
  /\ Assign(dl, p, NoDl)
  /\ dir' = Without(dir, tmp_path[p]) /\ Assign(tmp_path, p, Direct)
  /\ Assign(watch, p, FALSE) /\ Assign(news, p, 0) /\ Assign(due, p, FALSE)
  /\ UNCHANGED <<now, body, build, src, dst>>

Step(p) == CloseOld(p) \/ CopyOpen(p) \/ CopyPart(p) \/ Loaded(p) \/ LoadFails(p)
             \/ Watch(p) \/ CheckReload(p) \/ Delay(p)

LoaderNext ==
  \/ BuildStart \/ BuildWrite \/ Publish \/ Second
  \/ \E p \in Programs : Step(p) \/ Cleanup(p)

(***************************************************************************)
(* The loop of main comes round and plugin_load returns; a build that was  *)
(* started ends.                                                           *)
(***************************************************************************)
LoaderSpec == LoaderInit /\ [][LoaderNext]_lvars /\ WF_lvars(BuildWrite \/ Publish)
             /\ \A p \in Programs : WF_lvars(Step(p))

-----------------------------------------------------------------------------
\* The variables have the values of their C types; names are of files.
LoaderTypeOK ==
  /\ now \in 0 .. MaxSec /\ builds \in 1 .. MaxBuilds
  /\ Lib \in DOMAIN dir /\ \A n \in DOMAIN dir : dir[n] \in Inodes
  /\ body \in [Inodes -> [{1, 2} -> 0 .. MaxBuilds]]
  /\ \A p \in Programs : /\ at[p] \in {"close", "copy", "copying", "copy2", "copying2", "dlopen",
                                       "watch", "loop", "delay", "out"}
                         /\ dl[p].ino \in Inodes \cup {0} /\ news[p] \in 0 .. MaxBuilds

(***************************************************************************)
(* "Library is loaded from a private copy so that rebuilding it never      *)
(* changes file mapped by running process" (plugins.c:77): whatever the    *)
(* builder does when, and however often a reload falls into one second.    *)
(***************************************************************************)
MappedNeverChanges ==
  \A p \in Programs : dl[p].ino # 0 /\ tmp_path[p] # Direct => body[dl[p].ino] = dl[p].was

(***************************************************************************)
(* A library that was copied while it was written is not kept: the build   *)
(* is still going on, or its event is waiting, or was missed before the    *)
(* watch was on.                                                           *)
(***************************************************************************)
TornNotKept ==
  \A p \in Programs : at[p] = "loop" /\ due[p] /\ dl[p].ino # 0 /\ ~Whole(dl[p].was) =>
    builder = "inplace" \/ news[p] > 0

\* A program that is done with the plugin leaves no copy.
NoCopyLeft ==
  (\A p \in Programs : at[p] = "out") =>
    \A n \in DOMAIN dir : n = Lib

(***************************************************************************)
(* The types; what runs is a copy of its own, whole in the end, and        *)
(* nothing is left on the disk.                                            *)
(***************************************************************************)
LoadedIntact ==
  /\ LoaderTypeOK
  /\ MappedNeverChanges
  /\ TornNotKept
  /\ NoCopyLeft

\* The library that is there is the one that runs, or is refused.
UpToDate(p) ==
  LET b == body[dir[Lib]] IN (b[1] \in Refused /\ dl[p].ino = 0) \/ dl[p].was = b

(***************************************************************************)
(* Hot reload: once builds stop, a plugin that was rebuilt while it was    *)
(* watched is the newest version, however builds and reloads crossed.      *)
(***************************************************************************)
NewestLoaded == \A p \in Programs : <>[](due[p] => UpToDate(p))
=============================================================================
