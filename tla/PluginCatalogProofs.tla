------------------------- MODULE PluginCatalogProofs -------------------------
(***************************************************************************)
(* The catalog under one program, for any versions, edits and sessions:    *)
(* whole libraries, honest stamps, and offers that are not out of date but *)
(* where a change was reverted under a build, or the cache was spoiled.    *)
(*                                                                         *)
(* What CatalogSound says of a cache at rest follows from what is true     *)
(* while a child is at work: either its library will be thrown away, as    *)
(* the inputs differ from those that were hashed or no hash was had, or    *)
(* nothing has changed since and it is made from exactly these inputs.     *)
(***************************************************************************)
EXTENDS PluginCatalog, TLAPS

\* What a build would read now, and the steps after which it has read it all.
Inputs == <<source, headers>>
ReadOn == {"compile", "link", "mv", "ok"}

\* What a child has read, and that one without a shell has no program either.
ReadsVersions(a) ==
  /\ child[a].at = "include" => child[a].read[1] \in Versions
  /\ child[a].at \in ReadOn => child[a].read \in Versions \X Versions
  /\ child[a].edits <= edits
  /\ up[a] => child[a].shell \/ ~Building(a)
  /\ child[a].at = "none" => ~Building(a)
  /\ ~up[a] => state[a] = "none"

\* Only the file the linker is writing is unfinished, and it is its own.
FilesOK(a) ==
  /\ \A p \in Paths : lib[p].done
  /\ \A p \in Paths : tmp[p].done \/ (At(a, "link") /\ p = so_path[a] /\ tmp[p].by = a)
  /\ At(a, "link") \/ At(a, "mv") => tmp[so_path[a]].ver = child[a].read
  /\ At(a, "ok") => lib[so_path[a]].ver = child[a].read

\* The inputs are the ones that were hashed, and the child reads just these.
Unchanged(a) ==
  /\ child[a].edits = 0
  /\ up[a] => hash[a] = Inputs
  /\ so_path[a] = "cache" => stamp \in {NoHash, Inputs}
  /\ child[a].at = "include" => child[a].read[1] = source
  /\ child[a].at \in ReadOn => child[a].read = Inputs

\* The poll will throw the library away, or the stamp may name it.
Pending(a) ==
  Building(a) =>
    \/ up[a] /\ hash[a] = NoHash
    \/ up[a] /\ child[a].edits = 1 /\ hash[a] # Inputs
    \/ Unchanged(a)

\* The same of a program's own build, spoiled or not, while its inputs have not
\* changed twice under it.
SeenOK(a) ==
  Building(a) /\ up[a] /\ child[a].edits < 2 =>
    \/ hash[a] = NoHash
    \/ child[a].edits = 1 /\ hash[a] # Inputs
    \/ Unchanged(a)

\* The stamp names what the cached library was made from, but for a build in
\* the cache whose end has not been polled.
Vouched(a) ==
  (At(a, "ok") /\ so_path[a] = "cache")
    \/ (Exists(lib["cache"]) /\ stamp # NoHash => lib["cache"].ver = stamp)

\* A shipped library is rebuilt with an empty cache.
Beside(a) == Building(a) /\ so_path[a] = "shipped" => ~Exists(lib["cache"])

HistoryOK(a) == spoiled \/ (Pending(a) /\ Vouched(a) /\ Beside(a))

\* The inductive invariant.
CatalogInv(a) == TypeOK /\ ReadsVersions(a) /\ FilesOK(a) /\ SeenOK(a) /\ HistoryOK(a)

\* The record of a child.
Steps == {"none", "start", "include", "compile", "link", "mv", "ok", "bad"}
Reads == (Versions \cup {None}) \X (Versions \cup {None})
ChildSet == [at : Steps, read : Reads, shell : BOOLEAN, edits : 0 .. MaxEdits]

USE DEF entry, files, inputs, app, None, NoHash, Hashes, Paths

\* Files are records of the right type.
LEMMA Records ==
  /\ NoFile = [by |-> "nobody", ver |-> NoHash, done |-> TRUE]
  /\ NoFile \in File /\ Shipped \in File
PROOF BY DEF NoFile, Shipped, File

\* A child that goes on to another step.
LEMMA AtSet ==
  ASSUME NEW c \in ChildSet, NEW w \in Steps
  PROVE  LET d == [c EXCEPT !.at = w]
         IN  d \in ChildSet /\ d.at = w /\ d.read = c.read /\ d.shell = c.shell /\ d.edits = c.edits
PROOF BY DEF ChildSet

\* A child whose shell was killed.
LEMMA ShellSet ==
  ASSUME NEW c \in ChildSet
  PROVE  LET d == [c EXCEPT !.shell = FALSE]
         IN  d \in ChildSet /\ d.at = c.at /\ d.read = c.read /\ d.edits = c.edits
PROOF BY DEF ChildSet

\* Reading the headers fills in the second half of what was read.
LEMMA HeadersRead ==
  ASSUME NEW c \in ChildSet, NEW v \in Versions
  PROVE  /\ [c.read EXCEPT ![2] = v] = <<c.read[1], v>>
         /\ [c EXCEPT !.at = "compile", !.read[2] = v]
              = [c EXCEPT !.at = "compile", !.read = <<c.read[1], v>>]
         /\ <<c.read[1], v>> \in Reads
PROOF
<1>1. c.read \in Reads
  BY DEF ChildSet
<1>2. [c.read EXCEPT ![2] = v] = <<c.read[1], v>>
  BY <1>1 DEF Reads
<1>3. [c EXCEPT !.at = "compile", !.read[2] = v]
        = [c EXCEPT !.at = "compile", !.read = [c.read EXCEPT ![2] = v]]
  BY DEF ChildSet
<1>4. QED
  BY <1>1, <1>2, <1>3 DEF Reads

\* No child, and a new one, are records of the right type.
LEMMA NoChildTyped ==
  ASSUME CatalogAssumption
  PROVE NoChild \in ChildSet /\ NewChild \in ChildSet /\ NewChild # NoChild
PROOF
<1>1. NoHash \in Reads
  BY DEF Reads
<1>2. QED
  BY <1>1 DEF CatalogAssumption, NoChild, NewChild, ChildSet, Steps

\* Completing files keeps those that are complete as they are.
LEMMA CompleteTyped ==
  ASSUME NEW a, NEW f \in [Paths -> File]
  PROVE  /\ Complete(f, a) \in [Paths -> File]
         /\ \A p \in Paths : f[p].done => Complete(f, a)[p] = f[p]
PROOF
<1>1. ASSUME NEW g \in File
      PROVE  [g EXCEPT !.done = TRUE] \in File /\ (g.done => [g EXCEPT !.done = TRUE] = g)
  BY DEF File
<1>2. \A p \in Paths : f[p] \in File
  OBVIOUS
<1>3. \A p \in Paths : Complete(f, a)[p] = IF f[p].by = a THEN [f[p] EXCEPT !.done = TRUE] ELSE f[p]
  BY DEF Complete
<1>4. Complete(f, a) = [p \in Paths |-> Complete(f, a)[p]]
  BY DEF Complete
<1>5. \A p \in Paths : Complete(f, a)[p] \in File
  BY <1>1, <1>2, <1>3
<1>6. Complete(f, a) \in [Paths -> File]
  BY <1>4, <1>5
<1>7. QED
  BY <1>1, <1>2, <1>3, <1>6

\* What a scan finds is well typed.
LEMMA FoundTyped ==
  ASSUME NEW h, NEW s \in BOOLEAN
  PROVE  /\ Found(h, s).state \in {"none", "available", "ready"}
         /\ Found(h, s).src \in BOOLEAN /\ Found(h, s).so \in Paths
PROOF
<1>1. Listed \in BOOLEAN /\ Current(h) \in BOOLEAN
  BY DEF Listed, Current, StampMatches, Exists
<1>2. CASE Listed /\ Current(h)
  BY <1>2 DEF Found
<1>3. CASE s /\ ~(Listed /\ Current(h))
  BY <1>1, <1>3 DEF Found
<1>4. CASE ~s /\ Listed /\ ~Current(h)
  BY <1>1, <1>4 DEF Found
<1>5. CASE ~s /\ ~Listed
  BY <1>1, <1>5 DEF Found
<1>6. QED
  BY <1>1, <1>2, <1>3, <1>4, <1>5

\* Every step keeps the types and what children have read.
LEMMA TypesKept ==
  ASSUME CatalogAssumption, NEW me, Apps = {me}, CatalogInv(me), [Next]_vars
  PROVE  TypeOK' /\ ReadsVersions(me)'
<1>1. ASSUME Edit PROVE TypeOK' /\ ReadsVersions(me)'
  BY <1>1, CatalogAssumption DEF CatalogAssumption, TypeOK, File, Building, NoChild,
     NewChild, Set, CatalogInv, ReadsVersions, ReadOn, Edit
<1>2. ASSUME Start(me) PROVE TypeOK' /\ ReadsVersions(me)'
  <2>1. PICK h \in InputsHashes :
          LET e == Found(h, Exists(lib["shipped"]))
          IN  Set(state, me, e.state) /\ Set(src_path, me, e.src) /\ Set(so_path, me, e.so)
    BY <1>2 DEF Start, Scan
  <2>2. Exists(lib["shipped"]) \in BOOLEAN
    BY DEF Exists
  <2>3. /\ Found(h, Exists(lib["shipped"])).state \in {"none", "available", "ready"}
        /\ Found(h, Exists(lib["shipped"])).src \in BOOLEAN
        /\ Found(h, Exists(lib["shipped"])).so \in Paths
    BY <2>2, FoundTyped
  <2>4. /\ state' \in [Apps -> {"none", "available", "ready", "compiling", "failed", "active"}]
        /\ src_path' \in [Apps -> BOOLEAN] /\ so_path' \in [Apps -> Paths]
        /\ state'[me] # "compiling"
    BY <2>1, <2>3 DEF CatalogInv, TypeOK, Set
  <2>5. QED
    BY <1>2, <2>4, CatalogAssumption DEF CatalogAssumption, Start, CatalogInv, TypeOK, ReadsVersions,
       Building, NoChild, Set
<1>3. ASSUME Rescan(me) PROVE TypeOK' /\ ReadsVersions(me)'
  BY <1>3, CatalogAssumption DEF CatalogAssumption, TypeOK, File, Building, NoChild,
     NewChild, Set, CatalogInv, ReadsVersions, ReadOn, Rescan, Scan, Found
<1>4. ASSUME PickReady(me) PROVE TypeOK' /\ ReadsVersions(me)'
  BY <1>4, CatalogAssumption DEF CatalogAssumption, TypeOK, File, Building, NoChild,
     NewChild, Set, CatalogInv, ReadsVersions, ReadOn, PickReady, Activate
<1>5. ASSUME PickCompiling(me) PROVE TypeOK' /\ ReadsVersions(me)'
  BY <1>5, CatalogAssumption DEF CatalogAssumption, TypeOK, File, Building, NoChild,
     NewChild, Set, CatalogInv, ReadsVersions, ReadOn, PickCompiling
<1>6. ASSUME PickBuild(me) PROVE TypeOK' /\ ReadsVersions(me)'
  <2>1. child \in [Apps -> ChildSet]
    BY DEF CatalogInv, TypeOK, ChildSet, Steps, Reads
  <2>2. PICK h \in InputsHashes : Set(hash, me, h) /\ DropStale(me, h)
    BY <1>6 DEF PickBuild
  <2>3. h \in Hashes
    BY DEF InputsHashes, InputsHash, HeaderHash, CatalogInv, TypeOK
  <2>4. hash' \in [Apps -> Hashes] /\ stamp' \in Hashes
    BY <2>2, <2>3, Records DEF DropStale, CatalogInv, TypeOK, Set
  <2>5. lib' \in [Paths -> File]
    <3>1. lib \in [Paths -> File] /\ (lib' = lib \/ lib' = [lib EXCEPT !["cache"] = NoFile])
      BY <2>2 DEF DropStale, CatalogInv, TypeOK
    <3>2. QED
      BY <3>1, Records
  <2>6. \/ child' = child /\ state' = [state EXCEPT ![me] = "failed"]
        \/ child' = [child EXCEPT ![me] = NewChild] /\ state' = [state EXCEPT ![me] = "compiling"]
    BY <1>6 DEF PickBuild, Spawn, Set
  <2>7. /\ child' \in [Apps -> ChildSet]
        /\ state' \in [Apps -> {"none", "available", "ready", "compiling", "failed", "active"}]
    BY <2>1, <2>6, NoChildTyped DEF CatalogInv, TypeOK
  <2>8. up'[me] => (Building(me)' <=> state'[me] = "compiling")
    BY <1>6, <2>1, <2>6, NoChildTyped DEF PickBuild, CatalogInv, TypeOK, Building
  <2>9. want_load' \in [Apps -> BOOLEAN] /\ spoiled' \in BOOLEAN
    BY <1>6 DEF PickBuild, Spawn, CatalogInv, TypeOK, Set, Exists
  <2>10. ReadsVersions(me)'
    <3>1. child'[me] = child[me] \/ child'[me] = NewChild
      BY <2>1, <2>6
    <3>2. edits' = edits /\ edits \in Nat /\ up' = up
      BY <1>6, CatalogAssumption DEF PickBuild, CatalogInv, TypeOK, CatalogAssumption
    <3>3. NewChild.at = "start" /\ NewChild.edits = 0 /\ NewChild.shell
      BY DEF NewChild
    <3>4. QED
      BY <1>6, <3>1, <3>2, <3>3 DEF PickBuild, CatalogInv, ReadsVersions, ReadOn, Building
  <2>11. QED
    BY <1>6, <2>4, <2>5, <2>7, <2>8, <2>9, <2>10 DEF PickBuild, CatalogInv, TypeOK, ChildSet, Steps, Reads
<1>7. ASSUME PickNoSdk(me) PROVE TypeOK' /\ ReadsVersions(me)'
  BY <1>7, CatalogAssumption DEF CatalogAssumption, TypeOK, File, Building, NoChild,
     NewChild, Set, CatalogInv, ReadsVersions, ReadOn, PickNoSdk
<1>8. ASSUME PickNoSource(me) PROVE TypeOK' /\ ReadsVersions(me)'
  BY <1>8, CatalogAssumption DEF CatalogAssumption, TypeOK, File, Building, NoChild,
     NewChild, Set, CatalogInv, ReadsVersions, ReadOn, PickNoSource, vars
<1>9. ASSUME Unload(me) PROVE TypeOK' /\ ReadsVersions(me)'
  BY <1>9, CatalogAssumption DEF CatalogAssumption, TypeOK, File, Building, NoChild,
     NewChild, Set, CatalogInv, ReadsVersions, ReadOn, Unload
<1>10. ASSUME Exit(me) PROVE TypeOK' /\ ReadsVersions(me)'
  <2>1. child \in [Apps -> ChildSet] /\ child[me] \in ChildSet
    BY DEF CatalogInv, TypeOK, ChildSet, Steps, Reads
  <2>2. \/ child' = [child EXCEPT ![me] = NoChild]
        \/ /\ child' = [child EXCEPT ![me] = [child[me] EXCEPT !.shell = FALSE]]
           /\ child[me].at \in {"include", "compile", "link"}
    BY <1>10 DEF Exit, Over, At, Set
  <2>3. \/ child'[me] = NoChild
        \/ /\ child'[me].at = child[me].at /\ child[me].at \in {"include", "compile", "link"}
           /\ child'[me].read = child[me].read /\ child'[me].edits = child[me].edits
    BY <2>1, <2>2, ShellSet
  <2>4. child' \in [Apps -> ChildSet]
    BY <2>1, <2>2, ShellSet, NoChildTyped
  <2>5. ~up'[me]
    BY <1>10 DEF Exit, Over, Set, CatalogInv, TypeOK
  <2>6. ReadsVersions(me)'
    BY <1>10, <2>3, <2>5 DEF Exit, Over, CatalogInv, TypeOK, ReadsVersions, ReadOn, Building, NoChild,
       Set
  <2>q. QED
    BY <1>10, <2>4, <2>5, <2>6 DEF Exit, Over, CatalogInv, TypeOK, ChildSet, Steps, Reads, Set,
       Building, NoChild
<1>11. ASSUME Crash(me) PROVE TypeOK' /\ ReadsVersions(me)'
  BY <1>11, CatalogAssumption DEF CatalogAssumption, TypeOK, File, Building, NoChild,
     NewChild, Set, CatalogInv, ReadsVersions, ReadOn, Crash, Over, At
<1>12. ASSUME ReadSource(me) PROVE TypeOK' /\ ReadsVersions(me)'
  <2> DEFINE r == <<source, None>>
  <2> DEFINE d == [child[me] EXCEPT !.at = "include", !.read = r]
  <2>1. child \in [Apps -> ChildSet] /\ child[me] \in ChildSet
    BY DEF CatalogInv, TypeOK, ChildSet, Steps, Reads
  <2>2. source \in Versions /\ r \in Reads
    BY <1>12 DEF ReadSource, At, CatalogInv, TypeOK, ReadsVersions, Reads
  <2>3. child' = [child EXCEPT ![me] = d]
    BY <1>12, <2>1, <2>2 DEF ReadSource, Set
  <2> HIDE DEF r
  <2>4. /\ d \in ChildSet /\ d.at = "include" /\ d.read = r
        /\ d.shell = child[me].shell /\ d.edits = child[me].edits
    BY <2>1, <2>2 DEF ChildSet, Steps
  <2> HIDE DEF d
  <2>5. child'[me] = d /\ child' \in [Apps -> ChildSet]
    BY <2>1, <2>3, <2>4
  <2>6. ReadsVersions(me)'
    BY <1>12, <2>2, <2>4, <2>5 DEF r, ReadSource, At, CatalogInv, ReadsVersions, ReadOn, Building,
       NoChild, Reads
  <2>7. up'[me] => (Building(me)' <=> state'[me] = "compiling")
    BY <1>12, <2>4, <2>5 DEF ReadSource, At, CatalogInv, TypeOK, Building, NoChild
  <2>8. QED
    BY <1>12, <2>5, <2>6, <2>7 DEF ReadSource, CatalogInv, TypeOK, ChildSet, Steps, Reads
<1>13. ASSUME ReadHeaders(me) PROVE TypeOK' /\ ReadsVersions(me)'
  <2> DEFINE r == <<child[me].read[1], headers>>
  <2> DEFINE d == [child[me] EXCEPT !.at = "compile", !.read = r]
  <2>1. child \in [Apps -> ChildSet] /\ child[me] \in ChildSet
    BY DEF CatalogInv, TypeOK, ChildSet, Steps, Reads
  <2>2. headers \in Versions /\ child[me].read[1] \in Versions /\ r \in Reads
    BY <1>13 DEF ReadHeaders, At, CatalogInv, TypeOK, ReadsVersions, Reads
  <2>3. child' = [child EXCEPT ![me] = d]
    BY <1>13, <2>1, <2>2, HeadersRead DEF ReadHeaders, Set
  <2> HIDE DEF r
  <2>4. /\ d \in ChildSet /\ d.at = "compile" /\ d.read = r
        /\ d.shell = child[me].shell /\ d.edits = child[me].edits
    BY <2>1, <2>2 DEF ChildSet, Steps
  <2> HIDE DEF d
  <2>5. child'[me] = d /\ child' \in [Apps -> ChildSet]
    BY <2>1, <2>3, <2>4
  <2>6. ReadsVersions(me)'
    BY <1>13, <2>2, <2>4, <2>5 DEF r, ReadHeaders, At, CatalogInv, ReadsVersions, ReadOn, Building,
       NoChild, Reads
  <2>7. up'[me] => (Building(me)' <=> state'[me] = "compiling")
    BY <1>13, <2>4, <2>5 DEF ReadHeaders, At, CatalogInv, TypeOK, Building, NoChild
  <2>8. QED
    BY <1>13, <2>5, <2>6, <2>7 DEF ReadHeaders, CatalogInv, TypeOK, ChildSet, Steps, Reads
<1>14. ASSUME CompileFails(me) PROVE TypeOK' /\ ReadsVersions(me)'
  <2> DEFINE d(w) == [child[me] EXCEPT !.at = w]
  <2>1. child \in [Apps -> ChildSet] /\ child[me] \in ChildSet
    BY DEF CatalogInv, TypeOK, ChildSet, Steps, Reads
  <2>2. \/ child' = [child EXCEPT ![me] = NoChild] /\ ~up[me]
        \/ \E w \in {"bad"} : child' = [child EXCEPT ![me] = d(w)] /\ up[me]
    BY <1>14 DEF CompileFails, At, Ends, Goes, Set
  <2>3. \A w \in Steps : /\ d(w) \in ChildSet /\ d(w).at = w /\ d(w).read = child[me].read
                         /\ d(w).shell = child[me].shell /\ d(w).edits = child[me].edits
    BY <2>1, AtSet
  <2> HIDE DEF d
  <2>4. /\ child' \in [Apps -> ChildSet]
        /\ \/ child'[me] = NoChild /\ ~up[me]
           \/ /\ child'[me].at \in {"bad"} /\ child'[me].read = child[me].read /\ up[me]
              /\ child'[me].shell = child[me].shell /\ child'[me].edits = child[me].edits
    BY <2>1, <2>2, <2>3, NoChildTyped DEF Steps
  <2>5. up'[me] => (Building(me)' <=> state'[me] = "compiling")
    BY <1>14, <2>4 DEF CompileFails, At, Ends, Goes, CatalogInv, TypeOK, ReadsVersions, Building, NoChild
  <2>6. ReadsVersions(me)'
    BY <1>14, <2>4 DEF CompileFails, At, Ends, Goes, CatalogInv, TypeOK, ReadsVersions, ReadOn,
       Building, NoChild
  <2>7. lib' \in [Paths -> File] /\ tmp' \in [Paths -> File]
    BY <1>14 DEF CompileFails, CatalogInv, TypeOK
  <2>8. QED
    BY <1>14, <2>4, <2>5, <2>6, <2>7 DEF CompileFails, At, Ends, Goes, CatalogInv, TypeOK, ChildSet,
       Steps, Reads
<1>15. ASSUME Link(me) PROVE TypeOK' /\ ReadsVersions(me)'
  BY <1>15, CatalogAssumption DEF CatalogAssumption, TypeOK, File, Building, NoChild,
     NewChild, Set, CatalogInv, ReadsVersions, ReadOn, Link, At, Goes
<1>16. ASSUME LinkDone(me) PROVE TypeOK' /\ ReadsVersions(me)'
  <2> DEFINE d(w) == [child[me] EXCEPT !.at = w]
  <2>1. child \in [Apps -> ChildSet] /\ child[me] \in ChildSet
    BY DEF CatalogInv, TypeOK, ChildSet, Steps, Reads
  <2>2. \/ child' = [child EXCEPT ![me] = NoChild] /\ ~child[me].shell
        \/ \E w \in {"mv"} : child' = [child EXCEPT ![me] = d(w)] /\ child[me].shell
    BY <1>16 DEF LinkDone, At, Goes, Set
  <2>3. \A w \in Steps : /\ d(w) \in ChildSet /\ d(w).at = w /\ d(w).read = child[me].read
                         /\ d(w).shell = child[me].shell /\ d(w).edits = child[me].edits
    BY <2>1, AtSet
  <2> HIDE DEF d
  <2>4. /\ child' \in [Apps -> ChildSet]
        /\ \/ child'[me] = NoChild /\ ~child[me].shell
           \/ /\ child'[me].at \in {"mv"} /\ child'[me].read = child[me].read /\ child[me].shell
              /\ child'[me].shell = child[me].shell /\ child'[me].edits = child[me].edits
    BY <2>1, <2>2, <2>3, NoChildTyped DEF Steps
  <2>5. up'[me] => (Building(me)' <=> state'[me] = "compiling")
    BY <1>16, <2>4 DEF LinkDone, At, Goes, CatalogInv, TypeOK, ReadsVersions, Building, NoChild
  <2>6. ReadsVersions(me)'
    BY <1>16, <2>4 DEF LinkDone, At, Goes, CatalogInv, TypeOK, ReadsVersions, ReadOn, Building, NoChild
  <2>7. lib' \in [Paths -> File] /\ tmp' \in [Paths -> File]
    BY <1>16, CompleteTyped DEF LinkDone, CatalogInv, TypeOK
  <2>8. QED
    BY <1>16, <2>4, <2>5, <2>6, <2>7 DEF LinkDone, At, Goes, CatalogInv, TypeOK, ChildSet, Steps, Reads
<1>17. ASSUME Move(me) PROVE TypeOK' /\ ReadsVersions(me)'
  <2> DEFINE d(w) == [child[me] EXCEPT !.at = w]
  <2>1. child \in [Apps -> ChildSet] /\ child[me] \in ChildSet
    BY DEF CatalogInv, TypeOK, ChildSet, Steps, Reads
  <2>2. \/ child' = [child EXCEPT ![me] = NoChild] /\ ~up[me]
        \/ \E w \in {"ok", "bad"} : child' = [child EXCEPT ![me] = d(w)] /\ up[me]
    BY <1>17 DEF Move, At, Ends, Goes, Set
  <2>3. \A w \in Steps : /\ d(w) \in ChildSet /\ d(w).at = w /\ d(w).read = child[me].read
                         /\ d(w).shell = child[me].shell /\ d(w).edits = child[me].edits
    BY <2>1, AtSet
  <2> HIDE DEF d
  <2>4. /\ child' \in [Apps -> ChildSet]
        /\ \/ child'[me] = NoChild /\ ~up[me]
           \/ /\ child'[me].at \in {"ok", "bad"} /\ child'[me].read = child[me].read /\ up[me]
              /\ child'[me].shell = child[me].shell /\ child'[me].edits = child[me].edits
    BY <2>1, <2>2, <2>3, NoChildTyped DEF Steps
  <2>5. up'[me] => (Building(me)' <=> state'[me] = "compiling")
    BY <1>17, <2>4 DEF Move, At, Ends, Goes, CatalogInv, TypeOK, ReadsVersions, Building, NoChild
  <2>6. ReadsVersions(me)'
    BY <1>17, <2>4 DEF Move, At, Ends, Goes, CatalogInv, TypeOK, ReadsVersions, ReadOn, Building, NoChild
  <2>7. lib' \in [Paths -> File] /\ tmp' \in [Paths -> File]
    <3>1. lib \in [Paths -> File] /\ tmp \in [Paths -> File] /\ so_path[me] \in Paths
      BY DEF CatalogInv, TypeOK
    <3>2. \/ lib' = lib /\ tmp' = tmp
          \/ /\ lib' = [lib EXCEPT ![so_path[me]] = tmp[so_path[me]]]
             /\ tmp' = [tmp EXCEPT ![so_path[me]] = NoFile]
      BY <1>17 DEF Move, Set
    <3>3. QED
      BY <3>1, <3>2, Records
  <2>8. QED
    BY <1>17, <2>4, <2>5, <2>6, <2>7 DEF Move, At, Ends, Goes, CatalogInv, TypeOK, ChildSet, Steps, Reads
<1>18. ASSUME up[me] /\ PollReady(me) PROVE TypeOK' /\ ReadsVersions(me)'
  BY <1>18, CatalogAssumption DEF CatalogAssumption, TypeOK, File, Building, NoChild,
     NewChild, Set, CatalogInv, ReadsVersions, ReadOn, PollReady, Succeeded, Activate, StampWrite,
     At, InputsHash, HeaderHash
<1>19. ASSUME up[me] /\ PollDiscard(me) PROVE TypeOK' /\ ReadsVersions(me)'
  BY <1>19, CatalogAssumption DEF CatalogAssumption, TypeOK, File, Building, NoChild,
     NewChild, Set, CatalogInv, ReadsVersions, ReadOn, PollDiscard, Succeeded, NoFile, At
<1>20. ASSUME up[me] /\ PollFailed(me) PROVE TypeOK' /\ ReadsVersions(me)'
  BY <1>20, CatalogAssumption DEF CatalogAssumption, TypeOK, File, Building, NoChild,
     NewChild, Set, CatalogInv, ReadsVersions, ReadOn, PollFailed, Succeeded, At
<1>21. ASSUME UNCHANGED vars PROVE TypeOK' /\ ReadsVersions(me)'
  BY <1>21 DEF TypeOK, File, Building, NoChild, NewChild, Set, CatalogInv, ReadsVersions, ReadOn,
     vars
<1>q. QED
  BY <1>1, <1>2, <1>3, <1>4, <1>5, <1>6, <1>7, <1>8, <1>9, <1>10, <1>11, <1>12, <1>13,
     <1>14, <1>15, <1>16, <1>17, <1>18, <1>19, <1>20, <1>21 DEF Next, App, Child, Poll,
     Ended

\* Every step keeps files whole but for the one that is being linked.
LEMMA FilesKept ==
  ASSUME CatalogAssumption, NEW me, Apps = {me}, CatalogInv(me), [Next]_vars
  PROVE  FilesOK(me)'
<1>1. ASSUME Edit PROVE FilesOK(me)'
  BY <1>1, CatalogAssumption DEF CatalogAssumption, TypeOK, File, Building, NoChild,
     NewChild, Set, CatalogInv, FilesOK, At, Exists, NoFile, Edit
<1>2. ASSUME Start(me) PROVE FilesOK(me)'
  BY <1>2, CatalogAssumption DEF CatalogAssumption, TypeOK, File, Building, NoChild,
     NewChild, Set, CatalogInv, FilesOK, At, Exists, NoFile, Start, Scan, Found, InputsHashes,
     InputsHash, HeaderHash
<1>3. ASSUME Rescan(me) PROVE FilesOK(me)'
  BY <1>3, CatalogAssumption DEF CatalogAssumption, TypeOK, File, Building, NoChild,
     NewChild, Set, CatalogInv, FilesOK, At, Exists, NoFile, Rescan, Scan, Found
<1>4. ASSUME PickReady(me) PROVE FilesOK(me)'
  BY <1>4, CatalogAssumption DEF CatalogAssumption, TypeOK, File, Building, NoChild,
     NewChild, Set, CatalogInv, FilesOK, At, Exists, NoFile, PickReady, Activate
<1>5. ASSUME PickCompiling(me) PROVE FilesOK(me)'
  BY <1>5, CatalogAssumption DEF CatalogAssumption, TypeOK, File, Building, NoChild,
     NewChild, Set, CatalogInv, FilesOK, At, Exists, NoFile, PickCompiling
<1>6. ASSUME PickBuild(me) PROVE FilesOK(me)'
  BY <1>6, CatalogAssumption DEF CatalogAssumption, TypeOK, File, Building, NoChild,
     NewChild, Set, CatalogInv, FilesOK, At, Exists, NoFile, PickBuild, InputsHashes, InputsHash,
     HeaderHash, DropStale, StampMatches, Spawn
<1>7. ASSUME PickNoSdk(me) PROVE FilesOK(me)'
  BY <1>7, CatalogAssumption DEF CatalogAssumption, TypeOK, File, Building, NoChild,
     NewChild, Set, CatalogInv, FilesOK, At, Exists, NoFile, PickNoSdk
<1>8. ASSUME PickNoSource(me) PROVE FilesOK(me)'
  BY <1>8, CatalogAssumption DEF CatalogAssumption, TypeOK, File, Building, NoChild,
     NewChild, Set, CatalogInv, FilesOK, At, Exists, NoFile, PickNoSource, vars
<1>9. ASSUME Unload(me) PROVE FilesOK(me)'
  BY <1>9, CatalogAssumption DEF CatalogAssumption, TypeOK, File, Building, NoChild,
     NewChild, Set, CatalogInv, FilesOK, At, Exists, NoFile, Unload
<1>10. ASSUME Exit(me) PROVE FilesOK(me)'
  BY <1>10, CatalogAssumption DEF CatalogAssumption, TypeOK, File, Building, NoChild,
     NewChild, Set, CatalogInv, FilesOK, At, Exists, NoFile, Exit, Over
<1>11. ASSUME Crash(me) PROVE FilesOK(me)'
  BY <1>11, CatalogAssumption DEF CatalogAssumption, TypeOK, File, Building, NoChild,
     NewChild, Set, CatalogInv, FilesOK, At, Exists, NoFile, Crash, Over
<1>12. ASSUME ReadSource(me) PROVE FilesOK(me)'
  BY <1>12, CatalogAssumption DEF CatalogAssumption, TypeOK, File, Building, NoChild,
     NewChild, Set, CatalogInv, FilesOK, At, Exists, NoFile, ReadSource
<1>13. ASSUME ReadHeaders(me) PROVE FilesOK(me)'
  BY <1>13, CatalogAssumption DEF CatalogAssumption, TypeOK, File, Building, NoChild,
     NewChild, Set, CatalogInv, FilesOK, At, Exists, NoFile, ReadHeaders
<1>14. ASSUME CompileFails(me) PROVE FilesOK(me)'
  BY <1>14, CatalogAssumption DEF CatalogAssumption, TypeOK, File, Building, NoChild,
     NewChild, Set, CatalogInv, FilesOK, At, Exists, NoFile, CompileFails, Ends, Goes
<1>15. ASSUME Link(me) PROVE FilesOK(me)'
  BY <1>15, CatalogAssumption DEF CatalogAssumption, TypeOK, File, Building, NoChild,
     NewChild, Set, CatalogInv, FilesOK, At, Exists, NoFile, Link, Goes
<1>16. ASSUME LinkDone(me) PROVE FilesOK(me)'
  BY <1>16, CatalogAssumption DEF CatalogAssumption, TypeOK, File, Building, NoChild,
     NewChild, Set, CatalogInv, FilesOK, At, Exists, NoFile, LinkDone, Goes, Complete
<1>17. ASSUME Move(me) PROVE FilesOK(me)'
  BY <1>17, CatalogAssumption DEF CatalogAssumption, TypeOK, File, Building, NoChild,
     NewChild, Set, CatalogInv, FilesOK, At, Exists, NoFile, Move, Ends, Goes
<1>18. ASSUME up[me] /\ PollReady(me) PROVE FilesOK(me)'
  BY <1>18, CatalogAssumption DEF CatalogAssumption, TypeOK, File, Building, NoChild,
     NewChild, Set, CatalogInv, FilesOK, At, Exists, NoFile, PollReady, Succeeded, Activate,
     StampWrite, InputsHash, HeaderHash
<1>19. ASSUME up[me] /\ PollDiscard(me) PROVE FilesOK(me)'
  BY <1>19, CatalogAssumption DEF CatalogAssumption, TypeOK, File, Building, NoChild,
     NewChild, Set, CatalogInv, FilesOK, At, Exists, NoFile, PollDiscard, Succeeded
<1>20. ASSUME up[me] /\ PollFailed(me) PROVE FilesOK(me)'
  BY <1>20, CatalogAssumption DEF CatalogAssumption, TypeOK, File, Building, NoChild,
     NewChild, Set, CatalogInv, FilesOK, At, Exists, NoFile, PollFailed, Succeeded
<1>21. ASSUME UNCHANGED vars PROVE FilesOK(me)'
  BY <1>21 DEF TypeOK, File, Building, NoChild, NewChild, Set, CatalogInv, FilesOK, At, Exists,
     NoFile, vars
<1>q. QED
  BY <1>1, <1>2, <1>3, <1>4, <1>5, <1>6, <1>7, <1>8, <1>9, <1>10, <1>11, <1>12, <1>13,
     <1>14, <1>15, <1>16, <1>17, <1>18, <1>19, <1>20, <1>21 DEF Next, App, Child, Poll,
     Ended

\* Every step keeps stamps honest, or is one that spoils them.
LEMMA HistoryKept ==
  ASSUME CatalogAssumption, NEW me, Apps = {me}, CatalogInv(me), [Next]_vars
  PROVE  HistoryOK(me)'
<1>1. ASSUME Edit PROVE HistoryOK(me)'
  BY <1>1, CatalogAssumption DEF CatalogAssumption, TypeOK, File, Building, NoChild,
     NewChild, Set, CatalogInv, ReadsVersions, ReadOn, FilesOK, HistoryOK, Pending, Unchanged,
     Vouched, Beside, Inputs, Exists, At, NoFile, Edit
<1>2. ASSUME Start(me) PROVE HistoryOK(me)'
  BY <1>2, CatalogAssumption DEF CatalogAssumption, TypeOK, File, Building, NoChild,
     NewChild, Set, CatalogInv, ReadsVersions, ReadOn, FilesOK, HistoryOK, Pending, Unchanged,
     Vouched, Beside, Inputs, Exists, At, NoFile, Start, Scan, Found, InputsHashes,
     InputsHash, HeaderHash
<1>3. ASSUME Rescan(me) PROVE HistoryOK(me)'
  BY <1>3, CatalogAssumption DEF CatalogAssumption, TypeOK, File, Building, NoChild,
     NewChild, Set, CatalogInv, ReadsVersions, ReadOn, FilesOK, HistoryOK, Pending, Unchanged,
     Vouched, Beside, Inputs, Exists, At, NoFile, Rescan, Scan, Found
<1>4. ASSUME PickReady(me) PROVE HistoryOK(me)'
  BY <1>4, CatalogAssumption DEF CatalogAssumption, TypeOK, File, Building, NoChild,
     NewChild, Set, CatalogInv, ReadsVersions, ReadOn, FilesOK, HistoryOK, Pending, Unchanged,
     Vouched, Beside, Inputs, Exists, At, NoFile, PickReady, Activate
<1>5. ASSUME PickCompiling(me) PROVE HistoryOK(me)'
  BY <1>5, CatalogAssumption DEF CatalogAssumption, TypeOK, File, Building, NoChild,
     NewChild, Set, CatalogInv, ReadsVersions, ReadOn, FilesOK, HistoryOK, Pending, Unchanged,
     Vouched, Beside, Inputs, Exists, At, NoFile, PickCompiling
<1>6. ASSUME PickBuild(me) PROVE HistoryOK(me)'
  <2> SUFFICES ASSUME ~spoiled, ~spoiled' PROVE HistoryOK(me)'
    BY <1>6 DEF PickBuild, CatalogInv, TypeOK, HistoryOK, Set
  <2>1. PICK h \in InputsHashes : Set(hash, me, h) /\ DropStale(me, h)
    BY <1>6 DEF PickBuild
  <2>2. ~Building(me) /\ ~At(me, "ok")
    BY <1>6 DEF PickBuild, CatalogInv, TypeOK, Building, NoChild, At
  <2>3. Exists(lib["cache"]) /\ stamp # NoHash => lib["cache"].ver = stamp
    BY <2>2 DEF CatalogInv, HistoryOK, Vouched
  <2>4. \/ lib' = lib /\ (stamp' = stamp \/ stamp' = NoHash)
        \/ so_path[me] = "cache" /\ lib' = [lib EXCEPT !["cache"] = NoFile] /\ stamp' = NoHash
    BY <2>1 DEF DropStale
  <2>5. Vouched(me)'
    BY <2>3, <2>4 DEF Vouched
  <2>6. Pending(me)'
    BY <1>6 DEF PickBuild, InputsHashes, InputsHash, HeaderHash, DropStale, StampMatches, Spawn,
         CatalogInv, TypeOK, Pending, Unchanged, Inputs, ReadOn, NewChild, Building, NoChild, Set
  <2>7. Beside(me)'
    BY <1>6, <2>4 DEF PickBuild, Beside, Exists
  <2>8. QED
    BY <2>5, <2>6, <2>7 DEF HistoryOK
<1>7. ASSUME PickNoSdk(me) PROVE HistoryOK(me)'
  BY <1>7, CatalogAssumption DEF CatalogAssumption, TypeOK, File, Building, NoChild,
     NewChild, Set, CatalogInv, ReadsVersions, ReadOn, FilesOK, HistoryOK, Pending, Unchanged,
     Vouched, Beside, Inputs, Exists, At, NoFile, PickNoSdk
<1>8. ASSUME PickNoSource(me) PROVE HistoryOK(me)'
  BY <1>8, CatalogAssumption DEF CatalogAssumption, TypeOK, File, Building, NoChild,
     NewChild, Set, CatalogInv, ReadsVersions, ReadOn, FilesOK, HistoryOK, Pending, Unchanged,
     Vouched, Beside, Inputs, Exists, At, NoFile, PickNoSource, vars
<1>9. ASSUME Unload(me) PROVE HistoryOK(me)'
  BY <1>9, CatalogAssumption DEF CatalogAssumption, TypeOK, File, Building, NoChild,
     NewChild, Set, CatalogInv, ReadsVersions, ReadOn, FilesOK, HistoryOK, Pending, Unchanged,
     Vouched, Beside, Inputs, Exists, At, NoFile, Unload
<1>10. ASSUME Exit(me) PROVE HistoryOK(me)'
  BY <1>10, CatalogAssumption DEF CatalogAssumption, TypeOK, File, Building, NoChild,
     NewChild, Set, CatalogInv, ReadsVersions, ReadOn, FilesOK, HistoryOK, Pending, Unchanged,
     Vouched, Beside, Inputs, Exists, At, NoFile, Exit, Over
<1>11. ASSUME Crash(me) PROVE HistoryOK(me)'
  <2> SUFFICES ASSUME ~spoiled, ~spoiled' PROVE HistoryOK(me)'
    BY <1>11 DEF Crash, Over, CatalogInv, TypeOK, HistoryOK
  <2>1. /\ lib' = lib /\ stamp' = stamp /\ source' = source /\ headers' = headers
        /\ so_path' = so_path /\ up[me] /\ ~up'[me]
        /\ \/ child'[me] = NoChild
           \/ child'[me] = child[me] /\ ~At(me, "ok")
    BY <1>11 DEF Crash, Over, CatalogInv, TypeOK, Set, At
  <2>2. Building(me) => child[me].edits = 0 /\ hash[me] # NoHash
    <3>1. Building(me) => state[me] = "compiling"
      BY <2>1 DEF CatalogInv, TypeOK
    <3>2. ~(state[me] = "compiling" /\ (child[me].edits > 0 \/ hash[me] = NoHash))
      BY <1>11 DEF Crash, Over
    <3>3. child[me].edits >= 0 /\ child[me].edits \in Int
      BY DEF CatalogInv, TypeOK
    <3>4. QED
      BY <3>1, <3>2, <3>3
  <2>3. Building(me) => Unchanged(me)
    BY <2>2 DEF CatalogInv, HistoryOK, Pending
  <2>4. Pending(me)'
    BY <2>1, <2>3 DEF Pending, Unchanged, Inputs, Building
  <2>5. Exists(lib["cache"]) /\ stamp # NoHash => lib["cache"].ver = stamp
    BY <2>1, <2>2, <2>3 DEF CatalogInv, HistoryOK, Vouched, FilesOK, Unchanged, ReadOn, At, Building,
       NoChild
  <2>6. Vouched(me)' /\ Beside(me)'
    BY <2>1, <2>5 DEF Vouched, Beside, CatalogInv, HistoryOK, Building
  <2>7. QED
    BY <2>4, <2>6 DEF HistoryOK
<1>12. ASSUME ReadSource(me) PROVE HistoryOK(me)'
  BY <1>12, CatalogAssumption DEF CatalogAssumption, TypeOK, File, Building, NoChild,
     NewChild, Set, CatalogInv, ReadsVersions, ReadOn, FilesOK, HistoryOK, Pending, Unchanged,
     Vouched, Beside, Inputs, Exists, At, NoFile, ReadSource
<1>13. ASSUME ReadHeaders(me) PROVE HistoryOK(me)'
  BY <1>13, CatalogAssumption DEF CatalogAssumption, TypeOK, File, Building, NoChild,
     NewChild, Set, CatalogInv, ReadsVersions, ReadOn, FilesOK, HistoryOK, Pending, Unchanged,
     Vouched, Beside, Inputs, Exists, At, NoFile, ReadHeaders
<1>14. ASSUME CompileFails(me) PROVE HistoryOK(me)'
  BY <1>14, CatalogAssumption DEF CatalogAssumption, TypeOK, File, Building, NoChild,
     NewChild, Set, CatalogInv, ReadsVersions, ReadOn, FilesOK, HistoryOK, Pending, Unchanged,
     Vouched, Beside, Inputs, Exists, At, NoFile, CompileFails, Ends, Goes
<1>15. ASSUME Link(me) PROVE HistoryOK(me)'
  BY <1>15, CatalogAssumption DEF CatalogAssumption, TypeOK, File, Building, NoChild,
     NewChild, Set, CatalogInv, ReadsVersions, ReadOn, FilesOK, HistoryOK, Pending, Unchanged,
     Vouched, Beside, Inputs, Exists, At, NoFile, Link, Goes
<1>16. ASSUME LinkDone(me) PROVE HistoryOK(me)'
  <2> SUFFICES ASSUME ~spoiled PROVE HistoryOK(me)'
    BY <1>16 DEF LinkDone, CatalogInv, TypeOK, HistoryOK
  <2>1. lib' = Complete(lib, me) /\ lib \in [Paths -> File] /\ lib["cache"].done
    BY <1>16 DEF LinkDone, CatalogInv, TypeOK, FilesOK
  <2>2. lib'["cache"] = lib["cache"]
    <3>1. \A p \in Paths : lib[p].done => Complete(lib, me)[p] = lib[p]
      BY <2>1, CompleteTyped
    <3>2. QED
      BY <2>1, <3>1
  <2>3. /\ UNCHANGED <<stamp, so_path, up, hash, source, headers>> /\ At(me, "link") /\ Building(me)
        /\ \/ child'[me] = NoChild
           \/ /\ child'[me].at = "mv" /\ child'[me].read = child[me].read
              /\ child'[me].edits = child[me].edits
    <3>1. child \in [Apps -> ChildSet] /\ child[me] \in ChildSet
      BY DEF CatalogInv, TypeOK, ChildSet, Steps, Reads
    <3>2. child' = [child EXCEPT ![me] = [child[me] EXCEPT !.at = "mv"]]
          \/ child' = [child EXCEPT ![me] = NoChild]
      BY <1>16 DEF LinkDone, Goes, Set
    <3>3. \/ child'[me] = [child[me] EXCEPT !.at = "mv"]
          \/ child'[me] = NoChild
      BY <3>1, <3>2
    <3>4. QED
      BY <1>16, <3>1, <3>3 DEF LinkDone, At, Building, NoChild, ChildSet
  <2>6. Pending(me)'
    BY <2>3 DEF CatalogInv, HistoryOK, Pending, Unchanged, Inputs, ReadOn, At, Building, NoChild
  <2>4. Vouched(me)' /\ Beside(me)'
    BY <1>16, <2>2 DEF LinkDone, Goes, CatalogInv, TypeOK, HistoryOK, Vouched, Beside, At, Building,
       NoChild,
         Set, Exists
  <2>5. QED
    BY <2>4, <2>6 DEF HistoryOK
<1>17. ASSUME Move(me) PROVE HistoryOK(me)'
  <2> SUFFICES ASSUME ~spoiled PROVE HistoryOK(me)'
    BY <1>17 DEF Move, CatalogInv, TypeOK, HistoryOK
  <2>1. At(me, "mv") /\ Building(me)
    BY <1>17 DEF Move, At, Building, NoChild
  <2>2. /\ stamp' = stamp /\ so_path' = so_path /\ up' = up /\ hash' = hash
        /\ source' = source /\ headers' = headers
    BY <1>17 DEF Move
  <2>3. \/ child'[me] = NoChild /\ ~up[me]
        \/ /\ child'[me].at \in {"ok", "bad"} /\ child'[me].read = child[me].read
           /\ child'[me].edits = child[me].edits
    BY <1>17 DEF Move, Ends, Goes, Set, CatalogInv, TypeOK
  <2>4. Pending(me)'
    BY <2>1, <2>2, <2>3 DEF CatalogInv, HistoryOK, Pending, Unchanged, Inputs, ReadOn, At, Building,
       NoChild
  <2>5. CASE so_path[me] = "shipped"
    <3>1. lib'["cache"] = lib["cache"]
      BY <1>17, <2>5 DEF Move, Set, CatalogInv, TypeOK
    <3>2. QED
      BY <2>1, <2>2, <2>3, <2>4, <2>5, <3>1 DEF CatalogInv, HistoryOK, Vouched, Beside, Building, Exists
  <2>6. CASE so_path[me] = "cache"
    <3>1. \/ lib' = lib /\ ~Exists(tmp["cache"]) /\ (child'[me] = NoChild \/ At(me, "bad")')
          \/ /\ lib'["cache"] = tmp["cache"]
             /\ ~up[me] \/ At(me, "ok")'
      BY <1>17, <2>6 DEF Move, Ends, Goes, Set, CatalogInv, TypeOK, At
    <3>2. tmp["cache"].ver = child[me].read
      BY <2>1, <2>6 DEF CatalogInv, FilesOK
    <3>3. ~up[me] => child[me].read = Inputs /\ stamp \in {NoHash, Inputs}
      BY <2>1, <2>6 DEF CatalogInv, HistoryOK, Pending, Unchanged, ReadOn, At
    <3>4. Vouched(me)'
      BY <2>1, <2>2, <2>6, <3>1, <3>2, <3>3 DEF CatalogInv, HistoryOK, Vouched, At
    <3>5. Beside(me)'
      BY <2>2, <2>6 DEF Beside
    <3>6. QED
      BY <2>4, <3>4, <3>5 DEF HistoryOK
  <2>7. QED
    BY <2>5, <2>6 DEF CatalogInv, TypeOK
<1>18. ASSUME up[me] /\ PollReady(me) PROVE HistoryOK(me)'
  <2>1. /\ child' = [child EXCEPT ![me] = NoChild] /\ lib' = lib /\ so_path' = so_path
        /\ At(me, "ok") /\ hash[me] # NoHash /\ hash[me] = InputsHash
        /\ stamp' \in {hash[me], stamp} /\ UNCHANGED <<source, headers>>
        /\ spoiled' = (spoiled /\ ~(so_path[me] = "cache" /\ child[me].edits < 2))
    BY <1>18 DEF PollReady, Succeeded, StampWrite, SeenByHash, Set
  <2>2. child'[me] = NoChild /\ ~Building(me)' /\ ~At(me, "ok")'
    BY <2>1 DEF CatalogInv, TypeOK, Building, At, NoChild
  <2>3. Pending(me)' /\ Beside(me)'
    BY <2>2 DEF Pending, Beside
  <2>4. hash[me] = Inputs
    BY <2>1 DEF InputsHash, HeaderHash, Inputs
  <2>5. Building(me) /\ child[me].at \in ReadOn
    BY <2>1 DEF Building, At, NoChild, ReadOn
  <2>6. CASE so_path[me] = "cache" /\ child[me].edits < 2
    <3>1. Unchanged(me)
      BY <1>18, <2>1, <2>4, <2>5, <2>6 DEF CatalogInv, SeenOK
    <3>2. lib["cache"].ver = Inputs /\ stamp' \in {NoHash, Inputs}
      BY <2>1, <2>4, <2>5, <2>6, <3>1 DEF CatalogInv, FilesOK, Unchanged
    <3>3. Vouched(me)'
      BY <2>1, <3>2 DEF Vouched
    <3> QED BY <2>3, <3>3 DEF HistoryOK
  <2>7. CASE ~(so_path[me] = "cache" /\ child[me].edits < 2)
    <3>1. CASE spoiled
      BY <2>1, <2>7, <3>1 DEF HistoryOK
    <3>2. CASE ~spoiled
      <4>1. so_path[me] # "cache" \/ Unchanged(me)
        BY <1>18, <2>1, <2>4, <2>5, <3>2 DEF CatalogInv, HistoryOK, Pending
      <4>2. child[me].edits \in Int
        BY DEF CatalogInv, TypeOK
      <4>3. so_path[me] = "shipped"
        BY <2>7, <4>1, <4>2 DEF CatalogInv, TypeOK, Unchanged
      <4>4. ~Exists(lib["cache"])
        BY <2>5, <3>2, <4>3 DEF CatalogInv, HistoryOK, Beside
      <4>5. Vouched(me)'
        BY <2>1, <4>4 DEF Vouched, Exists
      <4> QED BY <2>3, <4>5 DEF HistoryOK
    <3> QED BY <3>1, <3>2
  <2> QED BY <2>6, <2>7
<1>19. ASSUME up[me] /\ PollDiscard(me) PROVE HistoryOK(me)'
  <2>1. /\ child' = [child EXCEPT ![me] = NoChild] /\ so_path' = so_path /\ stamp' = stamp
        /\ lib' = IF so_path[me] = "cache" THEN [lib EXCEPT !["cache"] = NoFile] ELSE lib
        /\ At(me, "ok") /\ spoiled' = (spoiled /\ so_path[me] # "cache")
    BY <1>19 DEF PollDiscard, Succeeded, Set
  <2>2. child'[me] = NoChild /\ ~Building(me)' /\ ~At(me, "ok")' /\ Building(me)
    BY <2>1 DEF CatalogInv, TypeOK, Building, At, NoChild
  <2>3. Pending(me)' /\ Beside(me)'
    BY <2>2 DEF Pending, Beside
  <2>4. CASE so_path[me] = "cache"
    <3>1. ~Exists(lib'["cache"])
      BY <2>1, <2>4 DEF CatalogInv, TypeOK, Exists
    <3>2. Vouched(me)'
      BY <3>1 DEF Vouched, Exists
    <3> QED BY <2>3, <3>2 DEF HistoryOK
  <2>5. CASE so_path[me] # "cache"
    <3>1. CASE spoiled
      BY <2>1, <2>5, <3>1 DEF HistoryOK
    <3>2. CASE ~spoiled
      <4>1. Vouched(me)'
        BY <2>1, <2>5, <3>2 DEF CatalogInv, HistoryOK, Vouched, Exists
      <4> QED BY <2>3, <4>1 DEF HistoryOK
    <3> QED BY <3>1, <3>2
  <2> QED BY <2>4, <2>5
<1>20. ASSUME up[me] /\ PollFailed(me) PROVE HistoryOK(me)'
  BY <1>20, CatalogAssumption DEF CatalogAssumption, TypeOK, File, Building, NoChild,
     NewChild, Set, CatalogInv, ReadsVersions, ReadOn, FilesOK, HistoryOK, Pending, Unchanged,
     Vouched, Beside, Inputs, Exists, At, NoFile, PollFailed, Succeeded
<1>21. ASSUME UNCHANGED vars PROVE HistoryOK(me)'
  BY <1>21 DEF TypeOK, File, Building, NoChild, NewChild, Set, CatalogInv, ReadsVersions, ReadOn,
     FilesOK, HistoryOK, Pending, Unchanged, Vouched, Beside, Inputs, Exists, At, NoFile,
     vars
<1>q. QED
  BY <1>1, <1>2, <1>3, <1>4, <1>5, <1>6, <1>7, <1>8, <1>9, <1>10, <1>11, <1>12, <1>13,
     <1>14, <1>15, <1>16, <1>17, <1>18, <1>19, <1>20, <1>21 DEF Next, App, Child, Poll,
     Ended

\* A build whose inputs change once is thrown away.
LEMMA SeenKept ==
  ASSUME CatalogAssumption, NEW me, Apps = {me}, CatalogInv(me), [Next]_vars
  PROVE  SeenOK(me)'
<1> SUFFICES ASSUME Building(me)', up'[me], child'[me].edits < 2
             PROVE  \/ hash'[me] = NoHash
                    \/ child'[me].edits = 1 /\ hash'[me] # Inputs'
                    \/ Unchanged(me)'
  BY DEF SeenOK
<1>0. child[me].edits \in Nat
  BY DEF CatalogInv, TypeOK
<1>1. CASE Edit
  <2>1. /\ up[me] /\ hash' = hash /\ Inputs' # Inputs /\ UNCHANGED <<so_path, stamp>>
        /\ child'[me] = IF Building(me) THEN [child[me] EXCEPT !.edits = @ + 1] ELSE NoChild
    BY <1>1 DEF Edit, Inputs
  <2>2. Building(me) /\ child'[me] = [child[me] EXCEPT !.edits = @ + 1]
    BY <2>1 DEF Building
  <2>3. child[me] \in ChildSet
    BY DEF CatalogInv, TypeOK, ChildSet, Steps, Reads
  <2>4. child'[me].edits = child[me].edits + 1
    BY <2>2, <2>3 DEF ChildSet
  <2>5. child[me].edits = 0
    BY <1>0, <2>4
  <2>6. hash[me] = NoHash \/ hash[me] = Inputs
    BY <2>1, <2>2, <2>5 DEF CatalogInv, SeenOK, Unchanged
  <2> QED BY <2>1, <2>4, <2>5, <2>6
<1>2. CASE PickBuild(me)
  <2>1. PICK h \in InputsHashes : Set(hash, me, h) /\ DropStale(me, h)
    BY <1>2 DEF PickBuild
  <2>2. ~Building(me)
    BY <1>2 DEF PickBuild, CatalogInv, TypeOK
  <2>3. child'[me] = NewChild
    BY <1>2, <2>2 DEF PickBuild, Spawn, Set, CatalogInv, TypeOK, Building
  <2>4. hash'[me] = h /\ (h = NoHash \/ h = Inputs) /\ Inputs' = Inputs /\ so_path' = so_path
    BY <1>2, <2>1 DEF PickBuild, Set, CatalogInv, TypeOK, InputsHashes, InputsHash, HeaderHash, Inputs
  <2>5. h # NoHash => stamp' \in {NoHash, h}
    BY <2>1 DEF DropStale, StampMatches
  <2>6. NewChild.edits = 0 /\ NewChild.at = "start"
    BY DEF NewChild
  <2> QED BY <2>3, <2>4, <2>5, <2>6 DEF Unchanged, ReadOn, Inputs
<1>3. CASE ReadSource(me) \/ ReadHeaders(me) \/ Link(me)
  <2>1. /\ UNCHANGED <<up, hash, stamp, so_path, source, headers>> /\ Building(me)
        /\ child[me] \in ChildSet /\ child \in [Apps -> ChildSet]
    BY <1>3 DEF ReadSource, ReadHeaders, Link, At, Building, NoChild, CatalogInv, TypeOK, ChildSet,
       Steps, Reads
  <2>2. child'[me].edits = child[me].edits
    <3>1. CASE ReadSource(me) \/ Link(me)
      BY <2>1, <3>1 DEF ReadSource, Link, Goes, Set, ChildSet
    <3>2. CASE ReadHeaders(me)
      <4>1. child'[me] = [child[me] EXCEPT !.at = "compile", !.read[2] = headers] /\ headers \in Versions
        BY <2>1, <3>2 DEF ReadHeaders, Set, CatalogInv, TypeOK
      <4>2. child'[me] = [child[me] EXCEPT !.at = "compile", !.read = <<child[me].read[1], headers>>]
        BY <2>1, <4>1, HeadersRead
      <4> QED BY <2>1, <4>2 DEF ChildSet
    <3> QED BY <1>3, <3>1, <3>2
  <2>3. CASE child[me].edits = 1 \/ hash[me] = NoHash \/ ~Unchanged(me)
    BY <2>1, <2>2, <2>3 DEF CatalogInv, SeenOK, Inputs, Unchanged
  <2>4. CASE Unchanged(me) /\ child[me].edits = 0
    <3>1. /\ child'[me].at = "include" => child'[me].read[1] = source
          /\ child'[me].at \in ReadOn => child'[me].read = Inputs
      <4>1. CASE ReadSource(me)
        <5>1. child'[me].at = "include" /\ child'[me].read = <<source, None>>
          BY <2>1, <4>1 DEF ReadSource, Set, ChildSet
        <5> QED BY <5>1 DEF ReadOn
      <4>2. CASE ReadHeaders(me)
        <5>1. child[me].read[1] = source /\ headers \in Versions
          BY <2>4, <4>2 DEF ReadHeaders, At, Unchanged, CatalogInv, TypeOK
        <5>2. child'[me] = [child[me] EXCEPT !.at = "compile", !.read = <<source, headers>>]
          <6>1. child'[me] = [child[me] EXCEPT !.at = "compile", !.read[2] = headers]
            BY <2>1, <4>2 DEF ReadHeaders, Set
          <6> QED BY <2>1, <5>1, <6>1, HeadersRead
        <5>3. child'[me].at = "compile" /\ child'[me].read = Inputs
          BY <2>1, <5>2 DEF ChildSet, Inputs
        <5> QED BY <5>3
      <4>3. CASE Link(me)
        <5>1. child[me].at = "compile" /\ child'[me] = [child[me] EXCEPT !.at = "link"]
          BY <2>1, <4>3 DEF Link, Goes, Set, At
        <5>2. child'[me].at = "link" /\ child'[me].read = child[me].read
          BY <2>1, <5>1 DEF ChildSet
        <5> QED BY <2>4, <5>1, <5>2 DEF Unchanged, ReadOn
      <4> QED BY <1>3, <4>1, <4>2, <4>3
    <3> QED BY <2>1, <2>2, <2>4, <3>1 DEF Unchanged, Inputs
  <2> QED BY <2>3, <2>4 DEF Unchanged
<1>4. CASE CompileFails(me) \/ LinkDone(me) \/ Move(me)
  <2>1. /\ \/ child' = [child EXCEPT ![me] = NoChild]
           \/ \E w \in {"mv", "ok", "bad"} : child' = [child EXCEPT ![me] = [child[me] EXCEPT !.at = w]]
        /\ UNCHANGED <<up, hash, stamp, so_path, source, headers>>
    BY <1>4 DEF CompileFails, LinkDone, Move, Ends, Goes, Set
  <2>2. child[me] \in ChildSet /\ child \in [Apps -> ChildSet]
    BY DEF CatalogInv, TypeOK, ChildSet, Steps, Reads
  <2>3. PICK w \in {"mv", "ok", "bad"} : child'[me] = [child[me] EXCEPT !.at = w]
    BY <2>1, <2>2 DEF Building
  <2>4. child'[me].at = w /\ child'[me].read = child[me].read /\ child'[me].edits = child[me].edits
    BY <2>2, <2>3 DEF ChildSet
  <2>5. w = "bad" \/ child[me].at \in ReadOn
    BY <1>4, <2>4 DEF CompileFails, LinkDone, Move, Ends, Goes, Set, At, ReadOn, CatalogInv, TypeOK,
       Building, NoChild
  <2>6. Building(me)
    BY <1>4 DEF CompileFails, LinkDone, Move, At, Building, NoChild
  <2> QED BY <2>1, <2>4, <2>5, <2>6 DEF CatalogInv, SeenOK, Unchanged, Inputs, ReadOn
<1>5. CASE PollReady(me) \/ PollDiscard(me) \/ PollFailed(me) \/ Exit(me) \/ Crash(me)
  BY <1>5 DEF PollReady, PollDiscard, PollFailed, Exit, Crash, Over, Set, CatalogInv, TypeOK, Building
<1>6. CASE Start(me) \/ Rescan(me)
  <2>1. child' = child /\ ~Building(me)
    BY <1>6 DEF Start, Rescan, CatalogInv, TypeOK
  <2> QED BY <2>1 DEF Building
<1>7. CASE \/ PickReady(me) \/ PickCompiling(me) \/ PickNoSdk(me) \/ PickNoSource(me) \/ Unload(me)
           \/ Ended \/ UNCHANGED vars
  <2>1. UNCHANGED <<child, up, hash, stamp, so_path, source, headers>>
    BY <1>7 DEF PickReady, PickCompiling, PickNoSdk, PickNoSource, Unload, Ended, vars
  <2> QED BY <2>1 DEF CatalogInv, SeenOK, Unchanged, Inputs, Building
<1> QED BY <1>1, <1>2, <1>3, <1>4, <1>5, <1>6, <1>7 DEF Next, App, Child, Poll

\* The invariant holds throughout, under one program.
LEMMA InvHolds ==
  ASSUME CatalogAssumption, NEW me, Apps = {me}
  PROVE  Spec => []CatalogInv(me)
PROOF
<1>1. Init => CatalogInv(me)
  <2> SUFFICES ASSUME Init PROVE CatalogInv(me)
    OBVIOUS
  <2>1. Cached(stamp) \in File /\ stamp \in Hashes
    BY DEF Init, Cached, File
  <2>i. PICK installed \in Prebuilt :
          lib = [p \in Paths |->
                   CASE p = "cache" -> IF stamp = NoHash THEN NoFile ELSE Cached(stamp)
                     [] p = "shipped" -> IF installed THEN Shipped ELSE NoFile]
    BY DEF Init
  <2>2. lib \in [Paths -> File] /\ \A p \in Paths : lib[p].done
    BY <2>1, <2>i, Records DEF NoFile, Shipped, Cached, Paths
  <2>3. Exists(lib["cache"]) /\ stamp # NoHash => lib["cache"].ver = stamp
    BY <2>i DEF Cached, Paths
  <2>4. child[me] = NoChild /\ child \in [Apps -> ChildSet]
    BY NoChildTyped DEF Init
  <2>5. TypeOK
    <3>1. 0 \in 0 .. MaxEdits /\ 0 \in 0 .. MaxSessions
      BY CatalogAssumption DEF CatalogAssumption
    <3>2. tmp \in [Paths -> File]
      BY Records DEF Init
    <3>3. /\ source \in Versions \cup {None} /\ headers \in Versions \cup {None}
          /\ edits \in 0 .. MaxEdits
          /\ up \in [Apps -> BOOLEAN] /\ sessions \in [Apps -> 0 .. MaxSessions]
          /\ state \in [Apps -> {"none", "available", "ready", "compiling", "failed", "active"}]
          /\ src_path \in [Apps -> BOOLEAN] /\ so_path \in [Apps -> Paths]
          /\ hash \in [Apps -> Hashes] /\ want_load \in [Apps -> BOOLEAN] /\ spoiled \in BOOLEAN
      BY <3>1 DEF Init
    <3>4. ~up[me]
      BY DEF Init
    <3>5. QED
      BY <2>1, <2>2, <2>4, <3>2, <3>3, <3>4 DEF TypeOK, ChildSet, Steps, Reads
  <2>6. ReadsVersions(me) /\ FilesOK(me)
    BY <2>2, <2>4, CatalogAssumption DEF CatalogAssumption, Init, ReadsVersions, ReadOn,
       FilesOK, At,
       Building, NoChild, NoFile
  <2>7. HistoryOK(me)
    BY <2>3, <2>4 DEF HistoryOK, Pending, Vouched, Beside, Building
  <2>8. SeenOK(me)
    BY <2>4 DEF SeenOK, Building
  <2>9. QED
    BY <2>5, <2>6, <2>7, <2>8 DEF CatalogInv
<1>2. CatalogInv(me) /\ [Next]_vars => CatalogInv(me)'
  BY CatalogAssumption, TypesKept, FilesKept, SeenKept, HistoryKept DEF CatalogInv
<1>3. QED
  BY <1>1, <1>2, PTL DEF Spec

(***************************************************************************)
(* Libraries under their own names are whole and stamps name what they     *)
(* were built from, wherever the sessions of a program are stopped or      *)
(* killed (PB_SCRIPT, catalog_start_build, catalog_poll, catalog_cleanup). *)
(***************************************************************************)
THEOREM CatalogIsSound ==
  ASSUME NEW me, Apps = {me}
  PROVE  Spec => []CatalogSound
PROOF
<1>1. CatalogInv(me) => CatalogSound
  <2> SUFFICES ASSUME CatalogInv(me) PROVE CatalogSound
    OBVIOUS
  <2>1. NoHalfLibrary
    BY DEF CatalogInv, FilesOK, NoHalfLibrary
  <2>2. StampVouches
    BY DEF CatalogInv, HistoryOK, Vouched, StampVouches, At, ReadsVersions, Building, NoChild
  <2>3. QED
    BY <2>1, <2>2 DEF CatalogInv, CatalogSound
<1>2. Spec => []CatalogInv(me)
  BY InvHolds, CatalogAssumption
<1>3. QED
  BY <1>1, <1>2, PTL

(***************************************************************************)
(* What a poll takes from a build was compiled from the source and the     *)
(* headers there are at that moment, unless these changed twice or more    *)
(* under it; what a scan offers from the cache was, unless the cache was   *)
(* spoiled since the last build in it (catalog_scan, catalog_poll).        *)
(***************************************************************************)
THEOREM UnspoiledOffersAreCurrent ==
  ASSUME NEW me, Apps = {me}
  PROVE  Spec => CurrentUnlessSpoiled
PROOF
<1> DEFINE Exact(a) == lib'[so_path'[a]].ver = <<source, headers>>
           Offers == \A a \in Apps : (Taken(a) /\ SeenByHash(a)) \/ (FoundCached(a) /\ ~spoiled) => Exact(a)
<1>1. ASSUME CatalogInv(me), [Next]_vars PROVE Offers
  <2> SUFFICES ASSUME (Taken(me) /\ SeenByHash(me)) \/ (FoundCached(me) /\ ~spoiled)
               PROVE  lib'[so_path'[me]].ver = Inputs
    BY DEF Inputs
  <2>1. ASSUME NEW h \in InputsHashes, Current(h), ~Building(me), ~spoiled
        PROVE  lib["cache"].ver = Inputs
    <3>1. Exists(lib["cache"]) /\ stamp # NoHash /\ stamp = Inputs
      BY <2>1 DEF Current, StampMatches, InputsHashes, InputsHash, HeaderHash, Inputs
    <3>2. ~At(me, "ok")
      BY <2>1 DEF At, Building, NoChild
    <3>3. QED
      BY <1>1, <2>1, <3>1, <3>2 DEF CatalogInv, HistoryOK, Vouched
  <2>2. ASSUME NEW h \in InputsHashes, NEW s, ~Building(me), lib' = lib, state[me] # "compiling",
               state'[me] = Found(h, s).state, so_path'[me] = Found(h, s).so
        PROVE  lib'[so_path'[me]].ver = Inputs
    <3>1. Found(h, s).so = "cache" /\ Found(h, s).state = "ready"
      BY <2>2 DEF Taken, FoundCached, Found
    <3>2. Current(h) /\ ~spoiled
      BY <2>2, <3>1 DEF Found, Taken
    <3>3. QED
      BY <2>1, <2>2, <3>1, <3>2
  <2>3. CASE Start(me)
    <3>1. PICK h \in InputsHashes :
            LET e == Found(h, Exists(lib["shipped"]))
            IN  Set(state, me, e.state) /\ Set(src_path, me, e.src) /\ Set(so_path, me, e.so)
      BY <2>3 DEF Start, Scan
    <3>2. state'[me] = Found(h, Exists(lib["shipped"])).state
          /\ so_path'[me] = Found(h, Exists(lib["shipped"])).so
      BY <1>1, <3>1 DEF CatalogInv, TypeOK, Set
    <3>3. ~Building(me) /\ lib' = lib /\ state[me] # "compiling"
      BY <1>1, <2>3 DEF Start, CatalogInv, ReadsVersions
    <3>4. QED
      BY <2>2, <3>2, <3>3
  <2>4. CASE Rescan(me)
    <3>1. PICK h \in InputsHashes :
            LET e == Found(h, FALSE)
            IN  Set(state, me, e.state) /\ Set(src_path, me, e.src) /\ Set(so_path, me, e.so)
      BY <2>4 DEF Rescan, Scan
    <3>2. state'[me] = Found(h, FALSE).state /\ so_path'[me] = Found(h, FALSE).so
      BY <1>1, <3>1 DEF CatalogInv, TypeOK, Set
    <3>3. ~Building(me) /\ lib' = lib /\ state[me] # "compiling"
      BY <1>1, <2>4 DEF Rescan, CatalogInv, TypeOK
    <3>4. QED
      BY <2>2, <3>2, <3>3
  <2>5. CASE up[me] /\ PollReady(me)
    <3>1. /\ state[me] = "compiling" /\ At(me, "ok") /\ lib' = lib /\ so_path' = so_path
          /\ hash[me] # NoHash /\ hash[me] = Inputs
      BY <2>5 DEF PollReady, Succeeded, InputsHash, HeaderHash, Inputs
    <3>2. child[me].edits < 2 /\ Building(me) /\ child[me].at \in ReadOn
      BY <3>1 DEF Taken, FoundCached, SeenByHash, At, Building, NoChild, ReadOn
    <3>3. child[me].read = Inputs
      BY <1>1, <2>5, <3>1, <3>2 DEF CatalogInv, SeenOK, Unchanged
    <3>4. QED
      BY <1>1, <3>1, <3>3 DEF CatalogInv, FilesOK
  <2>6. CASE PickReady(me) \/ PickBuild(me) \/ PickNoSdk(me) \/ Unload(me) \/ Exit(me) \/ Crash(me)
             \/ PollDiscard(me) \/ PollFailed(me)
    BY <1>1, <2>6 DEF PickReady, Activate, PickBuild, Spawn, PickNoSdk, Unload, Exit, Crash, Over,
       PollDiscard, PollFailed, Taken, FoundCached, CatalogInv, TypeOK, Set
  <2>7. CASE Edit \/ Ended \/ PickCompiling(me) \/ PickNoSource(me) \/ Child(me) \/ UNCHANGED vars
    BY <2>7 DEF Edit, Ended, PickCompiling, PickNoSource, Child, ReadSource, ReadHeaders,
       CompileFails,
       Link, LinkDone, Move, Taken, FoundCached, vars
  <2>8. QED
    BY <1>1, <2>3, <2>4, <2>5, <2>6, <2>7 DEF Next, App, Poll
<1>2. Spec => [][Offers]_vars
  BY InvHolds, CatalogAssumption, <1>1, PTL DEF Spec
<1>3. QED
  BY <1>2 DEF CurrentUnlessSpoiled

=============================================================================
