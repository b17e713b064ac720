-------------------------------- MODULE NlGc --------------------------------
(***************************************************************************)
(* lib/nl_gc.c over NlAlloc: the opt-in conservative mark-and-sweep        *)
(* collector. A block is kept as long as some word the collector can see,  *)
(* on the owner's stack and in its variables, in a registered region, in a *)
(* live nl_malloc block or in a block that is kept, is an address in it or *)
(* just past it.                                                           *)
(*                                                                         *)
(* The collector is opt-in: a program uses it, or it is one of NlAlloc,    *)
(* which never calls it.                                                   *)
(*                                                                         *)
(* A thread that calls into the collector does so in one step: the owner   *)
(* runs it, and no other thread of the program allocates meanwhile.        *)
(***************************************************************************)
EXTENDS NlAlloc

CONSTANTS
  Threads, NoOne,      \* threads that call the allocator; gc.owner = 0
  Regions, NoRegion,   \* memory that can be registered; an empty slot
  MAX_ROOTS,
  Threshold,           \* nl_gc_set_threshold; 0 is never
  GcRequests,          \* sizes a program with the collector asks for
  MaxSince, MaxDisabled, MaxWords, MaxBlocks
                       \* bounds on gc.since, nesting, words in sight, live blocks

ASSUME GcAssumption ==
  /\ NoOne \notin Threads /\ NoRegion \notin Regions
  /\ GcRequests \subseteq Nat
  /\ \A p \in Mappings, n \in Requests \cup GcRequests : p > ARENA \/ p + n < 0
  /\ MAX_ROOTS \in Nat /\ Threshold \in Nat
  /\ MaxSince \in Nat /\ MaxDisabled \in Nat /\ MaxWords \in Nat /\ MaxBlocks \in Nat

VARIABLES
  owner, hook, disabled, since,
  roots,               \* the root table: slot |-> region
  marks,               \* headers, by payload address, whose NL_BF_MARK is set
  stack,               \* words on the owner's stack, in registers and variables
  region,              \* the word each region holds
  word,                \* the word each live block holds
  pinned,              \* history: blocks of nl_malloc or foreign threads, not freed
  collects             \* the program uses the collector

gcVars == <<vars, owner, hook, disabled, since, roots, marks, stack, region, word, pinned,
            collects>>

Slots == 1 .. MAX_ROOTS

GcInit ==
  /\ Init
  /\ owner = NoOne /\ hook = FALSE /\ disabled = 0 /\ since = 0
  /\ roots = [i \in Slots |-> NoRegion]
  /\ marks = {}
  /\ stack = {}
  /\ region = [r \in Regions |-> 0]
  /\ word = [p \in {} |-> 0]
  /\ pinned = {}
  /\ collects \in BOOLEAN

-----------------------------------------------------------------------------
Heap == [hdr |-> hdr, maps |-> maps, marks |-> marks, since |-> since]
LiveIn(H) == {o + 1 : o \in {x \in DOMAIN H.hdr : ~H.hdr[x].free}} \cup DOMAIN H.maps
At(H, p) == IF p \in DOMAIN H.maps THEN H.maps[p] ELSE H.hdr[p - 1]
Collectable(H) == {p \in LiveIn(H) : At(H, p).flags # "none"}

(***************************************************************************)
(* The block of word w, if any: in the arena, the last one whose payload   *)
(* starts at or before w, when it is live and w is not past its end.       *)
(***************************************************************************)
Classify(H, w) ==
  IF w \in 0 .. ARENA - 1
  THEN LET below == {o \in DOMAIN H.hdr : o + 1 <= w}
       IN  {o + 1 : o \in {x \in below : /\ \A y \in below : y <= x
                                         /\ ~H.hdr[x].free
                                         /\ w <= x + 1 + H.hdr[x].size}}
  ELSE {p \in DOMAIN H.maps : w >= p /\ w <= p + H.maps[p].size}

\* scan: the blocks of the collector that words point at.
Scanned(H, words) == (UNION {Classify(H, w) : w \in words}) \cap Collectable(H)

\* The words of the roots: stack and data, root table, live nl_malloc blocks.
RootWords(H) ==
  stack \cup {region[roots[i]] : i \in {j \in Slots : roots[j] # NoRegion}}
        \cup {word[p] : p \in LiveIn(H) \ Collectable(H)}

\* Mutant: atomic blocks are scanned as well.
Marked_Atomic(H) ==
  LET new(S) == Scanned(H, {word[p] : p \in S})
      Drained[k \in 0 .. Cardinality(LiveIn(H))] ==
        IF k = 0 THEN Scanned(H, RootWords(H)) \ H.marks
        ELSE LET S == Drained[k - 1] IN S \cup (new(S) \ H.marks)
  IN  Drained[Cardinality(LiveIn(H))] \cup H.marks

\* Mark: scan the roots, and in turn every block found that is not atomic. A
\* block that carries a mark already is taken for scanned.
Marked(H) ==
  LET new(S) == Scanned(H, {word[p] : p \in {q \in S : At(H, q).flags # "atomic"}})
      Drained[k \in 0 .. Cardinality(LiveIn(H))] ==
        IF k = 0 THEN Scanned(H, RootWords(H)) \ H.marks
        ELSE LET S == Drained[k - 1] IN S \cup (new(S) \ H.marks)
  IN  Drained[Cardinality(LiveIn(H))] \cup H.marks

\* Mutant: dead blocks become free and stay side by side.
SweptArena_Apart(h, dead) ==
  [o \in DOMAIN h |->
     IF o + 1 \in dead THEN [h[o] EXCEPT !.free = TRUE, !.flags = "none"] ELSE h[o]]

(***************************************************************************)
(* One pass over the arena: dead blocks become free, and a run of free     *)
(* blocks becomes its first one.                                           *)
(***************************************************************************)
SweptArena(h, dead) ==
  LET free == {o \in DOMAIN h : h[o].free \/ o + 1 \in dead}
      starts == {o \in free : \A x \in free : NextOf(h, x) # o}
      end(o) == CHOOSE e \in {NextOf(h, x) : x \in free} :
                  o < e /\ e \notin free /\ \A y \in DOMAIN h : o <= y /\ y < e => y \in free
  IN  [o \in (DOMAIN h \ free) \cup starts |->
         IF o \in free THEN [size |-> end(o) - o - 1, free |-> TRUE, flags |-> "none"]
                       ELSE h[o]]

\* Mutant: the marks of the blocks that are kept stay.
Collected_MarksStay(H) ==
  LET marked == Marked(H)
      dead == Collectable(H) \ marked
  IN  [hdr |-> SweptArena(Booted(H.hdr), dead), maps |-> Without(H.maps, dead),
       marks |-> marked, since |-> 0]

\* collect_impl
Collected(H) ==
  LET dead == Collectable(H) \ Marked(H)
  IN  [hdr |-> SweptArena(Booted(H.hdr), dead), maps |-> Without(H.maps, dead),
       marks |-> {}, since |-> 0]

\* nl_gc_collect by thread t: owns takes the first that asks for the owner.
Owns(t) == owner \in {NoOne, t}
CollectedBy(t, H) == IF disabled = 0 /\ Owns(t) THEN Collected(H) ELSE H

-----------------------------------------------------------------------------
\* alloc_once: the heap it leaves and the address, 0 when it fails.
AllocOnce(H, n, f) ==
  LET h == Booted(H.hdr)
      fit == IF n <= THRESHOLD THEN FirstFit(h, n) ELSE {}
      unused == IF n <= THRESHOLD THEN {} ELSE Mappings \ DOMAIN H.maps
      block == [size |-> n, free |-> FALSE, flags |-> f]
  IN  IF fit = {} /\ unused = {}
      THEN {[heap |-> [H EXCEPT !.hdr = IF n <= THRESHOLD THEN h ELSE @], at |-> 0]}
      ELSE {[heap |-> [H EXCEPT !.hdr = Taken(h, o, n, f)], at |-> o + 1] : o \in fit}
           \cup {[heap |-> [H EXCEPT !.maps = With(@, p, block)], at |-> p] : p \in unused}

\* Mutant: no collection when memory is short.
AllocFlags_NoHook(t, H, n, f) == AllocOnce(H, n, f)

\* nl_alloc_flags: when it fails, collect, and try again if that freed anything.
AllocFlags(t, H, n, f) ==
  UNION {LET G == CollectedBy(t, r.heap)
         IN  IF r.at = 0 /\ LiveIn(G) # LiveIn(r.heap) THEN AllocOnce(G, n, f)
             ELSE IF r.at = 0 THEN {[r EXCEPT !.heap = G]} ELSE {r}
         : r \in AllocOnce(H, n, f)}

Become(H) ==
  /\ hdr' = H.hdr /\ maps' = H.maps /\ marks' = H.marks /\ since' = H.since
  /\ live_blocks' = Cardinality(LiveIn(H))
  /\ live_bytes' = SumFunction([p \in LiveIn(H) |-> At(H, p).size])

\* The heap becomes H, with block p given out for n units; its address is in
\* sight. 0 is no block.
Give(H, p, n) ==
  /\ Become(H)
  /\ held' = [x \in LiveIn(H) |-> IF x = p THEN n ELSE held[x]]
  /\ word' = [x \in LiveIn(H) |-> IF x = p THEN 0 ELSE word[x]]
  /\ stack' = stack \cup ({p} \ {0})

\* nl_malloc: what was in the block before is taken for no address. The hook of
\* the collector is in place once gc_alloc was called.
GcMalloc(t, n) ==
  /\ \E r \in IF hook THEN AllocFlags(t, Heap, Units(n), "none")
                      ELSE AllocOnce(Heap, Units(n), "none") :
       /\ Give(r.heap, r.at, Units(n))
       /\ pinned' = pinned \cup ({r.at} \ {0})
  /\ owner' = IF hook /\ owner = NoOne THEN t ELSE owner
  /\ UNCHANGED <<verdict, hook, disabled, roots, region>>

\* gc_alloc by the owner: a collection when one is due, then the block, zeroed.
OwnerAlloc(t, n, f) ==
  /\ Owns(t) /\ since < MaxSince
  /\ LET due == Threshold > 0 /\ since >= Threshold
     IN  \E r \in AllocFlags(t, IF due THEN CollectedBy(t, Heap) ELSE Heap, Units(n), f) :
           LET taken == IF r.at = 0 THEN 0 ELSE At(r.heap, r.at).size
           IN  Give([r.heap EXCEPT !.since = @ + taken], r.at, Units(n))
  /\ owner' = t /\ hook' = TRUE
  /\ UNCHANGED <<verdict, disabled, roots, region, pinned>>

\* Mutant: a block for another thread is collectable.
ForeignAlloc_Collectable(t, n) ==
  /\ ~Owns(t)
  /\ \E r \in AllocFlags(t, Heap, Units(n), "gc") :
       /\ Give(r.heap, r.at, Units(n))
       /\ stack' = stack
       /\ pinned' = pinned \cup ({r.at} \ {0})
  /\ hook' = TRUE
  /\ UNCHANGED <<verdict, owner, disabled, roots, region>>

\* gc_alloc by another thread, whose stack the collector cannot see.
ForeignAlloc(t, n) ==
  /\ ~Owns(t)
  /\ \E r \in AllocFlags(t, Heap, Units(n), "none") :
       /\ Become(r.heap)
       /\ held' = [x \in LiveIn(r.heap) |-> IF x = r.at THEN Units(n) ELSE held[x]]
       /\ word' = [x \in LiveIn(r.heap) |-> IF x = r.at THEN 0 ELSE word[x]]
       /\ pinned' = pinned \cup ({r.at} \ {0})
  /\ hook' = TRUE
  /\ UNCHANGED <<verdict, owner, disabled, roots, stack, region>>

Collect(t) ==
  /\ LET H == CollectedBy(t, Heap) IN Give(H, 0, 0)
  /\ owner' = IF disabled = 0 /\ owner = NoOne THEN t ELSE owner
  /\ UNCHANGED <<verdict, hook, disabled, roots, region, pinned>>

\* nl_free, of a pointer in sight or any other.
GcFree(p) ==
  /\ Free(p)
  /\ word' = [x \in DOMAIN word \ {p} |-> word[x]]
  /\ marks' = marks \ {p}
  /\ pinned' = pinned \ {p}
  /\ UNCHANGED <<hook, owner, disabled, since, roots, stack, region>>

\* Mutant: enabling is counted without disabling.
Enable_Unguarded ==
  /\ disabled > -1 /\ disabled' = disabled - 1
  /\ UNCHANGED <<vars, hook, owner, since, roots, marks, stack, region, word, pinned>>

\* nl_gc_enable, nl_gc_disable
Enable ==
  /\ disabled > 0 /\ disabled' = disabled - 1
  /\ UNCHANGED <<vars, hook, owner, since, roots, marks, stack, region, word, pinned>>

Disable ==
  /\ disabled < MaxDisabled /\ disabled' = disabled + 1
  /\ UNCHANGED <<vars, hook, owner, since, roots, marks, stack, region, word, pinned>>

\* nl_gc_root_add: the first free slot.
RootAdd(r) ==
  /\ \E i \in Slots : /\ roots[i] = NoRegion /\ \A j \in 1 .. i - 1 : roots[j] # NoRegion
                      /\ roots' = [roots EXCEPT ![i] = r]
  /\ UNCHANGED <<vars, hook, owner, disabled, since, marks, stack, region, word, pinned>>

\* nl_gc_root_remove: every slot that has it. What a region holds that is not
\* registered is left out.
RootRemove(r) ==
  /\ roots' = [i \in Slots |-> IF roots[i] = r THEN NoRegion ELSE roots[i]]
  /\ region' = [region EXCEPT ![r] = 0]
  /\ UNCHANGED <<vars, hook, owner, disabled, since, marks, stack, word, pinned>>

(***************************************************************************)
(* What the owner does with the words it has: it stores the address of a   *)
(* block in a block it holds or in a registered region, loads a word,      *)
(* computes the address just past a block, or forgets a word.              *)
(***************************************************************************)
Mutate ==
  /\ \/ \E p \in stack \cap DOMAIN word, w \in stack \cap DOMAIN word :
          word' = [word EXCEPT ![p] = w] /\ UNCHANGED <<stack, region>>
     \/ \E i \in {j \in Slots : roots[j] # NoRegion}, w \in stack \cap DOMAIN word :
          region' = [region EXCEPT ![roots[i]] = w] /\ UNCHANGED <<stack, word>>
     \/ \E p \in stack \cap DOMAIN word :
          stack' = stack \cup ({word[p]} \ {0}) /\ UNCHANGED <<region, word>>
     \/ \E p \in stack \cap DOMAIN word :
          stack' = (stack \ {p}) \cup {p + SizeAt(p)} /\ UNCHANGED <<region, word>>
     \/ \E w \in stack : stack' = stack \ {w} /\ UNCHANGED <<region, word>>
  /\ UNCHANGED <<vars, hook, owner, disabled, since, roots, marks, pinned>>

\* A program without the collector.
Plain ==
  /\ ~collects
  /\ Next
  /\ word' = [p \in DOMAIN held' |-> 0]
  /\ UNCHANGED <<owner, hook, disabled, since, roots, marks, stack, region, pinned>>

Collecting ==
  /\ collects
  /\ \/ \E t \in Threads, n \in GcRequests :
          GcMalloc(t, n) \/ OwnerAlloc(t, n, "gc") \/ OwnerAlloc(t, n, "atomic") \/ ForeignAlloc(t, n)
     \/ \E t \in Threads : Collect(t)
     \/ \E p \in Pointers : GcFree(p)
     \/ Enable \/ Disable
     \/ \E r \in Regions : RootAdd(r) \/ RootRemove(r)
     \/ Mutate
  /\ Cardinality(stack') <= MaxWords /\ Cardinality(DOMAIN held') <= MaxBlocks

GcNext == (Plain \/ Collecting) /\ UNCHANGED collects

GcSpec == GcInit /\ [][GcNext]_gcVars

-----------------------------------------------------------------------------
\* The collector's variables have the values of their C types.
GcTypeOK ==
  /\ owner \in Threads \cup {NoOne} /\ hook \in BOOLEAN
  /\ disabled \in 0 .. MaxDisabled /\ since \in Nat
  /\ roots \in [Slots -> Regions \cup {NoRegion}]
  /\ DOMAIN word = DOMAIN held

(***************************************************************************)
(* What a program can still reach, stated apart from the code: the blocks  *)
(* its words are addresses in, and the blocks the words of those are; every*)
(* set closed under that has them. "Interior pointers and address one past *)
(* end both count" (nl_gc.c:43).                                           *)
(***************************************************************************)
ReachableBy(Into(_, _)) ==
  LET words == stack \cup {region[roots[i]] : i \in {j \in Slots : roots[j] # NoRegion}}
      inSight == {p \in Live : p \in pinned \/ \E w \in words : Into(w, p)}
      Closed(S) == \A p \in S : At(Heap, p).flags # "atomic" =>
                     {q \in Live : Into(word[p], q)} \subseteq S
  IN  {p \in Live : \A S \in SUBSET Live : inSight \subseteq S /\ Closed(S) => p \in S}

PointsInto(w, p) == p <= w /\ w <= p + SizeAt(p)
Reachable == ReachableBy(PointsInto)

\* The same, but for the address just past the arena.
Inside(w, p) == w # ARENA /\ PointsInto(w, p)

(***************************************************************************)
(* Whenever a collection comes, it takes nothing the program can reach     *)
(* ("everything reachable from table must stay intact, whatever collector  *)
(* does in between", tests/test_nl_gc.c:524), through chains of blocks,    *)
(* regions and nl_malloc blocks, but for what hangs on the address just    *)
(* past the arena.                                                         *)
(***************************************************************************)
CollectionKeepsReachable == ReachableBy(Inside) \subseteq LiveIn(Collected(Heap))

(***************************************************************************)
(* "Freed once nothing reachable points at them" (README.md:311): of its   *)
(* own blocks a collection leaves only those that are reachable, cycles    *)
(* and chains of garbage included.                                         *)
(***************************************************************************)
CollectionTakesGarbage == Collectable(Collected(Heap)) \subseteq Reachable

(***************************************************************************)
(* "blocks from other threads are never collected", and those of nl_malloc *)
(* neither (README.md:313, 317): they live until they are freed.           *)
(***************************************************************************)
PinnedStay == pinned \subseteq Live

(***************************************************************************)
(* "A collection also runs when any allocation would fail" (README.md:315):*)
(* the owner is not refused an arena block while there is garbage that     *)
(* would make room for it, as long as the collector has memory for its own *)
(* index (lib/nl_gc.c:178; that it has none is not modelled).              *)
(***************************************************************************)
NoFailureWithGarbage ==
  \A t \in Threads, n \in Requests :
    /\ Owns(t) /\ disabled = 0 /\ Units(n) <= THRESHOLD
    /\ FirstFit(SweptArena(Booted(hdr), Collectable(Heap) \ Reachable), Units(n)) # {}
    => \A r \in AllocFlags(t, Heap, Units(n), "gc") : r.at # 0

(***************************************************************************)
(* The heap is one the allocator could have made, after any mix of calls and *)
(* collections: the types, the headers, the blocks and the counts of them. *)
(***************************************************************************)
HeapSound ==
  /\ TypeOK /\ GcTypeOK
  /\ Tiled /\ Coalesced
  /\ HeldIsLive
  /\ StatsExact

(***************************************************************************)
(* A collection, whenever it comes, takes the garbage and nothing else.    *)
(***************************************************************************)
CollectionExact ==
  collects => /\ CollectionKeepsReachable
              /\ CollectionTakesGarbage
              /\ PinnedStay
=============================================================================
