------------------------------- MODULE NlAlloc -------------------------------
(***************************************************************************)
(* lib/nl_alloc.c: the allocator under the nolibc build. Small blocks come *)
(* from one static arena, first fit, split on allocation and merged with   *)
(* their free neighbours on release; large ones are mappings of their own. *)
(* nl_free takes any pointer.                                              *)
(*                                                                         *)
(* Sizes and addresses are in units of ALIGN bytes, and a header is one    *)
(* unit. hdr holds the headers whose magic is right, by offset: setting    *)
(* magic to 0 removes one. The walks of the code go from header to header  *)
(* and see all of hdr because it tiles the arena (Tiled).                  *)
(***************************************************************************)
EXTENDS Integers, FiniteSets, Functions

CONSTANTS
  ARENA,          \* units of the arena
  THRESHOLD,      \* MMAP_THRESHOLD: larger requests are mapped
  Mappings,       \* addresses of the payloads of mappings
  Requests        \* sizes asked for

ASSUME AllocAssumption ==
  /\ ARENA \in Nat /\ ARENA > 4
  /\ THRESHOLD \in 1 .. ARENA
  /\ IsFiniteSet(Mappings) /\ Mappings \subseteq Int \ (0 .. ARENA)
  /\ Requests \subseteq Nat

VARIABLES
  hdr,            \* offset |-> header, for the headers of the arena
  maps,           \* address |-> header, for the mappings of mmap_head
  live_blocks, live_bytes,
  verdict,        \* which counter of stats the last nl_free added to
  held            \* history: address |-> units asked for, of blocks not freed

vars == <<hdr, maps, live_blocks, live_bytes, verdict, held>>

Header == [size : 0 .. ARENA, free : BOOLEAN, flags : {"none", "gc", "atomic"}]
Pointers == 0 .. ARENA \cup Mappings

Init ==
  /\ hdr = [o \in {} |-> 0] /\ maps = [a \in {} |-> 0]
  /\ live_blocks = 0 /\ live_bytes = 0
  /\ verdict = "none"
  /\ held = [a \in {} |-> 0]

-----------------------------------------------------------------------------
With(f, a, v) == [x \in DOMAIN f \cup {a} |-> IF x = a THEN v ELSE f[x]]
Without(f, S) == [x \in DOMAIN f \ S |-> f[x]]

NextOf(h, o) == o + 1 + h[o].size

\* nl_arena_ensure
Booted(h) ==
  IF DOMAIN h = {} THEN With(h, 0, [size |-> ARENA - 1, free |-> TRUE, flags |-> "none"])
                   ELSE h

\* align_up of at least 1.
Units(n) == IF n = 0 THEN 1 ELSE n

\* Mutant: the header is counted as room.
FirstFit_HeaderCounts(h, n) ==
  LET fits == {o \in DOMAIN h : h[o].free /\ h[o].size + 1 >= n}
  IN  {o \in fits : \A x \in fits : o <= x}

\* The first free block of at least n units, as a set.
FirstFit(h, n) ==
  LET fits == {o \in DOMAIN h : h[o].free /\ h[o].size >= n}
  IN  {o \in fits : \A x \in fits : o <= x}

\* Block o is taken for n units; what is left becomes a block if it can be one.
Taken(h, o, n, f) ==
  LET leftover == h[o].size - n
      rest == [size |-> leftover - 1, free |-> TRUE, flags |-> "none"]
  IN  IF leftover > 2
      THEN With([h EXCEPT ![o] = [size |-> n, free |-> FALSE, flags |-> f]], o + 1 + n, rest)
      ELSE [h EXCEPT ![o].free = FALSE, ![o].flags = f]

-----------------------------------------------------------------------------
\* alloc_once of n units, at address p.
ArenaAlloc(n, f, p) ==
  /\ n <= THRESHOLD
  /\ p - 1 \in FirstFit(Booted(hdr), n)
  /\ hdr' = Taken(Booted(hdr), p - 1, n, f)
  /\ live_blocks' = live_blocks + 1
  /\ live_bytes' = live_bytes + hdr'[p - 1].size
  /\ UNCHANGED maps

MapAlloc(n, f, p) ==
  /\ n > THRESHOLD
  /\ p \in Mappings \ DOMAIN maps
  /\ maps' = With(maps, p, [size |-> n, free |-> FALSE, flags |-> f])
  /\ live_blocks' = live_blocks + 1
  /\ live_bytes' = live_bytes + n
  /\ UNCHANGED hdr

\* nl_malloc; out of memory changes nothing but the first call's boot.
Malloc(n) ==
  /\ \/ \E p \in Pointers :
          /\ ArenaAlloc(Units(n), "none", p) \/ MapAlloc(Units(n), "none", p)
          /\ held' = With(held, p, Units(n))
     \/ /\ Units(n) <= THRESHOLD /\ FirstFit(Booted(hdr), Units(n)) = {}
        /\ hdr' = Booted(hdr)
        /\ UNCHANGED <<maps, live_blocks, live_bytes, held>>
  /\ UNCHANGED verdict

-----------------------------------------------------------------------------
\* arena_block_of: a header before p, and one where its block ends.
ArenaBlockOf(h, p) ==
  /\ p - 1 \in DOMAIN h
  /\ h[p - 1].size <= ARENA - p
  /\ p + h[p - 1].size < ARENA => p + h[p - 1].size \in DOMAIN h

\* Mutant: the header of a block merged into the one before it is left.
MergedBack_HeaderLeft(h, o) ==
  LET prev == {x \in DOMAIN h : NextOf(h, x) = o /\ h[x].free}
  IN  IF prev = {} THEN h
      ELSE [h EXCEPT ![CHOOSE x \in prev : TRUE].size = @ + 1 + h[o].size]

\* Coalesce backward: into the block that ends at o.
MergedBack(h, o) ==
  LET prev == {x \in DOMAIN h : NextOf(h, x) = o /\ h[x].free}
  IN  IF prev = {} THEN h
      ELSE Without([h EXCEPT ![CHOOSE x \in prev : TRUE].size = @ + 1 + h[o].size], {o})

\* Coalesce forward, with the block that starts where o ends.
MergedForward(h, o) ==
  LET next == NextOf(h, o)
  IN  IF next \in DOMAIN h /\ h[next].free
      THEN Without([h EXCEPT ![o].size = @ + 1 + h[next].size], {next})
      ELSE h

\* arena_release
Released(h, o) ==
  MergedBack(MergedForward([h EXCEPT ![o].free = TRUE, ![o].flags = "none"], o), o)

ReleaseMap(p) ==
  /\ p \in DOMAIN maps
  /\ maps' = Without(maps, {p})
  /\ live_blocks' = live_blocks - 1
  /\ live_bytes' = live_bytes - maps[p].size
  /\ verdict' = "freed"
  /\ UNCHANGED hdr

\* Mutant: the size is taken off after the neighbours are merged.
ReleaseArena_LateAccount(p) ==
  /\ p \notin DOMAIN maps /\ ArenaBlockOf(hdr, p) /\ ~hdr[p - 1].free
  /\ hdr' = Released(hdr, p - 1)
  /\ live_blocks' = live_blocks - 1
  /\ live_bytes' = live_bytes - (IF p - 1 \in DOMAIN hdr' THEN hdr'[p - 1].size ELSE hdr[p - 1].size)
  /\ verdict' = "freed"
  /\ UNCHANGED maps

\* Mutant: a block that is free already is released again.
ReleaseArena_Twice(p) ==
  /\ p \notin DOMAIN maps /\ ArenaBlockOf(hdr, p)
  /\ hdr' = Released(hdr, p - 1)
  /\ live_blocks' = live_blocks - 1
  /\ live_bytes' = live_bytes - hdr[p - 1].size
  /\ verdict' = "freed"
  /\ UNCHANGED maps

ReleaseArena(p) ==
  /\ p \notin DOMAIN maps /\ ArenaBlockOf(hdr, p) /\ ~hdr[p - 1].free
  /\ hdr' = Released(hdr, p - 1)
  /\ live_blocks' = live_blocks - 1
  /\ live_bytes' = live_bytes - hdr[p - 1].size
  /\ verdict' = "freed"
  /\ UNCHANGED maps

Refuse(p) ==
  /\ p \notin DOMAIN maps
  /\ \/ ~ArenaBlockOf(hdr, p) /\ verdict' = "invalid"
     \/ ArenaBlockOf(hdr, p) /\ hdr[p - 1].free /\ verdict' = "double"
  /\ UNCHANGED <<hdr, maps, live_blocks, live_bytes>>

\* nl_free of a pointer that is not NULL.
Free(p) ==
  /\ ReleaseMap(p) \/ ReleaseArena(p) \/ Refuse(p)
  /\ held' = Without(held, {p})

Next ==
  \/ \E n \in Requests : Malloc(n)
  \/ \E p \in Pointers : Free(p)

Spec == Init /\ [][Next]_vars

-----------------------------------------------------------------------------
Live == {o + 1 : o \in {x \in DOMAIN hdr : ~hdr[x].free}} \cup DOMAIN maps
SizeAt(p) == IF p \in DOMAIN maps THEN maps[p].size ELSE hdr[p - 1].size

\* The variables have the values of their C types.
TypeOK ==
  /\ DOMAIN hdr \subseteq 0 .. ARENA - 1 /\ \A o \in DOMAIN hdr : hdr[o] \in Header
  /\ DOMAIN maps \subseteq Mappings /\ \A p \in DOMAIN maps : maps[p].free = FALSE
  /\ live_blocks \in Nat /\ live_bytes \in Nat
  /\ verdict \in {"none", "freed", "invalid", "double"}
  /\ DOMAIN held \subseteq Pointers

(***************************************************************************)
(* The headers tile the arena: the first is at 0, each block ends at the   *)
(* next header or at the end, and there is no other header, in a payload,  *)
(* that an interior pointer could be taken to have ("magic: HDR_MAGIC      *)
(* while header is real", nl_alloc_priv.h:22).                             *)
(***************************************************************************)
Tiled ==
  DOMAIN hdr # {} =>
    /\ 0 \in DOMAIN hdr
    /\ \A o \in DOMAIN hdr :
         /\ NextOf(hdr, o) = ARENA \/ NextOf(hdr, o) \in DOMAIN hdr
         /\ \A x \in o + 1 .. NextOf(hdr, o) - 1 : x \notin DOMAIN hdr

(***************************************************************************)
(* Free neighbours are always merged, in whatever order blocks are given   *)
(* back: a request fails only when no run of free units is long enough.    *)
(***************************************************************************)
Coalesced ==
  \A o \in DOMAIN hdr :
    hdr[o].free /\ NextOf(hdr, o) \in DOMAIN hdr => ~hdr[NextOf(hdr, o)].free

(***************************************************************************)
(* The live blocks are those the program was given and has not freed, each *)
(* at least as large as it asked for, whatever stale, interior or foreign  *)
(* pointers were freed in between ("ignored and counted instead of         *)
(* corrupting the heap", README.md:314).                                   *)
(***************************************************************************)
HeldIsLive ==
  /\ Live = DOMAIN held
  /\ \A p \in DOMAIN held : SizeAt(p) >= held[p]

\* live_blocks and live_bytes count the live blocks.
StatsExact ==
  /\ live_blocks = Cardinality(Live)
  /\ live_bytes = SumFunction([p \in Live |-> SizeAt(p)])
=============================================================================
