----------------------------- MODULE NlGcProofs -----------------------------
(***************************************************************************)
(* Proofs about the allocator and its collector: for an arena of any size, *)
(* any requests and mappings, any threads, roots, regions and words.       *)
(***************************************************************************)
EXTENDS NlGc, FiniteSetTheorems, TLAPS

(* Induction, and sums over finite sets *)

LEMMA Induction ==
  ASSUME NEW T, 0 \in T, \A n \in Nat : n \in T => n + 1 \in T
  PROVE  Nat \subseteq T
<1> SUFFICES ASSUME NEW n \in Nat, n \notin T PROVE FALSE
  OBVIOUS
<1> DEFINE S == {k \in 0 .. n : k \in T}
           f == [k \in S |-> k + 1]
<1>1. IsFiniteSet(S) /\ S \in SUBSET Nat
  <2>1. IsFiniteSet(0 .. n)
    BY FS_Interval
  <2>2. S \subseteq 0 .. n
    OBVIOUS
  <2> QED BY <2>1, <2>2, FS_Subset
<1>2. f \in Injection(S, S \ {0})
  <2>1. \A k \in S : k + 1 \in S \ {0}
    OBVIOUS
  <2>2. f \in [S -> S \ {0}]
    BY <2>1
  <2>3. \A k, m \in S : f[k] = f[m] => k = m
    BY <1>1
  <2> QED BY <2>2, <2>3 DEF Injection, IsInjective
<1>3. IsFiniteSet(S \ {0}) /\ Cardinality(S \ {0}) = Cardinality(S) - 1
  <2>1. 0 \in S
    OBVIOUS
  <2> QED BY <1>1, <2>1, FS_RemoveElement
<1>4. Cardinality(S) <= Cardinality(S \ {0})
  <2> HIDE DEF S, f
  <2> QED BY <1>1, <1>2, <1>3, FS_Injection, FS_CardinalityType, FS_PigeonHole
<1>5. Cardinality(S) \in Nat
  BY <1>1, FS_CardinalityType
<1> QED
  <2> HIDE DEF S
  <2> QED BY <1>3, <1>4, <1>5


\* The sums of f over the subsets of D, as SumFunction adds them up.
Pick(s) == CHOOSE x \in s : TRUE
Body(g, f, s) == IF s = {} THEN 0 ELSE f[Pick(s)] + g[s \ {Pick(s)}]
Sums(g, f, D) == g = [s \in SUBSET D |-> Body(g, f, s)]

LEMMA PickIn ==
  ASSUME NEW s, IsFiniteSet(s), s # {}
  PROVE  /\ Pick(s) \in s /\ IsFiniteSet(s \ {Pick(s)})
         /\ Cardinality(s \ {Pick(s)}) = Cardinality(s) - 1
<1>1. Pick(s) \in s
  BY DEF Pick
<1> QED BY <1>1, FS_RemoveElement

LEMMA SumIs ==
  ASSUME NEW f
  PROVE  SumFunction(f) = (CHOOSE g : Sums(g, f, DOMAIN f))[DOMAIN f]
  BY DEF SumFunction, SumFunctionOnSet, FoldFunctionOnSet, MapThenFoldSet, Sums, Body, Pick

\* There are such sums: one size after the other.
LEMMA SumsExist ==
  ASSUME NEW f, NEW D, IsFiniteSet(D)
  PROVE  \E g : Sums(g, f, D)
<1> DEFINE Upto(n) == {s \in SUBSET D : Cardinality(s) <= n}
           Fits(g, n) == g = [s \in Upto(n) |-> Body(g, f, s)]
           T == {n \in Nat : \E g : Fits(g, n)}
<1>1. \A s \in SUBSET D : IsFiniteSet(s) /\ Cardinality(s) \in Nat /\ Cardinality(s) <= Cardinality(D)
  BY FS_Subset, FS_CardinalityType
<1>2. 0 \in T
  <2> DEFINE g == [s \in Upto(0) |-> 0]
  <2>1. \A s \in Upto(0) : s = {}
    BY <1>1, FS_EmptySet
  <2>2. g = [s \in Upto(0) |-> Body(g, f, s)]
    BY <2>1 DEF Body
  <2>3. Fits(g, 0)
    BY <2>2
  <2> HIDE DEF g, Fits
  <2> QED BY <2>3
<1>3. ASSUME NEW n \in Nat, n \in T PROVE n + 1 \in T
  <2>1. PICK g : Fits(g, n)
    BY <1>3
  <2> DEFINE h == [s \in Upto(n + 1) |-> Body(g, f, s)]
  <2>2. ASSUME NEW s \in Upto(n + 1) PROVE h[s] = Body(h, f, s)
    <3>1. CASE s = {}
      BY <3>1 DEF Body
    <3>2. CASE s # {}
      <4> DEFINE t == s \ {Pick(s)}
      <4>1. t \in SUBSET D /\ Cardinality(t) <= n
        <5>1. Cardinality(s) <= n + 1 /\ IsFiniteSet(s) /\ Cardinality(s) \in Nat
          BY <1>1, <2>2
        <5> QED BY <2>2, <3>2, <5>1, PickIn
      <4>2. t \in Upto(n) /\ t \in Upto(n + 1)
        <5>1. Cardinality(t) \in Nat
          BY <1>1, <4>1
        <5> HIDE DEF t
        <5> QED BY <4>1, <5>1
      <4> HIDE DEF t
      <4>3. h[t] = Body(g, f, t) /\ g[t] = Body(g, f, t)
        BY <2>1, <4>2
      <4>4. h[s] = f[Pick(s)] + g[t]
        BY <3>2 DEF Body, t
      <4> QED BY <3>2, <4>3, <4>4 DEF Body, t
    <3> QED BY <3>1, <3>2
  <2>3. Fits(h, n + 1)
    <3>1. h = [s \in Upto(n + 1) |-> h[s]]
      OBVIOUS
    <3> HIDE DEF h
    <3> QED BY <2>2, <3>1
  <2> HIDE DEF h, Fits
  <2> QED BY <2>3
<1>4. Cardinality(D) \in T
  <2>1. Cardinality(D) \in Nat
    BY FS_CardinalityType
  <2> HIDE DEF T
  <2> QED BY <1>2, <1>3, <2>1, Induction
<1>5. PICK g : Fits(g, Cardinality(D))
  BY <1>4
<1>6. Upto(Cardinality(D)) = SUBSET D
  BY <1>1
<1> HIDE DEF Upto
<1>7. Sums(g, f, D)
  BY <1>5, <1>6 DEF Sums
<1> QED BY <1>7

\* Sums do not depend on what they are not taken of.
LEMMA SumsAgree ==
  ASSUME NEW f, NEW D, NEW g, IsFiniteSet(D), Sums(g, f, D),
         NEW e, NEW E, NEW h, Sums(h, e, E), D \subseteq E, \A x \in D : e[x] = f[x]
  PROVE  \A s \in SUBSET D : g[s] = h[s]
<1> DEFINE T == {n \in Nat : \A s \in SUBSET D : Cardinality(s) = n => g[s] = h[s]}
<1>1. \A s \in SUBSET D : IsFiniteSet(s) /\ Cardinality(s) \in Nat
  BY FS_Subset, FS_CardinalityType
<1>2. \A s \in SUBSET D : g[s] = Body(g, f, s) /\ h[s] = Body(h, e, s)
  BY DEF Sums
<1>3. 0 \in T
  <2>1. \A s \in SUBSET D : Cardinality(s) = 0 => s = {}
    BY <1>1, FS_EmptySet
  <2> QED BY <1>2, <2>1 DEF Body
<1>4. ASSUME NEW n \in Nat, n \in T PROVE n + 1 \in T
  <2>1. ASSUME NEW s \in SUBSET D, Cardinality(s) = n + 1 PROVE g[s] = h[s]
    <3>1. s # {} /\ IsFiniteSet(s)
      BY <1>1, <2>1, FS_EmptySet
    <3> DEFINE t == s \ {Pick(s)}
    <3>2. t \in SUBSET D /\ Pick(s) \in D /\ Cardinality(t) = n
      BY <2>1, <3>1, PickIn
    <3>3. g[t] = h[t]
      BY <1>4, <3>2
    <3> QED BY <1>2, <3>1, <3>2, <3>3 DEF Body
  <2> QED BY <2>1
<1>5. \A s \in SUBSET D : Cardinality(s) \in T
  <2> HIDE DEF T
  <2> QED BY <1>1, <1>3, <1>4, Induction
<1> QED BY <1>5

\* The order makes no difference.
LEMMA SumsSplit ==
  ASSUME NEW D, IsFiniteSet(D), NEW f, \A x \in D : f[x] \in Nat, NEW g, Sums(g, f, D)
  PROVE  \A s \in SUBSET D : g[s] \in Nat /\ \A x \in s : g[s] = f[x] + g[s \ {x}]
<1> DEFINE Split(s) == g[s] \in Nat /\ \A x \in s : g[s] = f[x] + g[s \ {x}]
           T == {n \in Nat : \A s \in SUBSET D : Cardinality(s) <= n => Split(s)}
<1>1. \A s \in SUBSET D : IsFiniteSet(s) /\ Cardinality(s) \in Nat
  BY FS_Subset, FS_CardinalityType
<1>2. \A s \in SUBSET D : g[s] = Body(g, f, s)
  BY DEF Sums
<1>3. 0 \in T
  <2>1. \A s \in SUBSET D : Cardinality(s) <= 0 => s = {}
    BY <1>1, FS_EmptySet
  <2> QED BY <1>2, <2>1 DEF Body
<1>4. ASSUME NEW n \in Nat, n \in T PROVE n + 1 \in T
  <2>1. ASSUME NEW s \in SUBSET D, Cardinality(s) <= n + 1, s # {} PROVE Split(s)
    <3> DEFINE c == Pick(s)
    <3>1. IsFiniteSet(s) /\ c \in s /\ Cardinality(s \ {c}) <= n
      BY <1>1, <2>1, PickIn
    <3>2. Split(s \ {c}) /\ g[s] = f[c] + g[s \ {c}] /\ f[c] \in Nat
      BY <1>2, <1>4, <2>1, <3>1 DEF Body
    <3> HIDE DEF c
    <3>3. ASSUME NEW x \in s, x # c PROVE g[s] = f[x] + g[s \ {x}]
      <4>1. x \in s \ {c} /\ c \in s \ {x} /\ (s \ {c}) \ {x} = (s \ {x}) \ {c} /\ f[x] \in Nat
        BY <3>1, <3>3
      <4>2. Cardinality(s \ {x}) <= n
        BY <1>1, <2>1, <3>1, FS_RemoveElement
      <4>3. Split(s \ {x}) /\ Split((s \ {x}) \ {c})
        <5>1. s \ {x} \in SUBSET D /\ (s \ {x}) \ {c} \in SUBSET D
          OBVIOUS
        <5>2. Cardinality((s \ {x}) \ {c}) <= n
          BY <1>1, <4>1, <4>2, <5>1, FS_RemoveElement
        <5> QED BY <1>4, <4>2, <5>1, <5>2
      <4>4. g[s \ {c}] = f[x] + g[(s \ {c}) \ {x}]
        BY <3>2, <4>1
      <4>5. g[s \ {x}] = f[c] + g[(s \ {x}) \ {c}] /\ g[(s \ {x}) \ {c}] \in Nat
        BY <4>1, <4>3
      <4> DEFINE both == g[(s \ {x}) \ {c}]
      <4>6. g[s] = f[c] + (f[x] + both) /\ g[s \ {x}] = f[c] + both /\ both \in Nat
        BY <3>2, <4>1, <4>4, <4>5
      <4> HIDE DEF both
      <4> QED BY <3>2, <4>1, <4>6
    <3>4. g[s] \in Nat
      BY <3>2
    <3> QED BY <3>2, <3>3, <3>4
  <2>2. Split({})
    <3>1. g[{}] = 0
      BY <1>2 DEF Body
    <3> QED BY <3>1
  <2> HIDE DEF Split
  <2> QED BY <2>1, <2>2
<1>5. \A s \in SUBSET D : Cardinality(s) \in T
  <2> HIDE DEF T
  <2> QED BY <1>1, <1>3, <1>4, Induction
<1> HIDE DEF Split
<1>6. \A s \in SUBSET D : Split(s)
  BY <1>1, <1>5
<1> QED BY <1>6 DEF Split

\* The sum of a function on a finite set, and of one with one argument more.
LEMMA SumNat ==
  ASSUME NEW f, IsFiniteSet(DOMAIN f), \A x \in DOMAIN f : f[x] \in Nat
  PROVE  SumFunction(f) \in Nat /\ (DOMAIN f = {} => SumFunction(f) = 0)
<1> DEFINE g == CHOOSE h : Sums(h, f, DOMAIN f)
<1>1. Sums(g, f, DOMAIN f)
  BY SumsExist
<1> HIDE DEF g
<1>2. g[DOMAIN f] \in Nat
  BY <1>1, SumsSplit
<1>3. DOMAIN f = {} => g[DOMAIN f] = 0
  BY <1>1 DEF Sums, Body
<1> QED BY <1>2, <1>3, SumIs DEF g

LEMMA SumAdd ==
  ASSUME NEW f, IsFiniteSet(DOMAIN f), \A x \in DOMAIN f : f[x] \in Nat,
         NEW a \in DOMAIN f, NEW e, DOMAIN e = DOMAIN f \ {a},
         \A x \in DOMAIN e : e[x] = f[x]
  PROVE  SumFunction(f) = f[a] + SumFunction(e)
<1> DEFINE g == CHOOSE i : Sums(i, f, DOMAIN f)
           h == CHOOSE i : Sums(i, e, DOMAIN e)
<1>1. IsFiniteSet(DOMAIN e)
  BY FS_RemoveElement
<1>2. Sums(g, f, DOMAIN f) /\ Sums(h, e, DOMAIN e)
  BY <1>1, SumsExist
<1>3. SumFunction(f) = g[DOMAIN f] /\ SumFunction(e) = h[DOMAIN e]
  BY SumIs
<1> HIDE DEF g, h
<1>4. g[DOMAIN f] = f[a] + g[DOMAIN e]
  BY <1>2, SumsSplit
<1>5. h[DOMAIN e] = g[DOMAIN e]
  <2>1. DOMAIN e \subseteq DOMAIN f /\ \A x \in DOMAIN e : f[x] = e[x]
    OBVIOUS
  <2> QED BY <1>1, <1>2, <2>1, SumsAgree
<1> QED BY <1>3, <1>4, <1>5

\* Every set of numbers has a least one; every set of numbers up to m a greatest.
LEMMA HasLeast ==
  ASSUME NEW S, S \subseteq Nat, S # {}
  PROVE  \E l \in S : \A x \in S : l <= x
<1> SUFFICES ASSUME \A l \in S : \E x \in S : x < l PROVE FALSE
  OBVIOUS
<1> DEFINE T == {n \in Nat : \A x \in S : n < x}
<1>1. 0 \in T
  <2>1. ASSUME 0 \in S PROVE FALSE
    <3>1. \E x \in S : x < 0
      BY <2>1
    <3> QED BY <3>1
  <2> QED BY <2>1
<1>2. ASSUME NEW n \in Nat, n \in T PROVE n + 1 \in T
  <2>1. \A x \in S : n + 1 <= x
    BY <1>2
  <2>2. n + 1 \notin S
    BY <2>1
  <2> QED BY <2>1, <2>2
<1>3. Nat \subseteq T
  <2> HIDE DEF T
  <2> QED BY <1>1, <1>2, Induction
<1>4. PICK x \in S : TRUE
  OBVIOUS
<1> QED BY <1>3, <1>4

LEMMA HasGreatest ==
  ASSUME NEW m \in Nat, NEW S, S \subseteq 0 .. m, S # {}
  PROVE  \E g \in S : \A x \in S : x <= g
<1> DEFINE R == {m - x : x \in S}
<1>1. R \subseteq Nat /\ R # {}
  <2>1. \A x \in S : m - x \in Nat /\ m - x \in R
    OBVIOUS
  <2>2. \E x \in S : TRUE
    OBVIOUS
  <2> QED BY <2>1, <2>2
<1>2. PICK l \in R : \A x \in R : l <= x
  <2> HIDE DEF R
  <2> QED BY <1>1, HasLeast
<1>3. PICK g \in S : l = m - g
  BY <1>2
<1>4. \A x \in S : m - x \in R
  OBVIOUS
<1>5. \A x \in S : m - g <= m - x
  BY <1>2, <1>3, <1>4
<1> QED BY <1>5

-----------------------------------------------------------------------------
(* The arena *)

\* Headers that tile the arena, and those of which no two neighbours are free.
Tile(h) ==
  /\ DOMAIN h \subseteq 0 .. ARENA - 1 /\ 0 \in DOMAIN h
  /\ \A o \in DOMAIN h : h[o] \in Header
  /\ \A o \in DOMAIN h : NextOf(h, o) = ARENA \/ NextOf(h, o) \in DOMAIN h
  /\ \A o, x \in DOMAIN h : o < x => NextOf(h, o) <= x

Merged(h) ==
  \A o \in DOMAIN h :
    h[o].free /\ NextOf(h, o) \in DOMAIN h => ~h[NextOf(h, o)].free

\* The same, but for the one at b.
MergedBut(h, b) ==
  \A o \in DOMAIN h :
    /\ h[o].free /\ NextOf(h, o) \in DOMAIN h /\ h[NextOf(h, o)].free
    => o = b \/ NextOf(h, o) = b

LEMMA HeaderIs ==
  ASSUME NEW h, Tile(h), NEW o \in DOMAIN h
  PROVE  /\ o \in Nat /\ o < ARENA /\ ARENA \in Nat
         /\ h[o].size \in Nat /\ h[o].size <= ARENA
         /\ h[o].free \in BOOLEAN /\ h[o].flags \in {"none", "gc", "atomic"}
         /\ h[o] = [size |-> h[o].size, free |-> h[o].free, flags |-> h[o].flags]
  BY AllocAssumption DEF Tile, Header

LEMMA EditHeader ==
  ASSUME NEW b \in Header, NEW v
  PROVE  /\ [b EXCEPT !.size = v] = [size |-> v, free |-> b.free, flags |-> b.flags]
         /\ [b EXCEPT !.free = v] = [size |-> b.size, free |-> v, flags |-> b.flags]
         /\ [b EXCEPT !.flags = v] = [size |-> b.size, free |-> b.free, flags |-> v]
  BY DEF Header

\* What a header becomes when it is taken, or given back.
Tag(h, o, v, f) == [h EXCEPT ![o].free = v, ![o].flags = f]

TaggedAs(g, h, o, v, f) ==
  /\ DOMAIN g = DOMAIN h /\ \A x \in DOMAIN h \ {o} : g[x] = h[x]
  /\ g[o] = [size |-> h[o].size, free |-> v, flags |-> f] /\ g[o] \in Header

LEMMA Tagged ==
  ASSUME NEW h, NEW o \in DOMAIN h, h[o] \in Header, NEW v \in BOOLEAN,
         NEW f \in {"none", "gc", "atomic"}, NEW g, g = Tag(h, o, v, f)
  PROVE  TaggedAs(g, h, o, v, f)
<1> DEFINE b == h[o]
           k == [h EXCEPT ![o].free = v]
           c == [b EXCEPT !.free = v]
<1>1. c = [size |-> b.size, free |-> v, flags |-> b.flags] /\ c \in Header
  <2>1. b \in Header
    OBVIOUS
  <2> HIDE DEF b
  <2>2. c = [size |-> b.size, free |-> v, flags |-> b.flags]
    BY <2>1, EditHeader
  <2> QED BY <2>1, <2>2 DEF Header
<1>2. DOMAIN k = DOMAIN h /\ k[o] = c /\ \A x \in DOMAIN h \ {o} : k[x] = h[x]
  <2> HIDE DEF c
  <2> QED BY DEF c
<1>3. g = [k EXCEPT ![o].flags = f]
  BY DEF Tag
<1> HIDE DEF b, k, c
<1>4. [c EXCEPT !.flags = f] = [size |-> b.size, free |-> v, flags |-> f]
  <2>1. [c EXCEPT !.flags = f] = [size |-> c.size, free |-> c.free, flags |-> f]
    BY <1>1, EditHeader
  <2> QED BY <1>1, <2>1
<1>5. /\ DOMAIN g = DOMAIN h /\ g[o] = [c EXCEPT !.flags = f]
      /\ \A x \in DOMAIN h \ {o} : g[x] = h[x]
  BY <1>2, <1>3
<1>6. b.size \in 0 .. ARENA
  <2>1. b \in Header
    BY DEF b
  <2> QED BY <2>1 DEF Header
<1> QED BY <1>4, <1>5, <1>6 DEF b, Header, TaggedAs

LEMMA NextIs ==
  ASSUME NEW h, Tile(h), NEW o \in DOMAIN h
  PROVE  /\ NextOf(h, o) \in Nat /\ o < NextOf(h, o) /\ NextOf(h, o) <= ARENA
         /\ NextOf(h, o) = o + 1 + h[o].size
         /\ NextOf(h, o) = ARENA \/ NextOf(h, o) \in DOMAIN h
         /\ \A x \in DOMAIN h : o < x => NextOf(h, o) <= x
         /\ \A x \in DOMAIN h : NextOf(h, x) = NextOf(h, o) => x = o
<1>1. \A x \in DOMAIN h : x \in Nat /\ x < ARENA /\ ARENA \in Nat /\ h[x].size \in Nat
  BY HeaderIs
<1>2. \A x \in DOMAIN h : NextOf(h, x) \in Nat /\ x < NextOf(h, x)
  BY <1>1 DEF NextOf
<1>3. NextOf(h, o) = ARENA \/ NextOf(h, o) \in DOMAIN h
  BY DEF Tile
<1>4. \A x, y \in DOMAIN h : x < y => NextOf(h, x) <= y
  BY DEF Tile
<1>5. NextOf(h, o) <= ARENA
  BY <1>1, <1>3
<1>6. \A x \in DOMAIN h : NextOf(h, x) = NextOf(h, o) => x = o
  <2>1. ASSUME NEW x \in DOMAIN h, NextOf(h, x) = NextOf(h, o), x # o PROVE FALSE
    <3>1. CASE x < o
      <4>1. NextOf(h, x) <= o /\ o < NextOf(h, o)
        BY <1>2, <1>4, <2>1, <3>1
      <4> QED BY <1>1, <1>2, <2>1, <4>1
    <3>2. CASE o < x
      <4>1. NextOf(h, o) <= x /\ x < NextOf(h, x)
        BY <1>2, <1>4, <2>1, <3>2
      <4> QED BY <1>1, <1>2, <2>1, <4>1
    <3> QED BY <1>1, <2>1, <3>1, <3>2
  <2> QED BY <2>1
<1> QED BY <1>2, <1>3, <1>4, <1>5, <1>6 DEF NextOf

\* The block before a header, or before the end of the arena.
LEMMA Before ==
  ASSUME NEW h, Tile(h), NEW e, e \in DOMAIN h \/ e = ARENA, e # 0
  PROVE  \E o \in DOMAIN h : o < e /\ NextOf(h, o) = e
<1> DEFINE S == {x \in DOMAIN h : x < e}
<1>1. e \in Nat /\ e <= ARENA /\ ARENA \in Nat /\ 0 < e
  BY AllocAssumption, HeaderIs
<1>2. S \subseteq 0 .. ARENA /\ 0 \in S
  BY <1>1, HeaderIs DEF Tile
<1>3. PICK g \in S : \A x \in S : x <= g
  <2> HIDE DEF S
  <2> QED BY <1>1, <1>2, HasGreatest
<1>4. g \in DOMAIN h /\ g < e
  BY <1>3
<1>5. NextOf(h, g) <= e
  BY <1>1, <1>4, NextIs
<1>6. ASSUME NextOf(h, g) # e PROVE FALSE
  <2>1. NextOf(h, g) \in DOMAIN h /\ NextOf(h, g) < e /\ g < NextOf(h, g)
    BY <1>1, <1>4, <1>5, <1>6, NextIs
  <2>2. NextOf(h, g) <= g
    BY <1>3, <2>1
  <2> QED BY <1>4, <2>1, <2>2, NextIs, HeaderIs
<1> QED BY <1>4, <1>6

\* Other flags.
LEMMA RetagTile ==
  ASSUME NEW h, Tile(h), NEW g, DOMAIN g = DOMAIN h,
         \A o \in DOMAIN h : g[o] \in Header /\ g[o].size = h[o].size
  PROVE  Tile(g) /\ \A o \in DOMAIN h : NextOf(g, o) = NextOf(h, o)
<1>1. \A o \in DOMAIN h : NextOf(g, o) = NextOf(h, o)
  BY DEF NextOf
<1> QED BY <1>1 DEF Tile

\* A block gives up its end, which becomes a block.
LEMMA SplitTile ==
  ASSUME NEW h, Tile(h), NEW o \in DOMAIN h, NEW n \in Nat, n < h[o].size,
         NEW r, r = o + 1 + n, NEW g, DOMAIN g = DOMAIN h \cup {r},
         \A x \in DOMAIN g : g[x] \in Header,
         g[o].size = n, g[r].size = h[o].size - n - 1,
         \A x \in DOMAIN h \ {o} : g[x] = h[x]
  PROVE  /\ Tile(g) /\ r \notin DOMAIN h
         /\ NextOf(g, o) = r /\ NextOf(g, r) = NextOf(h, o)
         /\ \A x \in DOMAIN h \ {o} : NextOf(g, x) = NextOf(h, x)
<1>1. \A x \in DOMAIN h : x \in Nat /\ x < ARENA /\ ARENA \in Nat /\ h[x].size \in Nat
  BY HeaderIs
<1>2. \A x \in DOMAIN h : /\ NextOf(h, x) \in Nat /\ x < NextOf(h, x) /\ NextOf(h, x) <= ARENA
                          /\ NextOf(h, x) = ARENA \/ NextOf(h, x) \in DOMAIN h
                          /\ \A y \in DOMAIN h : x < y => NextOf(h, x) <= y
  BY NextIs
<1>3. NextOf(h, o) = o + 1 + h[o].size
  BY DEF NextOf
<1>4. r \in Nat /\ o < r /\ r < NextOf(h, o) /\ r < ARENA /\ r \notin DOMAIN h
  BY <1>1, <1>2, <1>3
<1>5. NextOf(g, o) = r /\ NextOf(g, r) = NextOf(h, o)
  BY <1>1, <1>3, <1>4 DEF NextOf
<1>6. \A x \in DOMAIN h \ {o} : NextOf(g, x) = NextOf(h, x)
  BY DEF NextOf
<1>7. DOMAIN g \subseteq 0 .. ARENA - 1 /\ 0 \in DOMAIN g
  <2>1. \A x \in DOMAIN g : x \in Nat /\ x < ARENA
    BY <1>1, <1>4
  <2> QED BY <1>1, <2>1 DEF Tile
<1>8. \A x \in DOMAIN g : NextOf(g, x) = ARENA \/ NextOf(g, x) \in DOMAIN g
  BY <1>2, <1>4, <1>5, <1>6
<1>9. ASSUME NEW x \in DOMAIN g, NEW y \in DOMAIN g, x < y PROVE NextOf(g, x) <= y
  <2>1. CASE x = o
    BY <1>1, <1>2, <1>4, <1>5, <1>9, <2>1
  <2>2. CASE x = r
    BY <1>1, <1>2, <1>4, <1>5, <1>9, <2>2
  <2>3. CASE x \in DOMAIN h \ {o} /\ y \in DOMAIN h
    BY <1>2, <1>6, <1>9, <2>3
  <2>4. CASE x \in DOMAIN h \ {o} /\ y = r
    <3>1. x < o
      BY <1>1, <1>2, <1>4, <1>9, <2>4
    <3> QED BY <1>1, <1>2, <1>4, <1>6, <2>4, <3>1
  <2> QED BY <2>1, <2>2, <2>3, <2>4
<1> QED BY <1>4, <1>5, <1>6, <1>7, <1>8, <1>9 DEF Tile

\* g is h when block x has taken in block y.
Joined(g, h, x, y) ==
  /\ DOMAIN g = DOMAIN h \ {y}
  /\ \A o \in DOMAIN h \ {x, y} : g[o] = h[o]
  /\ g[x] = [size |-> h[x].size + 1 + h[y].size, free |-> h[x].free, flags |-> h[x].flags]

\* A block takes in the one behind it.
LEMMA JoinTile ==
  ASSUME NEW h, Tile(h), NEW x \in DOMAIN h, NEW y \in DOMAIN h, NextOf(h, x) = y,
         NEW g, Joined(g, h, x, y)
  PROVE  /\ Tile(g) /\ x \in DOMAIN g
         /\ NextOf(g, x) = NextOf(h, y)
         /\ \A o \in DOMAIN h \ {x, y} : NextOf(g, o) = NextOf(h, o)
<1> USE DEF Joined
<1>1. \A o \in DOMAIN h : o \in Nat /\ o < ARENA /\ ARENA \in Nat /\ h[o].size \in Nat
  BY HeaderIs
<1>2. \A o \in DOMAIN h : /\ NextOf(h, o) \in Nat /\ o < NextOf(h, o) /\ NextOf(h, o) <= ARENA
                          /\ NextOf(h, o) = ARENA \/ NextOf(h, o) \in DOMAIN h
                          /\ NextOf(h, o) = o + 1 + h[o].size
                          /\ \A z \in DOMAIN h : o < z => NextOf(h, o) <= z
                          /\ \A z \in DOMAIN h : NextOf(h, z) = NextOf(h, o) => z = o
  BY NextIs
<1>3. x < y /\ x \in DOMAIN g
  BY <1>2
<1>4. NextOf(g, x) = NextOf(h, y)
  <2>1. NextOf(g, x) = x + 1 + (h[x].size + 1 + h[y].size)
    BY DEF NextOf
  <2> QED BY <1>1, <1>2, <2>1
<1>5. \A o \in DOMAIN h \ {x, y} : NextOf(g, o) = NextOf(h, o)
  BY DEF NextOf
<1>6. \A o \in DOMAIN g : g[o] \in Header
  <2>1. h[x].size + 1 + h[y].size \in 0 .. ARENA
    BY <1>1, <1>2
  <2>2. h[x].free \in BOOLEAN /\ h[x].flags \in {"none", "gc", "atomic"}
    BY HeaderIs
  <2>3. g[x] \in Header
    BY <2>1, <2>2 DEF Header
  <2>4. \A o \in DOMAIN h : h[o] \in Header
    BY DEF Tile
  <2> QED BY <2>3, <2>4
<1>7. DOMAIN g \subseteq 0 .. ARENA - 1 /\ 0 \in DOMAIN g
  <2>1. y # 0
    BY <1>1, <1>3
  <2> QED BY <2>1 DEF Tile
<1>8. \A o \in DOMAIN g : NextOf(g, o) = ARENA \/ NextOf(g, o) \in DOMAIN g
  <2>1. NextOf(h, y) # y
    BY <1>1, <1>2
  <2>2. \A o \in DOMAIN h \ {x, y} : NextOf(h, o) # y
    BY <1>2
  <2> QED BY <1>2, <1>4, <1>5, <2>1, <2>2
<1>9. ASSUME NEW o \in DOMAIN g, NEW z \in DOMAIN g, o < z PROVE NextOf(g, o) <= z
  <2>1. CASE o = x
    <3>1. y <= z /\ y # z
      BY <1>2, <1>9, <2>1
    <3>2. y < z
      BY <1>1, <3>1
    <3> QED BY <1>2, <1>4, <2>1, <3>2
  <2>2. CASE o # x
    BY <1>2, <1>5, <1>9, <2>2
  <2> QED BY <2>1, <2>2
<1> QED BY <1>3, <1>4, <1>5, <1>6, <1>7, <1>8, <1>9 DEF Tile

\* Headers of live blocks.
InUse(h) == {o \in DOMAIN h : ~h[o].free}

\* Headers the allocator could have made.
Sound(h) == Tile(h) /\ Merged(h)
ArenaOK(h) == DOMAIN h = {} \/ Sound(h)

LEMMA BootedOK ==
  ASSUME NEW h, ArenaOK(h)
  PROVE  /\ Sound(Booted(h)) /\ InUse(Booted(h)) = InUse(h)
         /\ \A o \in InUse(h) : Booted(h)[o] = h[o]
         /\ \A o \in DOMAIN h : Booted(h)[o] = h[o]
<1>1. CASE DOMAIN h # {}
  BY <1>1 DEF Booted, ArenaOK
<1>2. CASE DOMAIN h = {}
  <2> DEFINE whole == [size |-> ARENA - 1, free |-> TRUE, flags |-> "none"]
             b == Booted(h)
  <2>1. b = With(h, 0, whole)
    BY <1>2 DEF Booted
  <2>2. DOMAIN b = {0} /\ b[0] = whole
    BY <1>2, <2>1 DEF With
  <2>3. whole \in Header /\ ARENA \in Nat /\ ARENA > 4
    BY AllocAssumption DEF Header
  <2> HIDE DEF b
  <2>4. NextOf(b, 0) = ARENA
    BY <2>2, <2>3 DEF NextOf
  <2>5. Tile(b)
    <3>1. 0 \in 0 .. ARENA - 1
      BY <2>3
    <3>2. b[0] \in Header
      BY <2>2, <2>3
    <3>3. \A o, x \in DOMAIN b : o = 0 /\ x = 0 /\ ~(o < x)
      BY <2>2
    <3> QED BY <2>2, <2>4, <3>1, <3>2, <3>3 DEF Tile
  <2>6. Merged(b)
    BY <2>2, <2>3, <2>4 DEF Merged
  <2>7. InUse(b) = {} /\ InUse(h) = {}
    BY <1>2, <2>2 DEF InUse
  <2> QED BY <1>2, <2>5, <2>6, <2>7 DEF b, Sound
<1> QED BY <1>1, <1>2

LEMMA FirstFitIs ==
  ASSUME NEW h, Tile(h), NEW n \in Nat
  PROVE  /\ \A o \in FirstFit(h, n) : o \in DOMAIN h /\ h[o].free /\ h[o].size >= n
         /\ FirstFit(h, n) = {} <=> \A o \in DOMAIN h : h[o].free => h[o].size < n
<1> DEFINE fits == {o \in DOMAIN h : h[o].free /\ h[o].size >= n}
<1>1. \A o \in DOMAIN h : o \in Nat /\ h[o].size \in Nat
  BY HeaderIs
<1>2. fits \subseteq Nat
  BY <1>1
<1>3. ASSUME fits # {} PROVE FirstFit(h, n) # {}
  <2>1. PICK l \in fits : \A x \in fits : l <= x
    <3> HIDE DEF fits
    <3> QED BY <1>2, <1>3, HasLeast
  <2> QED BY <2>1 DEF FirstFit
<1>4. FirstFit(h, n) \subseteq fits
  BY DEF FirstFit
<1> QED BY <1>1, <1>3, <1>4

LEMMA TakenOK ==
  ASSUME NEW h, Sound(h), NEW n \in Nat, 1 <= n, NEW o \in FirstFit(h, n),
         NEW f \in {"none", "gc", "atomic"}, NEW g, g = Taken(h, o, n, f)
  PROVE  /\ Sound(g) /\ o \notin InUse(h) /\ InUse(g) = InUse(h) \cup {o}
         /\ g[o].size >= n /\ g[o].flags = f /\ ~g[o].free
         /\ \A x \in InUse(h) : g[x] = h[x]
<1>1. o \in DOMAIN h /\ h[o].free /\ h[o].size >= n /\ Tile(h) /\ Merged(h)
  BY FirstFitIs DEF Sound
<1>2. \A x \in DOMAIN h : /\ x \in Nat /\ h[x].size \in Nat /\ h[x].size <= ARENA
                          /\ ARENA \in Nat /\ h[x] \in Header
  BY <1>1, HeaderIs DEF Tile
<1>3. \A x \in DOMAIN h : NextOf(h, x) = NextOf(h, o) => x = o
  BY <1>1, NextIs
<1>4. \A x \in DOMAIN h : NextOf(h, x) # x
  BY <1>1, <1>2, NextIs
<1> DEFINE leftover == h[o].size - n
<1>5. CASE leftover > 2
  <2> DEFINE r == o + 1 + n
             mine == [size |-> n, free |-> FALSE, flags |-> f]
             rest == [size |-> leftover - 1, free |-> TRUE, flags |-> "none"]
             k == [h EXCEPT ![o] = mine]
  <2>1. g = With(k, r, rest)
    BY <1>5 DEF Taken
  <2>2. n < h[o].size
    BY <1>1, <1>2, <1>5
  <2>3. mine \in Header /\ rest \in Header
    BY <1>1, <1>2, <1>5 DEF Header
  <2>4. r \notin DOMAIN h
    <3>1. r \in Nat /\ o < r /\ r < NextOf(h, o)
      BY <1>1, <1>2, <2>2 DEF NextOf
    <3>2. \A x \in DOMAIN h : o < x => NextOf(h, o) <= x
      BY <1>1, NextIs
    <3>3. NextOf(h, o) \in Nat
      BY <1>1, NextIs
    <3> QED BY <3>1, <3>2, <3>3
  <2>5. /\ DOMAIN g = DOMAIN h \cup {r} /\ g[o] = mine /\ g[r] = rest
        /\ \A x \in DOMAIN h \ {o} : g[x] = h[x]
    <3> HIDE DEF r, mine, rest
    <3> QED BY <1>1, <2>1, <2>4 DEF With
  <2>6. /\ g[o].size = n /\ g[r].size = h[o].size - n - 1
        /\ ~g[o].free /\ g[r].free = TRUE /\ g[o].flags = f
    BY <2>5
  <2>7. \A x \in DOMAIN g : g[x] \in Header
    <3> HIDE DEF mine, rest, r
    <3> QED BY <1>2, <2>3, <2>5
  <2> HIDE DEF mine, rest, k
  <2>8. r = o + 1 + n
    OBVIOUS
  <2> HIDE DEF r
  <2>9. /\ Tile(g) /\ NextOf(g, o) = r /\ NextOf(g, r) = NextOf(h, o)
        /\ \A x \in DOMAIN h \ {o} : NextOf(g, x) = NextOf(h, x)
    BY <1>1, <2>2, <2>5, <2>6, <2>7, <2>8, SplitTile
  <2>10. Merged(g)
    <3> SUFFICES ASSUME NEW x \in DOMAIN g, g[x].free, NextOf(g, x) \in DOMAIN g,
                        g[NextOf(g, x)].free
                 PROVE  FALSE
      BY DEF Merged
    <3>1. CASE x = r
      <4>1. NextOf(h, o) \in DOMAIN h /\ ~h[NextOf(h, o)].free /\ NextOf(h, o) # o
        BY <1>1, <1>4, <2>4, <2>5, <2>9, <3>1, NextIs DEF Merged
      <4> QED BY <2>5, <2>9, <3>1, <4>1
    <3>2. CASE x \in DOMAIN h \ {o}
      <4>1. NextOf(h, x) \in DOMAIN h
        BY <1>1, <2>4, <2>5, <2>9, <3>2, NextIs, AllocAssumption
      <4>2. ~h[NextOf(h, x)].free
        BY <1>1, <2>5, <3>2, <4>1 DEF Merged
      <4> QED BY <1>1, <2>5, <2>6, <2>9, <3>2, <4>1, <4>2
    <3> QED BY <2>5, <2>6, <3>1, <3>2
  <2>11. InUse(g) = InUse(h) \cup {o}
    BY <1>1, <2>4, <2>5, <2>6 DEF InUse
  <2> QED BY <1>1, <1>2, <2>5, <2>6, <2>9, <2>10, <2>11 DEF InUse, Sound
<1>6. CASE ~(leftover > 2)
  <2>1. g = Tag(h, o, FALSE, f)
    BY <1>6 DEF Taken, Tag
  <2>4. /\ DOMAIN g = DOMAIN h /\ \A x \in DOMAIN h \ {o} : g[x] = h[x]
        /\ g[o] = [size |-> h[o].size, free |-> FALSE, flags |-> f] /\ g[o] \in Header
    BY <1>1, <1>2, <2>1, Tagged DEF TaggedAs
  <2>5. \A x \in DOMAIN h : g[x] \in Header /\ g[x].size = h[x].size
    <3>1. g[o].size = h[o].size
      BY <2>4
    <3> QED BY <1>2, <2>4, <3>1
  <2>6. Tile(g) /\ \A x \in DOMAIN h : NextOf(g, x) = NextOf(h, x)
    BY <1>1, <2>4, <2>5, RetagTile
  <2>7. Merged(g)
    BY <1>1, <2>4, <2>6 DEF Merged
  <2>8. InUse(g) = InUse(h) \cup {o}
    BY <1>1, <2>4 DEF InUse
  <2> QED BY <1>1, <2>4, <2>6, <2>7, <2>8 DEF InUse, Sound
<1> QED BY <1>5, <1>6

\* Block x takes in block y behind it.
Join(h, x, y) == Without([h EXCEPT ![x].size = @ + 1 + h[y].size], {y})

LEMMA JoinOK ==
  ASSUME NEW h, Tile(h), NEW x \in DOMAIN h, NEW y \in DOMAIN h, NextOf(h, x) = y,
         h[x].free, h[y].free, NEW g, g = Join(h, x, y)
  PROVE  /\ Tile(g) /\ DOMAIN g = DOMAIN h \ {y} /\ x \in DOMAIN g
         /\ NextOf(g, x) = NextOf(h, y)
         /\ \A o \in DOMAIN h \ {x, y} : NextOf(g, o) = NextOf(h, o) /\ g[o] = h[o]
         /\ \A o \in DOMAIN g : g[o].free = h[o].free
         /\ InUse(g) = InUse(h) /\ \A o \in InUse(h) : g[o] = h[o]
<1> DEFINE b == h[x]
           v == b.size + 1 + h[y].size
           c == [b EXCEPT !.size = v]
           k == [h EXCEPT ![x] = c]
<1>1. c = [size |-> v, free |-> b.free, flags |-> b.flags]
  <2>1. b \in Header
    BY DEF Tile
  <2> HIDE DEF b, v
  <2> QED BY <2>1, EditHeader
<1>2. g = Without(k, {y})
  BY DEF Join
<1>3. x # y
  BY HeaderIs, NextIs
<1>4. /\ DOMAIN g = DOMAIN h \ {y} /\ g[x] = c
      /\ \A o \in DOMAIN h \ {x, y} : g[o] = h[o]
  <2> HIDE DEF c
  <2> QED BY <1>2, <1>3 DEF Without
<1>5. Joined(g, h, x, y)
  BY <1>1, <1>4 DEF Joined
<1> HIDE DEF b, v, c, k
<1>6. g[x].free = h[x].free /\ h[x].free \in BOOLEAN
  BY <1>5, HeaderIs DEF Joined
<1>8. /\ Tile(g) /\ x \in DOMAIN g /\ NextOf(g, x) = NextOf(h, y)
      /\ \A o \in DOMAIN h \ {x, y} : NextOf(g, o) = NextOf(h, o)
  BY <1>5, JoinTile
<1>9. \A o \in DOMAIN g : g[o].free = h[o].free
  BY <1>4, <1>6
<1>10. InUse(g) = InUse(h) /\ \A o \in InUse(h) : g[o] = h[o]
  BY <1>4, <1>9 DEF InUse
<1> QED BY <1>4, <1>8, <1>9, <1>10

\* Free neighbours are only behind or before b.
LEMMA ForwardOK ==
  ASSUME NEW h, Tile(h), NEW o \in DOMAIN h, h[o].free, MergedBut(h, o),
         NEW g, g = MergedForward(h, o)
  PROVE  /\ Tile(g) /\ o \in DOMAIN g /\ g[o].free
         /\ \A x \in DOMAIN g : /\ g[x].free /\ NextOf(g, x) \in DOMAIN g /\ g[NextOf(g, x)].free
                                => NextOf(g, x) = o
         /\ InUse(g) = InUse(h) /\ \A x \in InUse(h) : g[x] = h[x]
<1> DEFINE next == NextOf(h, o)
<1>1. \A x \in DOMAIN h : x \in Nat /\ NextOf(h, x) \in Nat /\ x < NextOf(h, x)
  BY HeaderIs, NextIs
<1>2. CASE next \in DOMAIN h /\ h[next].free
  <2>1. g = Join(h, o, next)
    BY <1>2 DEF MergedForward, Join
  <2>2. next = NextOf(h, o)
    OBVIOUS
  <2> HIDE DEF next
  <2>3. /\ Tile(g) /\ DOMAIN g = DOMAIN h \ {next} /\ o \in DOMAIN g
        /\ NextOf(g, o) = NextOf(h, next)
        /\ \A x \in DOMAIN h \ {o, next} : NextOf(g, x) = NextOf(h, x) /\ g[x] = h[x]
        /\ \A x \in DOMAIN g : g[x].free = h[x].free
        /\ InUse(g) = InUse(h) /\ \A x \in InUse(h) : g[x] = h[x]
    BY <1>2, <2>1, <2>2, JoinOK
  <2>4. ASSUME NEW x \in DOMAIN g, g[x].free, NextOf(g, x) \in DOMAIN g, g[NextOf(g, x)].free
        PROVE  NextOf(g, x) = o
    <3>1. CASE x = o
      <4> DEFINE far == NextOf(h, next)
      <4>1. far \in DOMAIN h /\ h[far].free
        BY <2>3, <2>4, <3>1
      <4>2. next = o \/ far = o
        BY <1>2, <4>1 DEF MergedBut
      <4>3. o < next /\ next < far /\ o \in Nat /\ next \in Nat /\ far \in Nat
        BY <1>1, <1>2, <2>2, <4>1
      <4> QED BY <4>2, <4>3
    <3>2. CASE x # o
      <4>1. NextOf(g, x) = NextOf(h, x) /\ x \in DOMAIN h /\ h[x].free
        BY <2>3, <2>4, <3>2
      <4>2. NextOf(h, x) \in DOMAIN h /\ h[NextOf(h, x)].free
        BY <2>3, <2>4, <4>1
      <4> QED BY <3>2, <4>1, <4>2 DEF MergedBut
    <3> QED BY <3>1, <3>2
  <2> QED BY <2>3, <2>4
<1>3. CASE ~(next \in DOMAIN h /\ h[next].free)
  <2>1. g = h
    BY <1>3 DEF MergedForward
  <2> QED BY <1>3, <2>1 DEF MergedBut
<1> QED BY <1>2, <1>3

LEMMA BackOK ==
  ASSUME NEW h, Tile(h), NEW o \in DOMAIN h, h[o].free,
         \A x \in DOMAIN h : /\ h[x].free /\ NextOf(h, x) \in DOMAIN h /\ h[NextOf(h, x)].free
                             => NextOf(h, x) = o,
         NEW g, g = MergedBack(h, o)
  PROVE  Sound(g) /\ InUse(g) = InUse(h) /\ \A x \in InUse(h) : g[x] = h[x]
<1> DEFINE prev == {x \in DOMAIN h : NextOf(h, x) = o /\ h[x].free}
           p == CHOOSE x \in prev : TRUE
<1>1. CASE prev = {}
  <2>1. g = h
    BY <1>1 DEF MergedBack
  <2>2. Merged(g)
    BY <1>1, <2>1 DEF Merged
  <2> QED BY <2>1, <2>2 DEF Sound
<1>2. CASE prev # {}
  <2>1. p \in prev
    BY <1>2
  <2>2. g = Join(h, p, o)
    BY <1>2 DEF MergedBack, Join
  <2>3. p \in DOMAIN h /\ NextOf(h, p) = o /\ h[p].free
    BY <2>1
  <2> HIDE DEF prev, p
  <2>4. /\ Tile(g) /\ DOMAIN g = DOMAIN h \ {o} /\ p \in DOMAIN g
        /\ NextOf(g, p) = NextOf(h, o)
        /\ \A x \in DOMAIN h \ {p, o} : NextOf(g, x) = NextOf(h, x) /\ g[x] = h[x]
        /\ \A x \in DOMAIN g : g[x].free = h[x].free
        /\ InUse(g) = InUse(h) /\ \A x \in InUse(h) : g[x] = h[x]
    BY <2>2, <2>3, JoinOK
  <2>5. ASSUME NEW x \in DOMAIN g, g[x].free, NextOf(g, x) \in DOMAIN g, g[NextOf(g, x)].free
        PROVE  FALSE
    <3>1. CASE x = p
      <4>1. NextOf(h, o) \in DOMAIN h /\ h[NextOf(h, o)].free /\ NextOf(h, o) # o
        BY <2>4, <2>5, <3>1
      <4> QED BY <4>1
    <3>2. CASE x # p
      <4>1. NextOf(g, x) = NextOf(h, x) /\ x \in DOMAIN h /\ h[x].free /\ NextOf(h, x) # o
        BY <2>4, <2>5, <3>2
      <4>2. NextOf(h, x) \in DOMAIN h /\ h[NextOf(h, x)].free
        BY <2>4, <2>5, <4>1
      <4> QED BY <4>1, <4>2
    <3> QED BY <3>1, <3>2
  <2> QED BY <2>4, <2>5 DEF Merged, Sound
<1> QED BY <1>1, <1>2

LEMMA ReleasedOK ==
  ASSUME NEW h, Sound(h), NEW o \in InUse(h), NEW g, g = Released(h, o)
  PROVE  Sound(g) /\ InUse(g) = InUse(h) \ {o} /\ \A x \in InUse(h) \ {o} : g[x] = h[x]
<1> DEFINE k == Tag(h, o, TRUE, "none")
           m == MergedForward(k, o)
<1>1. g = MergedBack(m, o)
  BY DEF Released, Tag
<1>2. o \in DOMAIN h /\ h[o].free = FALSE /\ Tile(h) /\ Merged(h) /\ h[o] \in Header
  BY HeaderIs DEF InUse, Sound, Tile
<1>3. k = Tag(h, o, TRUE, "none")
  OBVIOUS
<1> HIDE DEF k
<1>4. /\ DOMAIN k = DOMAIN h /\ \A x \in DOMAIN h \ {o} : k[x] = h[x]
      /\ k[o] = [size |-> h[o].size, free |-> TRUE, flags |-> "none"] /\ k[o] \in Header
  <2>1. TaggedAs(k, h, o, TRUE, "none")
    BY <1>2, <1>3, Tagged
  <2> QED BY <2>1 DEF TaggedAs
<1>5. Tile(k) /\ \A x \in DOMAIN h : NextOf(k, x) = NextOf(h, x)
  <2>1. \A x \in DOMAIN h : k[x] \in Header /\ k[x].size = h[x].size
    <3>1. k[o].size = h[o].size
      BY <1>4
    <3> QED BY <1>2, <1>4, <3>1 DEF Tile
  <2> QED BY <1>2, <1>4, <2>1, RetagTile
<1>6. k[o].free = TRUE
  BY <1>4
<1>7. MergedBut(k, o)
  BY <1>2, <1>4, <1>5 DEF MergedBut, Merged
<1>8. m = MergedForward(k, o)
  OBVIOUS
<1> HIDE DEF m
<1>9. /\ Tile(m) /\ o \in DOMAIN m /\ m[o].free
      /\ \A x \in DOMAIN m : /\ m[x].free /\ NextOf(m, x) \in DOMAIN m /\ m[NextOf(m, x)].free
                             => NextOf(m, x) = o
      /\ InUse(m) = InUse(k) /\ \A x \in InUse(k) : m[x] = k[x]
  BY <1>2, <1>4, <1>5, <1>6, <1>7, <1>8, ForwardOK
<1>10. Sound(g) /\ InUse(g) = InUse(m) /\ \A x \in InUse(m) : g[x] = m[x]
  BY <1>1, <1>9, BackOK
<1>11. InUse(k) = InUse(h) \ {o} /\ \A x \in InUse(h) \ {o} : k[x] = h[x]
  BY <1>2, <1>4, <1>6 DEF InUse
<1> QED BY <1>9, <1>10, <1>11

-----------------------------------------------------------------------------
(* The sweep *)

\* The run of blocks of F that starts at o ends at e.
RunsTo(h, F, o, e) ==
  /\ e \in {NextOf(h, x) : x \in F}
  /\ o < e /\ e \notin F
  /\ \A y \in DOMAIN h : o <= y /\ y < e => y \in F

EndOf(h, F, o) ==
  CHOOSE e \in {NextOf(h, x) : x \in F} :
    o < e /\ e \notin F /\ \A y \in DOMAIN h : o <= y /\ y < e => y \in F

StartsOf(h, F) == {o \in F : \A x \in F : NextOf(h, x) # o}

Swept(h, F) ==
  [o \in (DOMAIN h \ F) \cup StartsOf(h, F) |->
     IF o \in F THEN [size |-> EndOf(h, F, o) - o - 1, free |-> TRUE, flags |-> "none"]
                ELSE h[o]]

\* What is free after a sweep of the dead.
FreeIn(h, dead) == {o \in DOMAIN h : h[o].free \/ o + 1 \in dead}

LEMMA SweptIs ==
  ASSUME NEW h, NEW dead
  PROVE  SweptArena(h, dead) = Swept(h, FreeIn(h, dead))
  BY DEF SweptArena, Swept, FreeIn, EndOf, StartsOf

LEMMA RunEnds ==
  ASSUME NEW h, Tile(h), NEW F, F \subseteq DOMAIN h, NEW o \in F
  PROVE  RunsTo(h, F, o, EndOf(h, F, o))
<1> DEFINE S == {e \in o + 1 .. ARENA : (e = ARENA \/ e \in DOMAIN h) /\ e \notin F}
<1>1. \A x \in DOMAIN h : x \in Nat /\ x < ARENA /\ ARENA \in Nat
  BY HeaderIs
<1>2. S \subseteq Nat /\ ARENA \in S
  BY <1>1
<1>3. PICK e \in S : \A x \in S : e <= x
  <2> HIDE DEF S
  <2> QED BY <1>2, HasLeast
<1>4. e \in Nat /\ o < e /\ e <= ARENA /\ (e = ARENA \/ e \in DOMAIN h) /\ e \notin F
  BY <1>1, <1>3
<1>5. ASSUME NEW y \in DOMAIN h, o <= y, y < e PROVE y \in F
  <2>1. ASSUME y \notin F PROVE FALSE
    <3>1. y \in S
      BY <1>1, <1>5, <2>1
    <3> QED BY <1>1, <1>3, <1>4, <1>5, <3>1
  <2> QED BY <2>1
<1>6. e \in {NextOf(h, x) : x \in F}
  <2>1. PICK x \in DOMAIN h : x < e /\ NextOf(h, x) = e
    BY <1>1, <1>4, Before
  <2>2. o <= x
    <3>1. x < o => NextOf(h, x) <= o
      BY NextIs
    <3> QED BY <1>1, <1>4, <2>1, <3>1
  <2> QED BY <1>5, <2>1, <2>2
<1> HIDE DEF S
<1>7. \E d \in {NextOf(h, x) : x \in F} :
        o < d /\ d \notin F /\ \A y \in DOMAIN h : o <= y /\ y < d => y \in F
  BY <1>4, <1>5, <1>6
<1> QED BY <1>7 DEF EndOf, RunsTo

LEMMA RunIs ==
  ASSUME NEW h, Tile(h), NEW F, F \subseteq DOMAIN h, NEW o \in F, NEW e, RunsTo(h, F, o, e)
  PROVE  /\ e \in Nat /\ o < e /\ e <= ARENA
         /\ e = ARENA \/ e \in DOMAIN h \ F
         /\ \A y \in DOMAIN h : o < y /\ y < e => y \in F /\ \E x \in F : NextOf(h, x) = y
<1>1. \A x \in DOMAIN h : x \in Nat /\ x < ARENA /\ ARENA \in Nat
  BY HeaderIs
<1>2. PICK z \in F : e = NextOf(h, z)
  BY DEF RunsTo
<1>3. e \in Nat /\ e <= ARENA /\ (e = ARENA \/ e \in DOMAIN h)
  BY <1>2, NextIs
<1>4. o < e /\ e \notin F /\ \A y \in DOMAIN h : o <= y /\ y < e => y \in F
  BY DEF RunsTo
<1>5. ASSUME NEW y \in DOMAIN h, o < y, y < e PROVE y \in F /\ \E x \in F : NextOf(h, x) = y
  <2>1. y # 0
    BY <1>1, <1>5
  <2>2. PICK x \in DOMAIN h : x < y /\ NextOf(h, x) = y
    BY <2>1, Before
  <2>3. o <= x
    <3>1. x < o => NextOf(h, x) <= o
      BY NextIs
    <3> QED BY <1>1, <1>5, <2>2, <3>1
  <2>4. o <= y /\ x < e
    BY <1>1, <1>3, <1>5, <2>2
  <2> QED BY <1>4, <1>5, <2>2, <2>3, <2>4
<1> QED BY <1>3, <1>4, <1>5

\* F has every free block.
AllFree(h, F) == F \subseteq DOMAIN h /\ \A o \in DOMAIN h : h[o].free => o \in F

\* What g, which is h swept, has at each header.
SweptBlocks(g, h, F) ==
  /\ DOMAIN g = (DOMAIN h \ F) \cup StartsOf(h, F)
  /\ \A o \in DOMAIN h \ F : g[o] = h[o]
  /\ \A o \in StartsOf(h, F) : g[o].free /\ NextOf(g, o) = EndOf(h, F, o)

LEMMA SweptTile ==
  ASSUME NEW h, Tile(h), NEW F, AllFree(h, F), NEW g, g = Swept(h, F)
  PROVE  Sound(g) /\ InUse(g) = DOMAIN h \ F /\ SweptBlocks(g, h, F)
<1> USE DEF AllFree
<1> DEFINE D == DOMAIN h
           starts == StartsOf(h, F)
<1>1. \A o \in D : /\ o \in Nat /\ o < ARENA /\ ARENA \in Nat /\ h[o] \in Header
                   /\ NextOf(h, o) \in Nat /\ o < NextOf(h, o) /\ NextOf(h, o) <= ARENA
                   /\ NextOf(h, o) = ARENA \/ NextOf(h, o) \in D
                   /\ \A x \in D : o < x => NextOf(h, o) <= x
                   /\ \A x \in D : NextOf(h, x) = NextOf(h, o) => x = o
  BY HeaderIs, NextIs DEF Tile
<1>2. starts \subseteq F /\ \A o \in starts : \A x \in F : NextOf(h, x) # o
  BY DEF StartsOf
<1>3. \A o \in F : o \notin starts => \E x \in F : NextOf(h, x) = o
  BY DEF StartsOf
<1>4. DOMAIN g = (D \ F) \cup starts
  BY DEF Swept
<1>5. ASSUME NEW o \in D \ F PROVE g[o] = h[o] /\ ~h[o].free /\ NextOf(g, o) = NextOf(h, o)
  <2>1. g[o] = h[o]
    BY <1>5 DEF Swept
  <2> QED BY <1>5, <2>1 DEF NextOf
<1>6. ASSUME NEW o \in starts
      PROVE  /\ g[o] \in Header /\ g[o].free /\ NextOf(g, o) = EndOf(h, F, o)
             /\ RunsTo(h, F, o, EndOf(h, F, o))
  <2> DEFINE e == EndOf(h, F, o)
             s == e - o - 1
  <2>1. o \in F /\ o \in D
    BY <1>2
  <2>2. g[o] = [size |-> s, free |-> TRUE, flags |-> "none"]
    BY <1>4, <2>1 DEF Swept
  <2>3. RunsTo(h, F, o, e)
    BY <2>1, RunEnds
  <2> HIDE DEF e
  <2>4. e \in Nat /\ o < e /\ e <= ARENA
    BY <2>1, <2>3, RunIs
  <2>5. s \in 0 .. ARENA
    BY <1>1, <2>1, <2>4
  <2>6. o + 1 + s = e
    <3>1. o \in Nat
      BY <1>1, <2>1
    <3> QED BY <2>4, <3>1
  <2> HIDE DEF s
  <2>7. g[o] \in Header /\ g[o].size = s /\ g[o].free
    BY <2>2, <2>5 DEF Header
  <2>8. NextOf(g, o) = e
    BY <2>6, <2>7 DEF NextOf
  <2> QED BY <2>3, <2>7, <2>8 DEF e
<1> HIDE DEF starts
<1>7. \A o \in starts : /\ EndOf(h, F, o) \in Nat /\ o < EndOf(h, F, o)
                        /\ EndOf(h, F, o) = ARENA \/ EndOf(h, F, o) \in D \ F
                        /\ \A y \in D : o < y /\ y < EndOf(h, F, o) =>
                             y \in F /\ \E x \in F : NextOf(h, x) = y
  <2> SUFFICES ASSUME NEW o \in starts
               PROVE  /\ EndOf(h, F, o) \in Nat /\ o < EndOf(h, F, o)
                      /\ EndOf(h, F, o) = ARENA \/ EndOf(h, F, o) \in D \ F
                      /\ \A y \in D : o < y /\ y < EndOf(h, F, o) =>
                           y \in F /\ \E x \in F : NextOf(h, x) = y
    OBVIOUS
  <2>1. o \in F /\ RunsTo(h, F, o, EndOf(h, F, o))
    BY <1>2, <1>6
  <2> QED BY <2>1, RunIs
<1>8. 0 \in DOMAIN g /\ DOMAIN g \subseteq D
  <2>1. 0 \in D
    BY DEF Tile
  <2>2. 0 \in F => 0 \in starts
    BY <1>1, <1>3
  <2> QED BY <1>2, <1>4, <2>1, <2>2
<1>9. \A o \in DOMAIN g : g[o] \in Header
  BY <1>1, <1>4, <1>5, <1>6
<1>10. ASSUME NEW o \in D \ F PROVE NextOf(g, o) = ARENA \/ NextOf(g, o) \in DOMAIN g
  <2>1. CASE NextOf(h, o) \in F
    <3>1. \A x \in F : NextOf(h, x) # NextOf(h, o)
      BY <1>1, <1>10
    <3>2. NextOf(h, o) \in starts
      BY <1>3, <2>1, <3>1
    <3> QED BY <1>4, <1>5, <3>2
  <2>2. CASE NextOf(h, o) \notin F
    BY <1>1, <1>4, <1>5, <2>2
  <2> QED BY <2>1, <2>2
<1>11. \A o \in DOMAIN g : NextOf(g, o) = ARENA \/ NextOf(g, o) \in DOMAIN g
  BY <1>4, <1>6, <1>7, <1>10
<1>12. ASSUME NEW o \in DOMAIN g, NEW x \in DOMAIN g, o < x PROVE NextOf(g, o) <= x
  <2>1. CASE o \in D \ F
    BY <1>1, <1>5, <1>8, <1>12, <2>1
  <2>2. CASE o \in starts
    <3>1. ASSUME x < NextOf(g, o) PROVE FALSE
      <4>1. x \in D /\ x < EndOf(h, F, o)
        <5>1. NextOf(g, o) = EndOf(h, F, o)
          BY <1>6, <2>2
        <5> QED BY <1>8, <3>1, <5>1
      <4>2. x \in F /\ \E z \in F : NextOf(h, z) = x
        BY <1>7, <1>12, <2>2, <4>1
      <4> QED BY <1>2, <1>4, <4>2
    <3>2. NextOf(g, o) \in Nat /\ x \in Nat
      <4>1. NextOf(g, o) = EndOf(h, F, o) /\ EndOf(h, F, o) \in Nat
        BY <1>6, <1>7, <2>2
      <4> QED BY <1>1, <1>8, <4>1
    <3> QED BY <3>1, <3>2
  <2> QED BY <1>4, <2>1, <2>2
<1>13. DOMAIN g \subseteq 0 .. ARENA - 1
  BY <1>8 DEF Tile
<1>14. Tile(g)
  BY <1>8, <1>9, <1>11, <1>12, <1>13 DEF Tile
<1>15. Merged(g)
  <2> SUFFICES ASSUME NEW o \in DOMAIN g, g[o].free, NextOf(g, o) \in DOMAIN g,
                      g[NextOf(g, o)].free
               PROVE  FALSE
    BY DEF Merged
  <2>1. o \in starts
    BY <1>4, <1>5
  <2>2. NextOf(g, o) \in D \ F
    <3>1. NextOf(g, o) \in D /\ NextOf(g, o) # ARENA
      BY <1>1, <1>8
    <3>2. NextOf(g, o) = EndOf(h, F, o)
      BY <1>6, <2>1
    <3> QED BY <1>7, <2>1, <3>1, <3>2
  <2> QED BY <1>5, <2>2
<1>16. InUse(g) = D \ F
  BY <1>4, <1>5, <1>6 DEF InUse
<1>17. SweptBlocks(g, h, F)
  BY <1>4, <1>5, <1>6 DEF SweptBlocks, starts
<1> QED BY <1>14, <1>15, <1>16, <1>17 DEF Sound

LEMMA SweptOK ==
  ASSUME NEW h, Sound(h), NEW dead, NEW g, g = SweptArena(h, dead)
  PROVE  /\ Sound(g) /\ InUse(g) = {o \in InUse(h) : o + 1 \notin dead}
         /\ \A o \in InUse(g) : g[o] = h[o]
<1> DEFINE F == FreeIn(h, dead)
<1>1. g = Swept(h, F)
  BY SweptIs
<1>2. AllFree(h, F)
  BY DEF FreeIn, AllFree
<1>3. DOMAIN h \ F = {o \in InUse(h) : o + 1 \notin dead}
  BY DEF FreeIn, InUse
<1> HIDE DEF F
<1>4. Sound(g) /\ InUse(g) = DOMAIN h \ F /\ \A o \in DOMAIN h \ F : g[o] = h[o]
  <2>1. Tile(h)
    BY DEF Sound
  <2>2. Sound(g)
    BY <1>1, <1>2, <2>1, SweptTile
  <2>3. InUse(g) = DOMAIN h \ F
    BY <1>1, <1>2, <2>1, SweptTile
  <2>4. \A o \in DOMAIN h \ F : g[o] = h[o]
    <3>1. SweptBlocks(g, h, F)
      BY <1>1, <1>2, <2>1, SweptTile
    <3> QED BY <3>1 DEF SweptBlocks
  <2> QED BY <2>2, <2>3, <2>4
<1> QED BY <1>3, <1>4

-----------------------------------------------------------------------------
(* Heaps: what allocating and collecting does to one *)

Flags == {"none", "gc", "atomic"}

\* Mappings, none of which reaches the arena.
MapsOK(m) ==
  /\ DOMAIN m \subseteq Mappings
  /\ \A p \in DOMAIN m : /\ ~m[p].free /\ m[p].size \in Nat /\ m[p].flags \in Flags
                         /\ p > ARENA \/ p + m[p].size < 0

GoodHeap(H) ==
  /\ H = [hdr |-> H.hdr, maps |-> H.maps, marks |-> H.marks, since |-> H.since]
  /\ ArenaOK(H.hdr) /\ MapsOK(H.maps) /\ H.marks = {} /\ H.since \in Nat

\* The blocks no collection takes.
Fixed(H) == LiveIn(H) \ Collectable(H)

\* Heap G is H with block p given out for n units, unless p is 0, and with some
\* blocks collected.
Turned(H, G, p, n, f) ==
  /\ GoodHeap(G)
  /\ \A x \in LiveIn(G) \ {p} : x \in LiveIn(H) /\ At(G, x) = At(H, x)
  /\ Fixed(H) \subseteq LiveIn(G) \ {p}
  /\ p # 0 => p \in LiveIn(G) /\ At(G, p).size >= n /\ At(G, p).flags = f

Kept(H, G) == \A n, f : Turned(H, G, 0, n, f)

\* A size that is asked for.
Asked(n) == n \in Nat /\ 1 <= n /\ (n > THRESHOLD => \A p \in Mappings : p > ARENA \/ p + n < 0)

LEMMA UnitsAsked ==
  ASSUME NEW n \in Requests \cup GcRequests
  PROVE  Asked(Units(n))
<1>1. n \in Nat /\ THRESHOLD \in Nat /\ 1 <= THRESHOLD
  BY AllocAssumption, GcAssumption
<1>2. \A p \in Mappings : p > ARENA \/ p + n < 0
  BY GcAssumption
<1> QED BY <1>1, <1>2 DEF Asked, Units

\* Blocks of the arena and mappings are apart, and no block is at 0.
LEMMA LiveIs ==
  ASSUME NEW H, GoodHeap(H)
  PROVE  /\ LiveIn(H) \subseteq Pointers /\ 0 \notin LiveIn(H)
         /\ \A o \in InUse(H.hdr) : o + 1 \in LiveIn(H) /\ At(H, o + 1) = H.hdr[o]
         /\ \A p \in LiveIn(H) : p \in DOMAIN H.maps \/ (p - 1 \in InUse(H.hdr) /\ p = (p - 1) + 1)
         /\ \A p \in DOMAIN H.maps : p \in LiveIn(H) /\ At(H, p) = H.maps[p]
         /\ \A p \in LiveIn(H) : At(H, p).size \in Nat /\ At(H, p).flags \in Flags
<1>1. \A o \in InUse(H.hdr) : /\ o \in DOMAIN H.hdr /\ o \in Nat /\ o < ARENA /\ ARENA \in Nat
                              /\ H.hdr[o].size \in Nat /\ H.hdr[o].flags \in Flags
  BY HeaderIs DEF GoodHeap, ArenaOK, Sound, InUse, Flags
<1>2. \A p \in Mappings : p \in Int /\ p \notin 0 .. ARENA
  BY AllocAssumption
<1>3. DOMAIN H.maps \subseteq Mappings
  BY DEF GoodHeap, MapsOK
<1>4. ARENA \in Nat
  BY AllocAssumption
<1>5. \A o \in InUse(H.hdr) : o + 1 \in 0 .. ARENA /\ o + 1 # 0 /\ o + 1 \notin DOMAIN H.maps /\ (o + 1) - 1 = o
  BY <1>1, <1>2, <1>3
<1>6. LiveIn(H) = {o + 1 : o \in InUse(H.hdr)} \cup DOMAIN H.maps
  BY DEF LiveIn, InUse
<1>7. LiveIn(H) \subseteq Pointers /\ 0 \notin LiveIn(H)
  BY <1>2, <1>3, <1>4, <1>5, <1>6 DEF Pointers
<1>8. \A o \in InUse(H.hdr) : o + 1 \in LiveIn(H) /\ At(H, o + 1) = H.hdr[o]
  BY <1>5, <1>6 DEF At
<1>9. \A p \in LiveIn(H) : p \in DOMAIN H.maps \/ (p - 1 \in InUse(H.hdr) /\ p = (p - 1) + 1)
  BY <1>1, <1>5, <1>6
<1>10. \A p \in DOMAIN H.maps : p \in LiveIn(H) /\ At(H, p) = H.maps[p]
  BY <1>6 DEF At
<1>11. \A p \in DOMAIN H.maps : H.maps[p].size \in Nat /\ H.maps[p].flags \in Flags
  BY DEF GoodHeap, MapsOK
<1>12. \A p \in LiveIn(H) : At(H, p).size \in Nat /\ At(H, p).flags \in Flags
  BY <1>1, <1>8, <1>9, <1>10, <1>11
<1> QED BY <1>7, <1>8, <1>9, <1>10, <1>12

\* The heap with other headers, or other mappings.
LEMMA HeapEdited ==
  ASSUME NEW H, GoodHeap(H), NEW v
  PROVE  /\ [H EXCEPT !.hdr = v] = [hdr |-> v, maps |-> H.maps, marks |-> H.marks, since |-> H.since]
         /\ [H EXCEPT !.maps = v] = [hdr |-> H.hdr, maps |-> v, marks |-> H.marks, since |-> H.since]
         /\ [H EXCEPT !.since = v] = [hdr |-> H.hdr, maps |-> H.maps, marks |-> H.marks, since |-> v]
<1>1. ASSUME NEW a, NEW b, NEW c, NEW d, H = [hdr |-> a, maps |-> b, marks |-> c, since |-> d]
      PROVE  /\ [H EXCEPT !.hdr = v] = [hdr |-> v, maps |-> b, marks |-> c, since |-> d]
             /\ [H EXCEPT !.maps = v] = [hdr |-> a, maps |-> v, marks |-> c, since |-> d]
             /\ [H EXCEPT !.since = v] = [hdr |-> a, maps |-> b, marks |-> c, since |-> v]
  BY <1>1
<1> QED BY <1>1 DEF GoodHeap

LEMMA KeptTurned ==
  ASSUME NEW H, GoodHeap(H), NEW K, Kept(H, K), NEW G, NEW p, NEW n, NEW f, Turned(K, G, p, n, f)
  PROVE  Turned(H, G, p, n, f)
<1>1. /\ GoodHeap(K) /\ \A x \in LiveIn(K) \ {0} : x \in LiveIn(H) /\ At(K, x) = At(H, x)
      /\ Fixed(H) \subseteq LiveIn(K) \ {0}
  <2>1. Turned(H, K, 0, n, f)
    BY DEF Kept
  <2> QED BY <2>1 DEF Turned
<1>2. 0 \notin LiveIn(K)
  BY <1>1, LiveIs
<1>3. \A x \in Fixed(H) : x \in Fixed(K)
  BY <1>1, <1>2 DEF Fixed, Collectable
<1> QED BY <1>1, <1>2, <1>3 DEF Turned

\* One arena gives way to another.
LEMMA NewArena ==
  ASSUME NEW H, GoodHeap(H), NEW h, ArenaOK(h), InUse(h) \subseteq InUse(H.hdr),
         \A o \in InUse(h) : h[o] = H.hdr[o],
         NEW m, DOMAIN m \subseteq DOMAIN H.maps, \A p \in DOMAIN m : m[p] = H.maps[p],
         \A p \in Fixed(H) : p \in DOMAIN m \/ p - 1 \in InUse(h),
         NEW s \in Nat, NEW G, G = [hdr |-> h, maps |-> m, marks |-> {}, since |-> s]
  PROVE  Kept(H, G)
<1>1. G.hdr = h /\ G.maps = m /\ G.marks = {} /\ G.since = s
  OBVIOUS
<1>2. GoodHeap(G)
  <2>1. MapsOK(m)
    BY DEF GoodHeap, MapsOK
  <2> QED BY <1>1, <2>1 DEF GoodHeap
<1>3. \A x \in LiveIn(G) : x \in LiveIn(H) /\ At(G, x) = At(H, x)
  <2>1. ASSUME NEW x \in LiveIn(G), x \in DOMAIN m PROVE x \in LiveIn(H) /\ At(G, x) = At(H, x)
    BY <1>1, <1>2, <2>1, LiveIs
  <2>2. ASSUME NEW x \in LiveIn(G), x \notin DOMAIN m PROVE x \in LiveIn(H) /\ At(G, x) = At(H, x)
    <3>1. x - 1 \in InUse(h) /\ x = (x - 1) + 1 /\ At(G, (x - 1) + 1) = h[x - 1]
      BY <1>1, <1>2, <2>2, LiveIs
    <3>2. (x - 1) + 1 \in LiveIn(H) /\ At(H, (x - 1) + 1) = H.hdr[x - 1]
      BY <3>1, LiveIs
    <3> QED BY <3>1, <3>2
  <2> QED BY <2>1, <2>2
<1>4. \A x \in Fixed(H) : x \in LiveIn(G) /\ x # 0
  <2>1. \A x \in Fixed(H) : x \in LiveIn(H) /\ x # 0
    BY LiveIs DEF Fixed
  <2>2. ASSUME NEW x \in Fixed(H), x \in DOMAIN m PROVE x \in LiveIn(G)
    BY <1>1, <1>2, <2>2, LiveIs
  <2>3. ASSUME NEW x \in Fixed(H), x - 1 \in InUse(h) PROVE x \in LiveIn(G)
    <3>1. x \in Int
      <4>1. x \in Pointers
        BY <2>1, LiveIs
      <4>2. Pointers \subseteq Int
        BY AllocAssumption DEF Pointers
      <4> QED BY <4>1, <4>2
    <3>2. (x - 1) + 1 \in LiveIn(G)
      BY <1>1, <1>2, <2>3, LiveIs
    <3> QED BY <3>1, <3>2
  <2> QED BY <2>1, <2>2, <2>3
<1> QED BY <1>2, <1>3, <1>4 DEF Kept, Turned

\* The heap without the blocks that are dead, as a sweep leaves it.
SweptHeap(H, dead) ==
  [hdr |-> SweptArena(Booted(H.hdr), dead), maps |-> Without(H.maps, dead), marks |-> {}, since |-> 0]

LEMMA SweptHeapOK ==
  ASSUME NEW H, GoodHeap(H), NEW dead, dead \subseteq Collectable(H),
         NEW G, G = SweptHeap(H, dead)
  PROVE  Kept(H, G) /\ LiveIn(G) = LiveIn(H) \ dead
<1> DEFINE b == Booted(H.hdr)
           h == SweptArena(b, dead)
           m == Without(H.maps, dead)
<1>1. /\ Sound(b) /\ InUse(b) = InUse(H.hdr) /\ \A o \in InUse(H.hdr) : b[o] = H.hdr[o]
  BY BootedOK DEF GoodHeap
<1>2. /\ Sound(h) /\ InUse(h) = {o \in InUse(b) : o + 1 \notin dead}
      /\ \A o \in InUse(h) : h[o] = b[o]
  <2> HIDE DEF b
  <2> QED BY <1>1, SweptOK
<1>3. DOMAIN m = DOMAIN H.maps \ dead /\ \A p \in DOMAIN m : m[p] = H.maps[p]
  BY DEF Without
<1>4. G = [hdr |-> h, maps |-> m, marks |-> {}, since |-> 0] /\ G.hdr = h /\ G.maps = m
  BY DEF SweptHeap
<1> HIDE DEF b, h, m
<1>5. \A p \in LiveIn(H) \ dead : p \in DOMAIN m \/ p - 1 \in InUse(h)
  BY <1>1, <1>2, <1>3, LiveIs
<1>6. Kept(H, G)
  <2>1. InUse(h) \subseteq InUse(H.hdr) /\ \A o \in InUse(h) : h[o] = H.hdr[o]
    BY <1>1, <1>2
  <2>2. \A p \in Fixed(H) : p \in DOMAIN m \/ p - 1 \in InUse(h)
    BY <1>5 DEF Fixed
  <2>3. ArenaOK(h) /\ DOMAIN m \subseteq DOMAIN H.maps
    BY <1>2, <1>3 DEF ArenaOK
  <2> QED BY <1>3, <1>4, <2>1, <2>2, <2>3, NewArena
<1>7. GoodHeap(G) /\ \A x \in LiveIn(G) : x \in LiveIn(H)
  <2>1. Turned(H, G, 0, 0, "none")
    BY <1>6 DEF Kept
  <2>2. GoodHeap(G)
    BY <2>1 DEF Turned
  <2> QED BY <2>1, <2>2, LiveIs DEF Turned
<1>8. ASSUME NEW x \in LiveIn(G), x \in dead PROVE FALSE
  <2>1. x \notin DOMAIN m
    BY <1>3, <1>8
  <2>2. x - 1 \in InUse(h) /\ x = (x - 1) + 1
    BY <1>4, <1>7, <2>1, LiveIs
  <2> QED BY <1>2, <1>8, <2>2
<1>9. ASSUME NEW x \in LiveIn(H) \ dead PROVE x \in LiveIn(G)
  <2>1. CASE x \in DOMAIN m
    BY <1>4, <1>7, <2>1, LiveIs
  <2>2. CASE x \notin DOMAIN m
    <3>1. x \notin DOMAIN H.maps
      BY <1>3, <1>9, <2>2
    <3>2. x = (x - 1) + 1
      BY <1>9, <3>1, LiveIs
    <3>3. x - 1 \in InUse(h)
      BY <1>5, <1>9, <2>2
    <3>4. (x - 1) + 1 \in LiveIn(G)
      BY <1>4, <1>7, <3>3, LiveIs
    <3> QED BY <3>2, <3>4
  <2> QED BY <2>1, <2>2
<1> QED BY <1>6, <1>7, <1>8, <1>9

\* A collection keeps what it does not take, and takes no block of nl_malloc.
LEMMA KeptSelf ==
  ASSUME NEW H, GoodHeap(H)
  PROVE  Kept(H, H)
  BY LiveIs DEF Kept, Turned, Fixed

LEMMA CollectedOK ==
  ASSUME NEW H, GoodHeap(H), NEW t
  PROVE  Kept(H, Collected(H)) /\ Kept(H, CollectedBy(t, H))
<1> DEFINE dead == Collectable(H) \ Marked(H)
<1>1. Collected(H) = SweptHeap(H, dead)
  BY DEF Collected, SweptHeap
<1>2. dead \subseteq Collectable(H)
  OBVIOUS
<1> HIDE DEF dead
<1>3. Kept(H, Collected(H))
  BY <1>1, <1>2, SweptHeapOK
<1> QED BY <1>3, KeptSelf DEF CollectedBy

\* alloc_once leaves a heap with the block, or without one when it fails.
Outcome(H, r, n, f) == r = [heap |-> r.heap, at |-> r.at] /\ Turned(H, r.heap, r.at, n, f)

LEMMA TakesFit ==
  ASSUME NEW H, GoodHeap(H), NEW n, Asked(n), NEW f \in Flags,
         NEW o \in FirstFit(Booted(H.hdr), n),
         NEW G, G = [H EXCEPT !.hdr = Taken(Booted(H.hdr), o, n, f)]
  PROVE  Turned(H, G, o + 1, n, f) /\ LiveIn(G) = LiveIn(H) \cup {o + 1} /\ o + 1 \notin LiveIn(H)
<1> DEFINE b == Booted(H.hdr)
           h == Taken(b, o, n, f)
<1>1. /\ Sound(b) /\ InUse(b) = InUse(H.hdr) /\ \A x \in InUse(H.hdr) : b[x] = H.hdr[x]
  BY BootedOK DEF GoodHeap
<1>2. /\ Sound(h) /\ o \notin InUse(b) /\ InUse(h) = InUse(b) \cup {o}
      /\ h[o].size >= n /\ h[o].flags = f
      /\ \A x \in InUse(b) : h[x] = b[x]
  <2> HIDE DEF b
  <2> QED BY <1>1, TakenOK DEF b, Asked, Flags
<1> HIDE DEF b, h
<1>3. G = [hdr |-> h, maps |-> H.maps, marks |-> H.marks, since |-> H.since]
  BY HeapEdited DEF b, h
<1>4. G.hdr = h /\ G.maps = H.maps /\ GoodHeap(G)
  BY <1>2, <1>3 DEF GoodHeap, ArenaOK
<1>5. o \in InUse(h) /\ o \in Nat
  <2>1. o \in InUse(h)
    BY <1>2
  <2>2. Tile(h)
    BY <1>2 DEF Sound
  <2> QED BY <2>1, <2>2, HeaderIs DEF InUse
<1>6. o + 1 \in LiveIn(G) /\ At(G, o + 1) = h[o]
  BY <1>4, <1>5, LiveIs
<1>7. ASSUME NEW x \in LiveIn(G) \ {o + 1} PROVE x \in LiveIn(H) /\ At(G, x) = At(H, x)
  <2>1. CASE x \in DOMAIN H.maps
    <3>1. x \in LiveIn(H) /\ At(H, x) = H.maps[x]
      BY <2>1, LiveIs
    <3>2. At(G, x) = G.maps[x]
      BY <1>4, <2>1, LiveIs
    <3> QED BY <1>4, <3>1, <3>2
  <2>2. CASE x \notin DOMAIN H.maps
    <3>1. x - 1 \in InUse(h) /\ x = (x - 1) + 1
      BY <1>4, <1>7, <2>2, LiveIs
    <3>2. x - 1 # o
      BY <1>7, <3>1
    <3>3. x - 1 \in InUse(H.hdr) /\ h[x - 1] = H.hdr[x - 1]
      BY <1>1, <1>2, <3>1, <3>2
    <3>4. (x - 1) + 1 \in LiveIn(H) /\ At(H, (x - 1) + 1) = H.hdr[x - 1]
      BY <3>3, LiveIs
    <3>5. At(G, (x - 1) + 1) = h[x - 1]
      BY <1>4, <3>1, LiveIs
    <3> QED BY <3>1, <3>3, <3>4, <3>5
  <2> QED BY <2>1, <2>2
<1>8. ASSUME NEW x \in LiveIn(H) PROVE x \in LiveIn(G) /\ x # o + 1
  <2>1. CASE x \in DOMAIN H.maps
    <3>1. x \in LiveIn(G)
      BY <1>4, <2>1, LiveIs
    <3>2. o < ARENA /\ ARENA \in Nat /\ x \in Mappings
      <4>1. Tile(h) /\ o \in DOMAIN h
        BY <1>2, <1>5 DEF Sound, InUse
      <4>2. DOMAIN H.maps \subseteq Mappings
        BY DEF GoodHeap, MapsOK
      <4> QED BY <2>1, <4>1, <4>2, HeaderIs
    <3>3. x \in Int /\ x \notin 0 .. ARENA
      BY <3>2, AllocAssumption
    <3> QED BY <1>5, <3>1, <3>2, <3>3
  <2>2. CASE x \notin DOMAIN H.maps
    <3>1. x - 1 \in InUse(H.hdr) /\ x = (x - 1) + 1
      BY <1>8, <2>2, LiveIs
    <3>2. x - 1 \in InUse(h) /\ x - 1 # o
      BY <1>1, <1>2, <3>1
    <3>3. (x - 1) + 1 \in LiveIn(G)
      BY <1>4, <3>2, LiveIs
    <3>4. x \in Pointers
      BY <1>8, LiveIs
    <3>5. x \in Int
      BY <3>4, AllocAssumption DEF Pointers
    <3> QED BY <1>5, <3>1, <3>2, <3>3, <3>5
  <2> QED BY <2>1, <2>2
<1> QED BY <1>2, <1>4, <1>6, <1>7, <1>8 DEF Turned, Fixed

LEMMA TakesMapping ==
  ASSUME NEW H, GoodHeap(H), NEW n, Asked(n), n > THRESHOLD, NEW f \in Flags,
         NEW p \in Mappings, p \notin DOMAIN H.maps,
         NEW G, G = [H EXCEPT !.maps = With(@, p, [size |-> n, free |-> FALSE, flags |-> f])]
  PROVE  Turned(H, G, p, n, f) /\ LiveIn(G) = LiveIn(H) \cup {p} /\ p \notin LiveIn(H)
<1> DEFINE b == [size |-> n, free |-> FALSE, flags |-> f]
           m == With(H.maps, p, b)
<1>1. G = [hdr |-> H.hdr, maps |-> m, marks |-> H.marks, since |-> H.since]
  BY HeapEdited DEF b, m
<1>2. DOMAIN m = DOMAIN H.maps \cup {p} /\ m[p] = b /\ \A x \in DOMAIN H.maps : m[x] = H.maps[x]
  <2> HIDE DEF b
  <2> QED BY DEF With
<1>3. ~b.free /\ b.size = n /\ b.flags = f
  OBVIOUS
<1>4. MapsOK(m)
  <2> HIDE DEF m, b
  <2>1. p > ARENA \/ p + n < 0
    BY DEF Asked
  <2>2. \A x \in DOMAIN H.maps : m[x] = H.maps[x] /\ x \in Mappings
    BY <1>2 DEF GoodHeap, MapsOK
  <2>3. ~m[p].free /\ m[p].size \in Nat /\ m[p].flags \in Flags /\ (p > ARENA \/ p + m[p].size < 0)
    BY <1>2, <1>3, <2>1 DEF Asked
  <2>4. MapsOK(H.maps)
    BY DEF GoodHeap
  <2> QED BY <1>2, <2>2, <2>3, <2>4 DEF MapsOK
<1> HIDE DEF m, b
<1>5. G.hdr = H.hdr /\ G.maps = m /\ GoodHeap(G)
  BY <1>1, <1>4 DEF GoodHeap
<1>6. p \in LiveIn(G) /\ At(G, p).size >= n /\ At(G, p).flags = f
  <2>1. p \in LiveIn(G) /\ At(G, p) = m[p]
    BY <1>2, <1>5, LiveIs
  <2>2. n \in Nat
    BY DEF Asked
  <2> QED BY <1>2, <1>3, <2>1, <2>2
<1>7. ASSUME NEW x \in LiveIn(G) \ {p} PROVE x \in LiveIn(H) /\ At(G, x) = At(H, x)
  <2>1. CASE x \in DOMAIN m
    <3>1. x \in DOMAIN H.maps /\ m[x] = H.maps[x]
      BY <1>2, <1>7, <2>1
    <3>2. x \in LiveIn(H) /\ At(H, x) = H.maps[x]
      BY <3>1, LiveIs
    <3>3. At(G, x) = G.maps[x]
      BY <1>5, <2>1, LiveIs
    <3> QED BY <1>5, <3>1, <3>2, <3>3
  <2>2. CASE x \notin DOMAIN m
    <3>1. x - 1 \in InUse(H.hdr) /\ x = (x - 1) + 1
      BY <1>5, <1>7, <2>2, LiveIs
    <3>2. (x - 1) + 1 \in LiveIn(H) /\ At(H, (x - 1) + 1) = H.hdr[x - 1]
      BY <3>1, LiveIs
    <3>3. At(G, (x - 1) + 1) = H.hdr[x - 1]
      BY <1>5, <3>1, LiveIs
    <3> QED BY <3>1, <3>2, <3>3
  <2> QED BY <2>1, <2>2
<1>8. ASSUME NEW x \in LiveIn(H) PROVE x \in LiveIn(G) /\ x # p
  <2>1. CASE x \in DOMAIN H.maps
    <3>1. x \in DOMAIN m /\ x # p
      BY <1>2, <2>1
    <3> QED BY <1>5, <3>1, LiveIs
  <2>2. CASE x \notin DOMAIN H.maps
    <3>1. x - 1 \in InUse(H.hdr) /\ x = (x - 1) + 1
      BY <1>8, <2>2, LiveIs
    <3>2. (x - 1) + 1 \in LiveIn(G)
      BY <1>5, <3>1, LiveIs
    <3>3. Tile(H.hdr) /\ x - 1 \in DOMAIN H.hdr
      BY <3>1 DEF GoodHeap, ArenaOK, Sound, InUse
    <3>4. x - 1 \in Nat /\ x - 1 < ARENA /\ ARENA \in Nat
      BY <3>3, HeaderIs
    <3>5. p \in Int /\ p \notin 0 .. ARENA
      BY AllocAssumption
    <3> QED BY <3>1, <3>2, <3>4, <3>5
  <2> QED BY <2>1, <2>2
<1> QED BY <1>5, <1>6, <1>7, <1>8 DEF Turned, Fixed

LEMMA AllocOnceOK ==
  ASSUME NEW H, GoodHeap(H), NEW n, Asked(n), NEW f \in Flags, NEW r \in AllocOnce(H, n, f)
  PROVE  Outcome(H, r, n, f)
<1> DEFINE h == Booted(H.hdr)
           fit == IF n <= THRESHOLD THEN FirstFit(h, n) ELSE {}
           unused == IF n <= THRESHOLD THEN {} ELSE Mappings \ DOMAIN H.maps
           block == [size |-> n, free |-> FALSE, flags |-> f]
           short == [H EXCEPT !.hdr = IF n <= THRESHOLD THEN h ELSE @]
           arena(o) == [H EXCEPT !.hdr = Taken(h, o, n, f)]
           mapped(p) == [H EXCEPT !.maps = With(@, p, block)]
<1>1. \/ r = [heap |-> short, at |-> 0]
      \/ \E o \in fit : r = [heap |-> arena(o), at |-> o + 1]
      \/ \E p \in unused : r = [heap |-> mapped(p), at |-> p]
  BY DEF AllocOnce
<1>2. CASE r = [heap |-> short, at |-> 0]
  <2>1. n <= THRESHOLD => short = [H EXCEPT !.hdr = h]
    OBVIOUS
  <2>2. ~(n <= THRESHOLD) => short = [H EXCEPT !.hdr = H.hdr]
    OBVIOUS
  <2> DEFINE v == IF n <= THRESHOLD THEN h ELSE H.hdr
  <2>3. short = [H EXCEPT !.hdr = v]
    BY <2>1, <2>2
  <2>4. ArenaOK(v) /\ InUse(v) = InUse(H.hdr) /\ \A o \in InUse(v) : v[o] = H.hdr[o]
    <3>1. ArenaOK(H.hdr)
      BY DEF GoodHeap
    <3> QED BY <3>1, BootedOK DEF ArenaOK
  <2> HIDE DEF v, short
  <2>5. short = [hdr |-> v, maps |-> H.maps, marks |-> {}, since |-> H.since] /\ H.since \in Nat
    BY <2>3, HeapEdited DEF GoodHeap
  <2>6. \A p \in Fixed(H) : p \in DOMAIN H.maps \/ p - 1 \in InUse(v)
    BY <2>4, LiveIs DEF Fixed
  <2>7. Kept(H, short)
    BY <2>4, <2>5, <2>6, NewArena
  <2>8. r.heap = short /\ r.at = 0
    BY <1>2
  <2> QED BY <1>2, <2>7, <2>8 DEF Outcome, Kept
<1>3. CASE \E o \in fit : r = [heap |-> arena(o), at |-> o + 1]
  <2>1. PICK o \in fit : r = [heap |-> arena(o), at |-> o + 1]
    BY <1>3
  <2>2. o \in FirstFit(h, n)
    OBVIOUS
  <2>3. Turned(H, arena(o), o + 1, n, f)
    BY <2>2, TakesFit
  <2> HIDE DEF arena
  <2>4. r.heap = arena(o) /\ r.at = o + 1
    BY <2>1
  <2> QED BY <2>1, <2>3, <2>4 DEF Outcome
<1>4. CASE \E p \in unused : r = [heap |-> mapped(p), at |-> p]
  <2>1. PICK p \in unused : r = [heap |-> mapped(p), at |-> p]
    BY <1>4
  <2>2. p \in Mappings /\ p \notin DOMAIN H.maps /\ n > THRESHOLD
    <3>1. n \in Nat /\ THRESHOLD \in Nat
      BY AllocAssumption DEF Asked
    <3> QED BY <3>1
  <2>3. Turned(H, mapped(p), p, n, f)
    BY <2>2, TakesMapping
  <2> HIDE DEF mapped
  <2>4. r.heap = mapped(p) /\ r.at = p
    BY <2>1
  <2> QED BY <2>1, <2>3, <2>4 DEF Outcome
<1> QED BY <1>1, <1>2, <1>3, <1>4

\* nl_alloc_flags too, with the collection between its attempts.
LEMMA AllocFlagsOK ==
  ASSUME NEW t, NEW H, GoodHeap(H), NEW n, Asked(n), NEW f \in Flags, NEW r \in AllocFlags(t, H, n, f)
  PROVE  Outcome(H, r, n, f)
<1> DEFINE C(s) == CollectedBy(t, s.heap)
<1>1. PICK s \in AllocOnce(H, n, f) :
        \/ s.at = 0 /\ r \in AllocOnce(C(s), n, f)
        \/ s.at = 0 /\ r = [s EXCEPT !.heap = C(s)]
        \/ r = s
  BY DEF AllocFlags
<1>2. Outcome(H, s, n, f)
  BY AllocOnceOK
<1>3. CASE s.at = 0
  <2>1. Turned(H, s.heap, 0, n, f) /\ GoodHeap(s.heap)
    BY <1>2, <1>3 DEF Outcome, Turned
  <2>2. Kept(s.heap, C(s))
    BY <2>1, CollectedOK
  <2> HIDE DEF C
  <2>3. Kept(H, s.heap)
    BY <2>1 DEF Kept, Turned
  <2>4. Kept(H, C(s)) /\ GoodHeap(C(s))
    <3>1. \A m, g : Turned(s.heap, C(s), 0, m, g)
      BY <2>2 DEF Kept
    <3>2. \A m, g : Turned(H, C(s), 0, m, g)
      BY <2>3, <3>1, KeptTurned
    <3> QED BY <3>2 DEF Kept, Turned
  <2>5. CASE r \in AllocOnce(C(s), n, f)
    <3>1. Outcome(C(s), r, n, f)
      BY <2>4, <2>5, AllocOnceOK
    <3> QED BY <2>4, <3>1, KeptTurned DEF Outcome
  <2>6. CASE r = [s EXCEPT !.heap = C(s)]
    <3>1. r = [heap |-> C(s), at |-> 0]
      <4>1. s = [heap |-> s.heap, at |-> 0]
        BY <1>2, <1>3 DEF Outcome
      <4> QED BY <2>6, <4>1
    <3>2. r.heap = C(s) /\ r.at = 0
      BY <3>1
    <3> QED BY <2>4, <3>1, <3>2 DEF Outcome, Kept
  <2> QED BY <1>1, <1>2, <2>5, <2>6
<1>4. CASE s.at # 0
  BY <1>1, <1>2, <1>4
<1> QED BY <1>3, <1>4

-----------------------------------------------------------------------------
(***************************************************************************)
(* The invariant: the heap is a good one between calls, without a mark;    *)
(* the blocks, their counters and the words in them agree with it, all     *)
(* words are numbers, and the blocks no collection takes are the pinned,   *)
(* or all of them in a program without the collector.                      *)
(***************************************************************************)
Counted(H, blocks, bytes) ==
  /\ blocks = Cardinality(LiveIn(H))
  /\ bytes = SumFunction([p \in LiveIn(H) |-> At(H, p).size])

WordsOK ==
  /\ stack \subseteq Int
  /\ region \in [Regions -> Int]
  /\ DOMAIN word = LiveIn(Heap) /\ \A p \in DOMAIN word : word[p] \in Int

HeldOK ==
  /\ DOMAIN held = LiveIn(Heap)
  /\ \A p \in DOMAIN held : At(Heap, p).size >= held[p]

GcInv ==
  /\ GoodHeap(Heap)
  /\ HeldOK
  /\ Counted(Heap, live_blocks, live_bytes)
  /\ WordsOK
  /\ GcTypeOK /\ verdict \in {"none", "freed", "invalid", "double"}
  /\ collects \in BOOLEAN
  /\ collects => pinned = Fixed(Heap)
  /\ ~collects => Fixed(Heap) = LiveIn(Heap)

LEMMA HeapNow ==
  /\ Heap.hdr = hdr /\ Heap.maps = maps /\ Heap.marks = marks /\ Heap.since = since
  /\ Live = LiveIn(Heap) /\ \A p : SizeAt(p) = At(Heap, p).size
  BY DEF Heap, Live, LiveIn, SizeAt, At

LEMMA LiveFinite ==
  ASSUME NEW H, GoodHeap(H)
  PROVE  IsFiniteSet(LiveIn(H))
<1>1. ARENA \in Nat /\ IsFiniteSet(Mappings)
  BY AllocAssumption
<1>2. IsFiniteSet(0 .. ARENA)
  BY <1>1, FS_Interval
<1>3. IsFiniteSet(Pointers)
  BY <1>1, <1>2, FS_Union DEF Pointers
<1>4. LiveIn(H) \subseteq Pointers
  BY LiveIs
<1> QED BY <1>3, <1>4, FS_Subset

\* One block more.
LEMMA CountedAdd ==
  ASSUME NEW H, GoodHeap(H), NEW G, GoodHeap(G), NEW p, p \notin LiveIn(H),
         LiveIn(G) = LiveIn(H) \cup {p}, \A x \in LiveIn(H) : At(G, x) = At(H, x),
         NEW k, NEW n, NEW l, NEW m, Counted(H, k, n), Counted(G, l, m)
  PROVE  /\ k \in Nat /\ n \in Nat /\ l \in Nat /\ m \in Nat
         /\ l = k + 1 /\ m = n + At(G, p).size
<1> DEFINE s == [x \in LiveIn(H) |-> At(H, x).size]
           t == [x \in LiveIn(G) |-> At(G, x).size]
<1>1. IsFiniteSet(LiveIn(H)) /\ IsFiniteSet(LiveIn(G))
  BY LiveFinite
<1>2. l = k + 1 /\ k \in Nat
  BY <1>1, FS_AddElement, FS_CardinalityType DEF Counted
<1>3. /\ DOMAIN s = LiveIn(H) /\ \A x \in DOMAIN s : s[x] \in Nat
      /\ DOMAIN t = LiveIn(G) /\ \A x \in DOMAIN t : t[x] \in Nat
  BY LiveIs
<1>4. DOMAIN s = DOMAIN t \ {p} /\ p \in DOMAIN t /\ \A x \in DOMAIN s : s[x] = t[x]
  OBVIOUS
<1>5. t[p] = At(G, p).size
  OBVIOUS
<1>6. n = SumFunction(s) /\ m = SumFunction(t)
  BY DEF Counted
<1> HIDE DEF s, t
<1>7. n \in Nat
  BY <1>1, <1>3, <1>6, SumNat
<1>8. m = t[p] + n
  BY <1>1, <1>3, <1>4, <1>6, SumAdd
<1> QED BY <1>2, <1>3, <1>4, <1>5, <1>7, <1>8

\* The counters are numbers.
LEMMA CountedNat ==
  ASSUME NEW H, GoodHeap(H), NEW k, NEW n, Counted(H, k, n)
  PROVE  k \in Nat /\ n \in Nat
<1> DEFINE s == [x \in LiveIn(H) |-> At(H, x).size]
<1>1. IsFiniteSet(LiveIn(H))
  BY LiveFinite
<1>2. DOMAIN s = LiveIn(H) /\ \A x \in DOMAIN s : s[x] \in Nat
  BY LiveIs
<1>3. n = SumFunction(s) /\ k = Cardinality(LiveIn(H))
  BY DEF Counted
<1> HIDE DEF s
<1> QED BY <1>1, <1>2, <1>3, SumNat, FS_CardinalityType

\* The invariant is what is promised of the heap, and more.
LEMMA InvIsSound ==
  ASSUME GcInv
  PROVE  HeapSound
<1> USE DEF GcInv
<1>1. GoodHeap(Heap) /\ ArenaOK(hdr) /\ MapsOK(maps)
  BY HeapNow DEF GoodHeap
<1>2. TypeOK
  <2>1. DOMAIN hdr \subseteq 0 .. ARENA - 1 /\ \A o \in DOMAIN hdr : hdr[o] \in Header
    BY <1>1 DEF ArenaOK, Sound, Tile
  <2>2. DOMAIN maps \subseteq Mappings /\ \A p \in DOMAIN maps : maps[p].free = FALSE
    <3>1. \A p \in DOMAIN maps : maps[p].free = FALSE
      <4> SUFFICES ASSUME NEW p \in DOMAIN maps PROVE maps[p].free = FALSE
        OBVIOUS
      <4>1. ~maps[p].free
        BY <1>1 DEF MapsOK
      <4> QED BY <4>1
    <3> QED BY <1>1, <3>1 DEF MapsOK
  <2>3. live_blocks \in Nat /\ live_bytes \in Nat
    BY <1>1, CountedNat
  <2>4. DOMAIN held \subseteq Pointers
    BY <1>1, LiveIs DEF HeldOK
  <2> QED BY <2>1, <2>2, <2>3, <2>4 DEF TypeOK
<1>3. Tiled
  <2> SUFFICES ASSUME DOMAIN hdr # {}
               PROVE  /\ 0 \in DOMAIN hdr
                      /\ \A o \in DOMAIN hdr :
                           /\ NextOf(hdr, o) = ARENA \/ NextOf(hdr, o) \in DOMAIN hdr
                           /\ \A x \in o + 1 .. NextOf(hdr, o) - 1 : x \notin DOMAIN hdr
    BY DEF Tiled
  <2>1. Tile(hdr)
    BY <1>1 DEF ArenaOK, Sound
  <2>2. ASSUME NEW o \in DOMAIN hdr, NEW x \in o + 1 .. NextOf(hdr, o) - 1, x \in DOMAIN hdr PROVE FALSE
    <3>1. o \in Nat
      BY <2>1, HeaderIs
    <3>2. NextOf(hdr, o) \in Nat /\ (o < x => NextOf(hdr, o) <= x)
      BY <2>1, <2>2, NextIs
    <3> QED BY <2>2, <3>1, <3>2
  <2> QED BY <2>1, <2>2 DEF Tile
<1>4. Coalesced
  BY <1>1 DEF ArenaOK, Sound, Merged, Coalesced
<1>5. HeldIsLive
  BY HeapNow DEF HeldOK, HeldIsLive
<1>6. StatsExact
  BY HeapNow DEF Counted, StatsExact
<1>7. GcTypeOK
  OBVIOUS
<1> QED BY <1>2, <1>3, <1>4, <1>5, <1>6, <1>7 DEF HeapSound

-----------------------------------------------------------------------------
(* The steps *)

\* What a step leaves in order: all but the fields a step sets by itself.
HeapInv ==
  /\ GoodHeap(Heap) /\ HeldOK /\ Counted(Heap, live_blocks, live_bytes)
  /\ DOMAIN word = LiveIn(Heap) /\ \A p \in DOMAIN word : word[p] \in Int

\* What Give and ForeignAlloc do to the blocks.
Gives(G, p, n) ==
  /\ Become(G)
  /\ held' = [x \in LiveIn(G) |-> IF x = p THEN n ELSE held[x]]
  /\ word' = [x \in LiveIn(G) |-> IF x = p THEN 0 ELSE word[x]]

LEMMA HeapBecomes ==
  ASSUME NEW G, GoodHeap(G), hdr' = G.hdr, maps' = G.maps, marks' = G.marks, since' = G.since
  PROVE  Heap' = G
  BY DEF Heap, GoodHeap

LEMMA GivesOK ==
  ASSUME HeapInv, NEW G, NEW p, NEW n \in Nat, NEW f, Turned(Heap, G, p, n, f), Gives(G, p, n)
  PROVE  HeapInv' /\ Heap' = G
<1>1. GoodHeap(G) /\ 0 \notin LiveIn(G)
  BY LiveIs DEF Turned
<1>2. Heap' = G
  BY <1>1, HeapBecomes DEF Gives, Become
<1>3. \A x \in LiveIn(G) : x # p => x \in LiveIn(Heap) /\ At(G, x) = At(Heap, x)
  BY DEF Turned
<1>4. ASSUME NEW x \in LiveIn(G) PROVE At(G, x).size >= held'[x]
  <2>1. CASE x = p
    <3>1. At(G, p).size >= n /\ held'[x] = n
      BY <1>1, <1>4, <2>1 DEF Turned, Gives
    <3> QED BY <2>1, <3>1
  <2>2. CASE x # p
    <3>1. held'[x] = held[x] /\ At(Heap, x).size >= held[x] /\ At(G, x) = At(Heap, x)
      BY <1>3, <1>4, <2>2 DEF Gives, HeapInv, HeldOK
    <3> QED BY <3>1
  <2> QED BY <2>1, <2>2
<1>5. HeldOK'
  <2>1. DOMAIN held' = LiveIn(G)
    BY DEF Gives
  <2> QED BY <1>2, <1>4, <2>1 DEF HeldOK
<1>6. Counted(Heap, live_blocks, live_bytes)'
  BY <1>2 DEF Gives, Become, Counted
<1>7. DOMAIN word' = LiveIn(G) /\ \A x \in DOMAIN word' : word'[x] \in Int
  BY <1>3 DEF Gives, HeapInv
<1> QED BY <1>1, <1>2, <1>5, <1>6, <1>7 DEF HeapInv

\* Which blocks no collection takes, after an allocation.
LEMMA FixedTurned ==
  ASSUME NEW H, GoodHeap(H), NEW G, NEW p, NEW n, NEW f, Turned(H, G, p, n, f)
  PROVE  /\ f = "none" => Fixed(G) = Fixed(H) \cup ({p} \ {0})
         /\ f # "none" \/ p = 0 => Fixed(G) = Fixed(H)
<1>1. GoodHeap(G) /\ 0 \notin LiveIn(G)
  BY LiveIs DEF Turned
<1>2. \A x \in LiveIn(G) \ {p} : x \in LiveIn(H) /\ At(G, x) = At(H, x)
  BY DEF Turned
<1>3. \A x \in Fixed(H) : x \in LiveIn(G) /\ x # p
  BY DEF Turned
<1>4. p # 0 => p \in LiveIn(G) /\ At(G, p).flags = f
  BY DEF Turned
<1>5. \A x \in LiveIn(G) : x \in Fixed(G) <=> At(G, x).flags = "none"
  BY DEF Fixed, Collectable
<1>6. \A x \in LiveIn(H) : x \in Fixed(H) <=> At(H, x).flags = "none"
  BY DEF Fixed, Collectable
<1>7. Fixed(G) \subseteq LiveIn(G) /\ Fixed(H) \subseteq LiveIn(H)
  BY DEF Fixed
<1>8. \A x : x # p => (x \in Fixed(G) <=> x \in Fixed(H))
  BY <1>2, <1>3, <1>5, <1>6, <1>7
<1>9. p \in Fixed(G) <=> p # 0 /\ f = "none"
  BY <1>1, <1>4, <1>5, <1>7
<1>10. p \notin Fixed(H)
  BY <1>3
<1> QED BY <1>8, <1>9, <1>10

\* The size of a block counts towards the next collection.
LEMMA SinceTurned ==
  ASSUME NEW H, GoodHeap(H), NEW G, NEW p, NEW n, NEW f, Turned(H, G, p, n, f),
         NEW k \in Nat, NEW K, K = [G EXCEPT !.since = k]
  PROVE  Turned(H, K, p, n, f)
<1>1. GoodHeap(G)
  BY DEF Turned
<1>2. K = [hdr |-> G.hdr, maps |-> G.maps, marks |-> G.marks, since |-> k]
  BY <1>1, HeapEdited
<1>3. K.hdr = G.hdr /\ K.maps = G.maps /\ GoodHeap(K)
  BY <1>1, <1>2 DEF GoodHeap
<1>4. LiveIn(K) = LiveIn(G) /\ \A x : At(K, x) = At(G, x)
  BY <1>3 DEF LiveIn, At
<1> QED BY <1>3, <1>4 DEF Turned

\* The counters when a block is added, and when one is taken off.
LEMMA CountedMore ==
  ASSUME NEW H, GoodHeap(H), NEW G, GoodHeap(G), NEW p, p \notin LiveIn(H),
         LiveIn(G) = LiveIn(H) \cup {p}, \A x \in LiveIn(H) : At(G, x) = At(H, x),
         NEW k, NEW n, Counted(H, k, n), NEW s, s = At(G, p).size
  PROVE  Counted(G, k + 1, n + s)
<1> DEFINE l == Cardinality(LiveIn(G))
           m == SumFunction([x \in LiveIn(G) |-> At(G, x).size])
<1>1. Counted(G, l, m)
  BY DEF Counted
<1> HIDE DEF l, m
<1>2. l = k + 1 /\ m = n + s
  BY <1>1, CountedAdd
<1> QED BY <1>1, <1>2

LEMMA CountedLess ==
  ASSUME NEW H, GoodHeap(H), NEW G, GoodHeap(G), NEW p, p \notin LiveIn(H),
         LiveIn(G) = LiveIn(H) \cup {p}, \A x \in LiveIn(H) : At(G, x) = At(H, x),
         NEW l, NEW m, Counted(G, l, m), NEW s, s = At(G, p).size
  PROVE  Counted(H, l - 1, m - s)
<1> DEFINE k == Cardinality(LiveIn(H))
           n == SumFunction([x \in LiveIn(H) |-> At(H, x).size])
<1>1. Counted(H, k, n)
  BY DEF Counted
<1> HIDE DEF k, n
<1>2. k \in Nat /\ n \in Nat /\ l = k + 1 /\ m = n + s
  BY <1>1, CountedAdd
<1>3. s \in Nat
  BY LiveIs
<1>4. l - 1 = k /\ m - s = n
  BY <1>2, <1>3
<1> QED BY <1>1, <1>4

\* The heap alone, for the calls of a program without the collector.
BlocksInv == GoodHeap(Heap) /\ HeldOK /\ Counted(Heap, live_blocks, live_bytes)

LEMMA AddsBlock ==
  ASSUME BlocksInv, NEW G, NEW p, NEW n, Turned(Heap, G, p, n, "none"),
         LiveIn(G) = LiveIn(Heap) \cup {p}, p \notin LiveIn(Heap), p # 0,
         Heap' = G, held' = With(held, p, n), NEW s, s = At(G, p).size,
         live_blocks' = live_blocks + 1, live_bytes' = live_bytes + s
  PROVE  BlocksInv' /\ (Fixed(Heap) = LiveIn(Heap) => Fixed(Heap') = LiveIn(Heap'))
<1>1. GoodHeap(Heap) /\ GoodHeap(G) /\ \A x \in LiveIn(Heap) : At(G, x) = At(Heap, x)
  BY DEF Turned, BlocksInv
<1>2. Counted(G, live_blocks', live_bytes')
  BY <1>1, CountedMore DEF BlocksInv
<1>3. Counted(Heap, live_blocks, live_bytes)'
  BY <1>2
<1>4. DOMAIN held' = LiveIn(G) /\ held'[p] = n /\ \A x \in LiveIn(Heap) : held'[x] = held[x]
  BY DEF With, BlocksInv, HeldOK
<1>5. At(G, p).size >= n
  BY DEF Turned
<1>6. \A x \in LiveIn(Heap) : At(Heap, x).size >= held[x]
  BY DEF BlocksInv, HeldOK
<1>7. ASSUME NEW x \in LiveIn(G) PROVE At(G, x).size >= held'[x]
  <2>1. CASE x = p
    BY <1>4, <1>5, <2>1
  <2>2. CASE x # p
    <3>1. x \in LiveIn(Heap)
      BY <1>7, <2>2
    <3>2. held'[x] = held[x] /\ At(Heap, x).size >= held[x] /\ At(G, x) = At(Heap, x)
      BY <1>1, <1>4, <1>6, <3>1
    <3> QED BY <3>2
  <2> QED BY <2>1, <2>2
<1>8. HeldOK'
  BY <1>4, <1>7 DEF HeldOK
<1>9. Fixed(G) = Fixed(Heap) \cup {p}
  <2>1. Fixed(G) = Fixed(Heap) \cup ({p} \ {0})
    BY <1>1, FixedTurned
  <2> QED BY <2>1
<1> QED BY <1>1, <1>3, <1>8, <1>9 DEF BlocksInv

LEMMA MallocOK ==
  ASSUME BlocksInv, NEW n, Asked(Units(n)), Malloc(n), marks' = marks, since' = since
  PROVE  BlocksInv' /\ (Fixed(Heap) = LiveIn(Heap) => Fixed(Heap') = LiveIn(Heap'))
<1> DEFINE u == Units(n)
<1>0. GoodHeap(Heap) /\ Heap.hdr = hdr /\ Heap.maps = maps
  BY HeapNow DEF BlocksInv
<1>1. ASSUME NEW p \in Pointers, ArenaAlloc(u, "none", p), held' = With(held, p, u)
      PROVE  BlocksInv' /\ (Fixed(Heap) = LiveIn(Heap) => Fixed(Heap') = LiveIn(Heap'))
  <2> DEFINE o == p - 1
             G == [Heap EXCEPT !.hdr = Taken(Booted(Heap.hdr), o, u, "none")]
  <2>1. o \in FirstFit(Booted(Heap.hdr), u)
    BY <1>0, <1>1 DEF ArenaAlloc
  <2>2. Turned(Heap, G, o + 1, u, "none") /\ LiveIn(G) = LiveIn(Heap) \cup {o + 1} /\ o + 1 \notin LiveIn(Heap)
    BY <1>0, <2>1, TakesFit DEF Flags
  <2>3. p \in Int
    BY AllocAssumption DEF Pointers
  <2>4. o + 1 = p
    BY <2>3
  <2>5. Heap' = G
    <3>1. Taken(Booted(Heap.hdr), o, u, "none") = hdr'
      BY <1>0, <1>1 DEF ArenaAlloc
    <3> HIDE DEF o
    <3>2. G = [hdr |-> hdr', maps |-> Heap.maps, marks |-> Heap.marks, since |-> Heap.since]
      BY <1>0, <3>1, HeapEdited
    <3> QED BY <1>1, <3>2, HeapNow DEF ArenaAlloc, Heap
  <2> HIDE DEF G
  <2>6. GoodHeap(G) /\ p \in LiveIn(G) /\ p # 0
    <3>1. GoodHeap(G)
      BY <2>2 DEF Turned
    <3> QED BY <2>2, <2>4, <3>1, LiveIs
  <2>7. At(G, p) = hdr'[o]
    <3>1. p \notin DOMAIN G.maps
      <4>1. p \notin LiveIn(Heap)
        BY <2>2, <2>4
      <4>2. G.maps = maps
        BY <1>1, <2>5 DEF ArenaAlloc, Heap
      <4> QED BY <1>0, <4>1, <4>2, LiveIs
    <3>2. G.hdr = hdr'
      BY <2>5 DEF Heap
    <3> QED BY <3>1, <3>2 DEF At
  <2>8. live_blocks' = live_blocks + 1 /\ live_bytes' = live_bytes + hdr'[o].size
    BY <1>1 DEF ArenaAlloc
  <2> HIDE DEF o, u
  <2> QED BY <1>1, <2>2, <2>4, <2>5, <2>6, <2>7, <2>8, AddsBlock
<1>2. ASSUME NEW p \in Pointers, MapAlloc(u, "none", p), held' = With(held, p, u)
      PROVE  BlocksInv' /\ (Fixed(Heap) = LiveIn(Heap) => Fixed(Heap') = LiveIn(Heap'))
  <2> DEFINE b == [size |-> u, free |-> FALSE, flags |-> "none"]
             G == [Heap EXCEPT !.maps = With(@, p, b)]
  <2>1. p \in Mappings /\ p \notin DOMAIN Heap.maps /\ u > THRESHOLD
    BY <1>0, <1>2 DEF MapAlloc
  <2>2. Turned(Heap, G, p, u, "none") /\ LiveIn(G) = LiveIn(Heap) \cup {p} /\ p \notin LiveIn(Heap)
    <3>1. Asked(u) /\ "none" \in Flags
      BY DEF Flags
    <3> HIDE DEF u
    <3> QED BY <1>0, <2>1, <3>1, TakesMapping
  <2>3. Heap' = G
    <3>1. With(Heap.maps, p, b) = maps'
      BY <1>0, <1>2 DEF MapAlloc
    <3> HIDE DEF b
    <3>2. G = [hdr |-> Heap.hdr, maps |-> maps', marks |-> Heap.marks, since |-> Heap.since]
      BY <1>0, <3>1, HeapEdited
    <3> QED BY <1>2, <3>2, HeapNow DEF MapAlloc, Heap
  <2> HIDE DEF G
  <2>4. GoodHeap(G) /\ p \in LiveIn(G) /\ p # 0
    <3>1. GoodHeap(G)
      BY <2>2 DEF Turned
    <3> QED BY <2>2, <3>1, LiveIs
  <2>5. At(G, p) = b
    <3>1. G.maps = With(maps, p, b)
      BY <1>2, <2>3 DEF MapAlloc, Heap
    <3> HIDE DEF b
    <3> QED BY <3>1 DEF At, With
  <2>6. u = At(G, p).size
    BY <2>5
  <2>7. live_blocks' = live_blocks + 1 /\ live_bytes' = live_bytes + u
    BY <1>2 DEF MapAlloc
  <2> HIDE DEF u
  <2> QED BY <1>2, <2>2, <2>3, <2>4, <2>6, <2>7, AddsBlock
<1>3. ASSUME hdr' = Booted(hdr), maps' = maps, live_blocks' = live_blocks, live_bytes' = live_bytes,
             held' = held
      PROVE  BlocksInv' /\ (Fixed(Heap) = LiveIn(Heap) => Fixed(Heap') = LiveIn(Heap'))
  <2>1. /\ ArenaOK(hdr') /\ InUse(hdr') = InUse(hdr) /\ \A o \in InUse(hdr) : hdr'[o] = hdr[o]
    BY <1>0, <1>3, BootedOK DEF GoodHeap, ArenaOK
  <2>2. Heap' = [hdr |-> hdr', maps |-> maps, marks |-> {}, since |-> since] /\ since \in Nat
    BY <1>0, <1>3 DEF Heap, GoodHeap
  <2>3. Kept(Heap, Heap')
    <3>1. \A p \in Fixed(Heap) : p \in DOMAIN maps \/ p - 1 \in InUse(hdr')
      BY <1>0, <2>1, LiveIs DEF Fixed
    <3> DEFINE v == hdr'
    <3> HIDE DEF v
    <3>2. ArenaOK(v) /\ InUse(v) \subseteq InUse(Heap.hdr) /\ (\A o \in InUse(v) : v[o] = Heap.hdr[o])
          /\ \A p \in Fixed(Heap) : p \in DOMAIN maps \/ p - 1 \in InUse(v)
      BY <1>0, <2>1, <3>1 DEF v
    <3>3. Heap' = [hdr |-> v, maps |-> maps, marks |-> {}, since |-> since]
      BY <2>2 DEF v
    <3> QED BY <1>0, <2>2, <3>2, <3>3, NewArena
  <2>4. Turned(Heap, Heap', 0, 0, "none")
    BY <2>3 DEF Kept
  <2>5. LiveIn(Heap') = LiveIn(Heap) /\ \A x \in LiveIn(Heap) : At(Heap', x) = At(Heap, x)
    <3>1. Heap'.hdr = hdr' /\ Heap'.maps = maps
      BY <1>3 DEF Heap
    <3>2. LiveIn(Heap') = LiveIn(Heap)
      BY <1>0, <2>1, <3>1 DEF LiveIn, InUse
    <3>3. 0 \notin LiveIn(Heap)
      BY <1>0, LiveIs
    <3> QED BY <2>4, <3>2, <3>3 DEF Turned
  <2>6. HeldOK'
    BY <1>3, <2>5 DEF BlocksInv, HeldOK
  <2>7. Counted(Heap, live_blocks, live_bytes)'
    <3>1. [p \in LiveIn(Heap') |-> At(Heap', p).size] = [p \in LiveIn(Heap) |-> At(Heap, p).size]
      BY <2>5
    <3> QED BY <1>3, <2>5, <3>1 DEF BlocksInv, Counted
  <2>8. Fixed(Heap') = Fixed(Heap)
    BY <1>0, <2>4, FixedTurned
  <2> QED BY <2>4, <2>5, <2>6, <2>7, <2>8 DEF BlocksInv, Turned
<1> QED BY <1>1, <1>2, <1>3 DEF Malloc

\* A block goes back to the arena, or to the kernel.
LEMMA DropsBlock ==
  ASSUME BlocksInv, NEW p, p \in LiveIn(Heap), NEW h, ArenaOK(h), NEW m, MapsOK(m),
         NEW G, G = [hdr |-> h, maps |-> m, marks |-> {}, since |-> since],
         \A x \in LiveIn(Heap) \ {p} : x \in LiveIn(G) /\ At(G, x) = At(Heap, x),
         LiveIn(G) \subseteq LiveIn(Heap) \ {p},
         Heap' = G, held' = Without(held, {p}), NEW s, s = At(Heap, p).size,
         live_blocks' = live_blocks - 1, live_bytes' = live_bytes - s
  PROVE  BlocksInv' /\ LiveIn(Heap') = LiveIn(Heap) \ {p}
<1>1. GoodHeap(Heap) /\ GoodHeap(G)
  <2>1. G.hdr = h /\ G.maps = m /\ G.marks = {} /\ G.since = since
    OBVIOUS
  <2>2. since \in Nat
    BY HeapNow DEF BlocksInv, GoodHeap
  <2> QED BY <2>1, <2>2 DEF BlocksInv, GoodHeap
<1>2. LiveIn(G) = LiveIn(Heap) \ {p}
  OBVIOUS
<1>3. Counted(G, live_blocks', live_bytes')
  <2>1. p \notin LiveIn(G) /\ LiveIn(Heap) = LiveIn(G) \cup {p} /\ \A x \in LiveIn(G) : At(Heap, x) = At(G, x)
    BY <1>2
  <2> QED BY <1>1, <2>1, CountedLess DEF BlocksInv
<1>4. Counted(Heap, live_blocks, live_bytes)'
  BY <1>3
<1>5. DOMAIN held' = LiveIn(G) /\ \A x \in LiveIn(G) : held'[x] = held[x]
  BY <1>2 DEF Without, BlocksInv, HeldOK
<1>6. \A x \in LiveIn(Heap) : At(Heap, x).size >= held[x]
  BY DEF BlocksInv, HeldOK
<1>7. HeldOK'
  <2>1. ASSUME NEW x \in LiveIn(G) PROVE At(G, x).size >= held'[x]
    <3>1. x \in LiveIn(Heap) /\ At(G, x) = At(Heap, x)
      BY <1>2
    <3>2. At(Heap, x).size >= held[x] /\ held'[x] = held[x]
      BY <1>5, <1>6, <3>1
    <3> QED BY <3>1, <3>2
  <2> QED BY <1>5, <2>1 DEF HeldOK
<1> QED BY <1>1, <1>2, <1>4, <1>7 DEF BlocksInv

LEMMA FreeOK ==
  ASSUME BlocksInv, NEW p \in Pointers, Free(p), marks' = marks \ {p}, since' = since
  PROVE  BlocksInv' /\ LiveIn(Heap') = LiveIn(Heap) \ {p} /\ \A x \in LiveIn(Heap') : At(Heap', x) = At(Heap, x)
<1>0. GoodHeap(Heap) /\ Heap.hdr = hdr /\ Heap.maps = maps /\ marks = {}
  BY HeapNow DEF BlocksInv, GoodHeap
<1>1. Heap' = [hdr |-> hdr', maps |-> maps', marks |-> {}, since |-> since]
  BY <1>0 DEF Heap
<1>2. held' = Without(held, {p})
  BY DEF Free
<1>3. p \in Int
  BY AllocAssumption DEF Pointers
<1>4. CASE ReleaseMap(p)
  <2> DEFINE m == Without(maps, {p})
             G == [hdr |-> hdr, maps |-> m, marks |-> {}, since |-> since]
  <2>1. Heap' = G
    BY <1>1, <1>4 DEF ReleaseMap
  <2>2. DOMAIN m = DOMAIN maps \ {p} /\ \A x \in DOMAIN m : m[x] = maps[x]
    BY DEF Without
  <2>3. p \in LiveIn(Heap) /\ At(Heap, p) = maps[p]
    BY <1>0, <1>4, LiveIs DEF ReleaseMap
  <2> HIDE DEF m
  <2>4. MapsOK(m) /\ ArenaOK(hdr)
    BY <1>0, <2>2 DEF GoodHeap, MapsOK
  <2>5. G.hdr = hdr /\ G.maps = m /\ GoodHeap(G)
    <3>1. G.hdr = hdr /\ G.maps = m /\ G.marks = {} /\ G.since = since
      OBVIOUS
    <3>2. since \in Nat
      BY <1>0, HeapNow DEF GoodHeap
    <3> QED BY <2>4, <3>1, <3>2 DEF GoodHeap
  <2> HIDE DEF G
  <2>6. ASSUME NEW x \in LiveIn(Heap) \ {p} PROVE x \in LiveIn(G) /\ At(G, x) = At(Heap, x)
    <3>1. CASE x \in DOMAIN maps
      <4>1. x \in DOMAIN m /\ m[x] = maps[x]
        BY <2>2, <2>6, <3>1
      <4>2. x \in LiveIn(G) /\ At(G, x) = m[x]
        BY <2>5, <4>1, LiveIs
      <4>3. At(Heap, x) = maps[x]
        BY <1>0, <3>1, LiveIs
      <4> QED BY <4>1, <4>2, <4>3
    <3>2. CASE x \notin DOMAIN maps
      <4>1. x - 1 \in InUse(hdr) /\ x = (x - 1) + 1
        BY <1>0, <2>6, <3>2, LiveIs
      <4>2. (x - 1) + 1 \in LiveIn(G) /\ At(G, (x - 1) + 1) = hdr[x - 1]
        BY <2>5, <4>1, LiveIs
      <4>3. At(Heap, (x - 1) + 1) = hdr[x - 1]
        BY <1>0, <4>1, LiveIs
      <4> QED BY <4>1, <4>2, <4>3
    <3> QED BY <3>1, <3>2
  <2>7. ASSUME NEW x \in LiveIn(G) PROVE x \in LiveIn(Heap) /\ x # p
    <3>1. CASE x \in DOMAIN m
      BY <1>0, <2>2, <3>1, LiveIs
    <3>2. CASE x \notin DOMAIN m
      <4>1. x - 1 \in InUse(hdr) /\ x = (x - 1) + 1
        BY <2>5, <2>7, <3>2, LiveIs
      <4>2. (x - 1) + 1 \in LiveIn(Heap)
        BY <1>0, <4>1, LiveIs
      <4>3. Tile(hdr) /\ x - 1 \in DOMAIN hdr
        BY <1>0, <4>1 DEF GoodHeap, ArenaOK, Sound, InUse
      <4>4. x - 1 \in Nat /\ x - 1 < ARENA /\ ARENA \in Nat
        BY <4>3, HeaderIs
      <4>5. p \in Mappings
        BY <1>0, <1>4 DEF ReleaseMap, GoodHeap, MapsOK
      <4>6. p \notin 0 .. ARENA
        BY <4>5, AllocAssumption
      <4> QED BY <4>1, <4>2, <4>4, <4>6, <1>3
    <3> QED BY <3>1, <3>2
  <2>8. live_blocks' = live_blocks - 1 /\ live_bytes' = live_bytes - maps[p].size
    BY <1>4 DEF ReleaseMap
  <2>9. BlocksInv' /\ LiveIn(Heap') = LiveIn(Heap) \ {p}
    BY <1>2, <2>1, <2>3, <2>4, <2>6, <2>7, <2>8, DropsBlock DEF G
  <2> QED BY <2>1, <2>6, <2>9
<1>5. CASE ReleaseArena(p)
  <2> DEFINE o == p - 1
             h == Released(hdr, o)
             G == [hdr |-> h, maps |-> maps, marks |-> {}, since |-> since]
  <2>1. Heap' = G
    BY <1>1, <1>5 DEF ReleaseArena
  <2>2. o \in InUse(hdr) /\ p = o + 1 /\ p \notin DOMAIN maps
    BY <1>3, <1>5 DEF ReleaseArena, ArenaBlockOf, InUse
  <2> HIDE DEF o
  <2>3. Sound(hdr)
    BY <1>0, <2>2 DEF GoodHeap, ArenaOK, InUse
  <2>4. Sound(h) /\ InUse(h) = InUse(hdr) \ {o} /\ \A x \in InUse(hdr) \ {o} : h[x] = hdr[x]
    BY <2>2, <2>3, ReleasedOK
  <2>5. p \in LiveIn(Heap) /\ At(Heap, p) = hdr[o]
    BY <1>0, <2>2, LiveIs
  <2> HIDE DEF h
  <2>6. ArenaOK(h) /\ MapsOK(maps)
    BY <1>0, <2>4 DEF GoodHeap, ArenaOK
  <2>7. G.hdr = h /\ G.maps = maps /\ GoodHeap(G)
    <3>1. G.hdr = h /\ G.maps = maps /\ G.marks = {} /\ G.since = since
      OBVIOUS
    <3>2. since \in Nat
      BY <1>0, HeapNow DEF GoodHeap
    <3> QED BY <2>6, <3>1, <3>2 DEF GoodHeap
  <2> HIDE DEF G
  <2>8. ASSUME NEW x \in LiveIn(Heap) \ {p} PROVE x \in LiveIn(G) /\ At(G, x) = At(Heap, x)
    <3>1. CASE x \in DOMAIN maps
      <4>1. x \in LiveIn(G) /\ At(G, x) = maps[x]
        BY <2>7, <3>1, LiveIs
      <4>2. At(Heap, x) = maps[x]
        BY <1>0, <3>1, LiveIs
      <4> QED BY <4>1, <4>2
    <3>2. CASE x \notin DOMAIN maps
      <4>1. x - 1 \in InUse(hdr) /\ x = (x - 1) + 1
        BY <1>0, <2>8, <3>2, LiveIs
      <4>2. x - 1 # o
        BY <2>2, <2>8, <4>1
      <4>3. x - 1 \in InUse(h) /\ h[x - 1] = hdr[x - 1]
        BY <2>4, <4>1, <4>2
      <4>4. (x - 1) + 1 \in LiveIn(G) /\ At(G, (x - 1) + 1) = h[x - 1]
        BY <2>7, <4>3, LiveIs
      <4>5. At(Heap, (x - 1) + 1) = hdr[x - 1]
        BY <1>0, <4>1, LiveIs
      <4> QED BY <4>1, <4>3, <4>4, <4>5
    <3> QED BY <3>1, <3>2
  <2>9. ASSUME NEW x \in LiveIn(G) PROVE x \in LiveIn(Heap) /\ x # p
    <3>1. CASE x \in DOMAIN maps
      BY <1>0, <2>2, <3>1, LiveIs
    <3>2. CASE x \notin DOMAIN maps
      <4>1. x - 1 \in InUse(h) /\ x = (x - 1) + 1
        BY <2>7, <2>9, <3>2, LiveIs
      <4>2. x - 1 \in InUse(hdr) /\ x - 1 # o
        BY <2>4, <4>1
      <4>3. (x - 1) + 1 \in LiveIn(Heap)
        BY <1>0, <4>2, LiveIs
      <4>4. p - 1 = o
        BY DEF o
      <4> QED BY <4>1, <4>2, <4>3, <4>4
    <3> QED BY <3>1, <3>2
  <2>10. live_blocks' = live_blocks - 1 /\ live_bytes' = live_bytes - hdr[o].size
    BY <1>5 DEF ReleaseArena, o
  <2>11. BlocksInv' /\ LiveIn(Heap') = LiveIn(Heap) \ {p}
    BY <1>2, <2>1, <2>5, <2>6, <2>8, <2>9, <2>10, DropsBlock DEF G
  <2> QED BY <2>1, <2>8, <2>11
<1>6. CASE Refuse(p)
  <2>1. p \notin LiveIn(Heap)
    <3> SUFFICES ASSUME p \in LiveIn(Heap) PROVE FALSE
      OBVIOUS
    <3>1. p \notin DOMAIN maps
      BY <1>6 DEF Refuse
    <3> DEFINE o == p - 1
    <3>2. o \in InUse(hdr) /\ p = o + 1
      BY <1>0, <3>1, LiveIs
    <3> HIDE DEF o
    <3>3. Tile(hdr) /\ o \in DOMAIN hdr /\ ~hdr[o].free
      BY <1>0, <3>2 DEF GoodHeap, ArenaOK, Sound, InUse
    <3>4. /\ o \in Nat /\ ARENA \in Nat /\ hdr[o].size \in Nat
          /\ NextOf(hdr, o) = o + 1 + hdr[o].size /\ NextOf(hdr, o) <= ARENA
          /\ NextOf(hdr, o) = ARENA \/ NextOf(hdr, o) \in DOMAIN hdr
      BY <3>3, HeaderIs, NextIs
    <3>5. NextOf(hdr, o) = p + hdr[o].size
      BY <3>2, <3>4
    <3>6. hdr[o].size <= ARENA - p /\ (p + hdr[o].size < ARENA => p + hdr[o].size \in DOMAIN hdr)
      BY <1>3, <3>4, <3>5
    <3>7. ArenaBlockOf(hdr, p)
      BY <3>3, <3>6 DEF ArenaBlockOf, o
    <3> QED BY <1>6, <3>3, <3>7 DEF Refuse, o
  <2>2. Heap' = Heap
    BY <1>0, <1>1, <1>6 DEF Refuse, Heap
  <2>3. live_blocks' = live_blocks /\ live_bytes' = live_bytes
    BY <1>6 DEF Refuse
  <2>4. DOMAIN held' = LiveIn(Heap) /\ \A x \in LiveIn(Heap) : held'[x] = held[x]
    BY <1>2, <2>1 DEF Without, BlocksInv, HeldOK
  <2>5. HeldOK'
    BY <2>2, <2>4 DEF BlocksInv, HeldOK
  <2> QED BY <2>1, <2>2, <2>3, <2>5 DEF BlocksInv
<1> QED BY <1>4, <1>5, <1>6 DEF Free

\* The other variables.
RestInv ==
  /\ stack \subseteq Int /\ region \in [Regions -> Int]
  /\ owner \in Threads \cup {NoOne} /\ hook \in BOOLEAN
  /\ disabled \in 0 .. MaxDisabled
  /\ roots \in [Slots -> Regions \cup {NoRegion}]
  /\ verdict \in {"none", "freed", "invalid", "double"}
  /\ collects \in BOOLEAN
  /\ collects => pinned = Fixed(Heap)
  /\ ~collects => Fixed(Heap) = LiveIn(Heap)

LEMMA InvParts == GcInv <=> HeapInv /\ RestInv
<1>1. GcInv => HeapInv /\ RestInv
  <2>1. GcInv => HeapInv
    BY DEF GcInv, HeapInv, WordsOK
  <2>2. GcInv => RestInv
    BY DEF GcInv, RestInv, GcTypeOK, WordsOK
  <2> QED BY <2>1, <2>2
<1>2. HeapInv /\ RestInv => GcInv
  <2>1. HeapInv => since \in Nat
    BY HeapNow DEF HeapInv, GoodHeap
  <2> QED BY <2>1 DEF GcInv, HeapInv, RestInv, GcTypeOK, WordsOK, HeldOK
<1> QED BY <1>1, <1>2

LEMMA InitOK ==
  ASSUME GcInit
  PROVE  GcInv
<1>1. DOMAIN hdr = {} /\ DOMAIN maps = {} /\ DOMAIN held = {} /\ DOMAIN word = {}
  BY DEF GcInit, Init
<1>2. Heap.hdr = hdr /\ Heap.maps = maps /\ Heap.marks = {} /\ Heap.since = 0
  BY DEF Heap, GcInit
<1>3. GoodHeap(Heap)
  BY <1>1, <1>2 DEF GoodHeap, ArenaOK, MapsOK, Heap
<1>4. LiveIn(Heap) = {}
  BY <1>1, <1>2 DEF LiveIn
<1>5. Counted(Heap, live_blocks, live_bytes)
  <2> DEFINE s == [p \in LiveIn(Heap) |-> At(Heap, p).size]
  <2>1. DOMAIN s = {}
    BY <1>4
  <2> HIDE DEF s
  <2>2. SumFunction(s) = 0
    BY <2>1, SumNat, FS_EmptySet
  <2> QED BY <1>4, <2>2, FS_EmptySet DEF GcInit, Init, Counted, s
<1>6. HeapInv
  BY <1>1, <1>3, <1>4, <1>5 DEF HeapInv, HeldOK
<1>7. RestInv
  <2>1. Fixed(Heap) = {}
    BY <1>4 DEF Fixed
  <2>2. disabled \in 0 .. MaxDisabled
    BY GcAssumption DEF GcInit
  <2>3. stack \subseteq Int /\ region \in [Regions -> Int]
    BY DEF GcInit
  <2>4. /\ owner \in Threads \cup {NoOne} /\ hook \in BOOLEAN
        /\ roots \in [Slots -> Regions \cup {NoRegion}]
        /\ verdict \in {"none", "freed", "invalid", "double"}
        /\ collects \in BOOLEAN /\ pinned = {}
    BY DEF GcInit, Init
  <2> QED BY <1>4, <2>1, <2>2, <2>3, <2>4 DEF RestInv
<1> QED BY <1>6, <1>7, InvParts

\* An allocation: what the three calls that allocate have in common.
LEMMA AllocStep ==
  ASSUME GcInv, NEW G, NEW p, NEW n \in Nat, NEW f, Turned(Heap, G, p, n, f), Gives(G, p, n),
         stack' = stack \/ stack' = stack \cup ({p} \ {0}),
         collects, collects' = collects,
         \/ f = "none" /\ pinned' = pinned \cup ({p} \ {0})
         \/ (f # "none" \/ p = 0) /\ pinned' = pinned,
         owner' \in Threads \cup {NoOne}, hook' \in BOOLEAN,
         UNCHANGED <<verdict, disabled, roots, region>>
  PROVE  GcInv'
<1>1. HeapInv /\ RestInv /\ GoodHeap(Heap)
  BY InvParts DEF HeapInv
<1>2. HeapInv' /\ Heap' = G
  BY <1>1, GivesOK
<1>3. stack' \subseteq Int
  <2>1. p # 0 => p \in Pointers
    <3>1. GoodHeap(G) /\ (p # 0 => p \in LiveIn(G))
      BY DEF Turned
    <3> QED BY <3>1, LiveIs
  <2>2. Pointers \subseteq Int
    BY AllocAssumption DEF Pointers
  <2>3. stack \subseteq Int /\ {p} \ {0} \subseteq Int
    BY <1>1, <2>1, <2>2 DEF RestInv
  <2> QED BY <2>3
<1>4. collects' => pinned' = Fixed(Heap')
  BY <1>1, <1>2, FixedTurned DEF RestInv
<1>5. RestInv'
  BY <1>1, <1>3, <1>4 DEF RestInv
<1> QED BY <1>2, <1>5, InvParts, PTL

LEMMA GcMallocStep ==
  ASSUME GcInv, NEW t \in Threads, NEW n \in GcRequests, GcMalloc(t, n), collects, collects' = collects
  PROVE  GcInv'
<1> DEFINE u == Units(n)
<1>1. GoodHeap(Heap) /\ RestInv
  BY InvParts DEF GcInv
<1>2. Asked(u) /\ u \in Nat
  BY UnitsAsked DEF Asked
<1>3. PICK r \in IF hook THEN AllocFlags(t, Heap, u, "none") ELSE AllocOnce(Heap, u, "none") :
        /\ Give(r.heap, r.at, u)
        /\ pinned' = pinned \cup ({r.at} \ {0})
  BY DEF GcMalloc
<1> HIDE DEF u
<1>4. Outcome(Heap, r, u, "none")
  <2>1. CASE hook
    BY <1>1, <1>2, <1>3, <2>1, AllocFlagsOK DEF Flags
  <2>2. CASE ~hook
    BY <1>1, <1>2, <1>3, <2>2, AllocOnceOK DEF Flags
  <2> QED BY <2>1, <2>2
<1>5. Turned(Heap, r.heap, r.at, u, "none") /\ Gives(r.heap, r.at, u)
  BY <1>3, <1>4 DEF Outcome, Give, Gives
<1>6. /\ stack' = stack \cup ({r.at} \ {0})
      /\ owner' \in Threads \cup {NoOne} /\ hook' \in BOOLEAN
      /\ UNCHANGED <<verdict, disabled, roots, region>>
  BY <1>1, <1>3 DEF GcMalloc, Give, RestInv
<1> QED BY <1>2, <1>3, <1>5, <1>6, AllocStep

LEMMA OwnerAllocStep ==
  ASSUME GcInv, NEW t \in Threads, NEW n \in GcRequests, NEW f \in {"gc", "atomic"},
         OwnerAlloc(t, n, f), collects, collects' = collects
  PROVE  GcInv'
<1> DEFINE u == Units(n)
           due == Threshold > 0 /\ since >= Threshold
           H == IF due THEN CollectedBy(t, Heap) ELSE Heap
           taken(r) == IF r.at = 0 THEN 0 ELSE At(r.heap, r.at).size
           G(r) == [r.heap EXCEPT !.since = @ + taken(r)]
<1>1. GoodHeap(Heap) /\ RestInv
  BY InvParts DEF GcInv
<1>2. Asked(u) /\ u \in Nat
  BY UnitsAsked DEF Asked
<1>3. PICK r \in AllocFlags(t, H, u, f) : Give(G(r), r.at, u)
  BY DEF OwnerAlloc
<1>4. Kept(Heap, H) /\ GoodHeap(H)
  <2>1. Kept(Heap, H)
    BY <1>1, CollectedOK, KeptSelf
  <2> HIDE DEF H
  <2> QED BY <2>1 DEF Kept, Turned
<1> HIDE DEF H, u
<1>5. Outcome(H, r, u, f)
  BY <1>2, <1>4, AllocFlagsOK DEF Flags
<1>6. Turned(Heap, r.heap, r.at, u, f)
  BY <1>1, <1>4, <1>5, KeptTurned DEF Outcome
<1>7. GoodHeap(r.heap)
  BY <1>6 DEF Turned
<1>8. taken(r) \in Nat /\ r.heap.since + taken(r) \in Nat
  <2>1. r.at # 0 => At(r.heap, r.at).size \in Nat
    BY <1>6, <1>7, LiveIs DEF Turned
  <2>2. taken(r) \in Nat
    BY <2>1
  <2>3. r.heap.since \in Nat
    BY <1>7 DEF GoodHeap
  <2> HIDE DEF taken
  <2> QED BY <2>2, <2>3
<1> HIDE DEF taken
<1>9. Turned(Heap, G(r), r.at, u, f)
  <2> DEFINE k == r.heap.since + taken(r)
  <2>1. G(r) = [r.heap EXCEPT !.since = k]
    OBVIOUS
  <2> HIDE DEF k, G
  <2>2. k \in Nat
    BY <1>8 DEF k
  <2> QED BY <1>1, <1>6, <2>1, <2>2, SinceTurned
<1> HIDE DEF G
<1>10. Gives(G(r), r.at, u) /\ stack' = stack \cup ({r.at} \ {0})
  BY <1>3 DEF Give, Gives
<1>11. /\ f # "none" /\ pinned' = pinned
       /\ owner' \in Threads \cup {NoOne} /\ hook' \in BOOLEAN
       /\ UNCHANGED <<verdict, disabled, roots, region>>
  BY DEF OwnerAlloc
<1> QED BY <1>2, <1>9, <1>10, <1>11, AllocStep

LEMMA ForeignAllocStep ==
  ASSUME GcInv, NEW t \in Threads, NEW n \in GcRequests, ForeignAlloc(t, n), collects, collects' = collects
  PROVE  GcInv'
<1> DEFINE u == Units(n)
<1>1. GoodHeap(Heap) /\ RestInv
  BY InvParts DEF GcInv
<1>2. Asked(u) /\ u \in Nat
  BY UnitsAsked DEF Asked
<1>3. PICK r \in AllocFlags(t, Heap, u, "none") :
        Gives(r.heap, r.at, u) /\ pinned' = pinned \cup ({r.at} \ {0})
  BY DEF ForeignAlloc, Gives
<1> HIDE DEF u
<1>4. Turned(Heap, r.heap, r.at, u, "none")
  BY <1>1, <1>2, AllocFlagsOK DEF Flags, Outcome
<1>5. /\ stack' = stack
      /\ owner' \in Threads \cup {NoOne} /\ hook' \in BOOLEAN
      /\ UNCHANGED <<verdict, disabled, roots, region>>
  BY <1>1 DEF ForeignAlloc, RestInv
<1> QED BY <1>2, <1>3, <1>4, <1>5, AllocStep

LEMMA CollectStep ==
  ASSUME GcInv, NEW t \in Threads, Collect(t), collects, collects' = collects
  PROVE  GcInv'
<1> DEFINE H == CollectedBy(t, Heap)
<1>1. GoodHeap(Heap) /\ RestInv
  BY InvParts DEF GcInv
<1>2. Kept(Heap, H)
  BY <1>1, CollectedOK
<1>3. Give(H, 0, 0) /\ pinned' = pinned
  BY DEF Collect
<1> HIDE DEF H
<1>4. Turned(Heap, H, 0, 0, "gc") /\ Gives(H, 0, 0) /\ stack' = stack
  BY <1>2, <1>3 DEF Kept, Give, Gives
<1>5. /\ owner' \in Threads \cup {NoOne} /\ hook' \in BOOLEAN
      /\ UNCHANGED <<verdict, disabled, roots, region>>
  BY <1>1 DEF Collect, RestInv
<1> QED BY <1>3, <1>4, <1>5, AllocStep

LEMMA GcFreeStep ==
  ASSUME GcInv, NEW p \in Pointers, GcFree(p), collects, collects' = collects
  PROVE  GcInv'
<1>1. BlocksInv /\ HeapInv /\ RestInv /\ GoodHeap(Heap)
  BY InvParts DEF BlocksInv, HeapInv
<1>2. Free(p) /\ marks' = marks \ {p} /\ since' = since
  BY DEF GcFree
<1>3. BlocksInv' /\ LiveIn(Heap') = LiveIn(Heap) \ {p} /\ \A x \in LiveIn(Heap') : At(Heap', x) = At(Heap, x)
  BY <1>1, <1>2, FreeOK
<1>4. HeapInv'
  <2>1. DOMAIN word' = LiveIn(Heap') /\ \A x \in DOMAIN word' : word'[x] \in Int
    BY <1>1, <1>3 DEF GcFree, HeapInv
  <2> QED BY <1>3, <2>1 DEF BlocksInv, HeapInv
<1>5. RestInv'
  <2>1. Fixed(Heap') = Fixed(Heap) \ {p}
    BY <1>3 DEF Fixed, Collectable
  <2>2. collects' => pinned' = Fixed(Heap')
    BY <1>1, <2>1 DEF GcFree, RestInv
  <2>3. verdict' \in {"none", "freed", "invalid", "double"}
    BY <1>2 DEF Free, ReleaseMap, ReleaseArena, Refuse
  <2>4. UNCHANGED <<hook, owner, disabled, roots, stack, region>>
    BY DEF GcFree
  <2> QED BY <1>1, <2>2, <2>3, <2>4 DEF RestInv
<1> QED BY <1>4, <1>5, InvParts, PTL

\* Steps that leave the heap as it is.
LEMMA SameHeap ==
  ASSUME GcInv, UNCHANGED <<vars, marks, since>>,
         DOMAIN word' = DOMAIN word, \A x \in DOMAIN word : word'[x] \in Int,
         stack' \subseteq Int, region' \in [Regions -> Int],
         owner' \in Threads \cup {NoOne}, hook' \in BOOLEAN, disabled' \in 0 .. MaxDisabled,
         roots' \in [Slots -> Regions \cup {NoRegion}], pinned' = pinned, collects' = collects
  PROVE  GcInv'
<1>1. HeapInv /\ RestInv
  BY InvParts
<1>2. Heap' = Heap /\ UNCHANGED <<held, live_blocks, live_bytes, verdict>>
  BY DEF Heap, vars
<1>3. HeapInv'
  BY <1>1, <1>2 DEF HeapInv, HeldOK, Counted
<1>4. RestInv'
  BY <1>1, <1>2 DEF RestInv
<1> QED BY <1>3, <1>4, InvParts, PTL

LEMMA RootsStep ==
  ASSUME GcInv, NEW r \in Regions, RootAdd(r) \/ RootRemove(r), collects' = collects
  PROVE  GcInv'
<1>1. RestInv /\ \A x \in DOMAIN word : word[x] \in Int
  BY InvParts DEF GcInv, WordsOK
<1>2. UNCHANGED <<vars, marks, since, word, stack, owner, hook, disabled, pinned>>
  BY DEF RootAdd, RootRemove
<1>3. roots' \in [Slots -> Regions \cup {NoRegion}]
  <2>1. CASE RootAdd(r)
    BY <1>1, <2>1 DEF RootAdd, RestInv
  <2>2. CASE RootRemove(r)
    BY <1>1, <2>2 DEF RootRemove, RestInv
  <2> QED BY <2>1, <2>2
<1>4. region' \in [Regions -> Int]
  BY <1>1 DEF RootAdd, RootRemove, RestInv
<1> QED BY <1>1, <1>2, <1>3, <1>4, SameHeap DEF RestInv

LEMMA MutateStep ==
  ASSUME GcInv, Mutate, collects' = collects
  PROVE  GcInv'
<1>1. RestInv /\ GoodHeap(Heap) /\ DOMAIN word = LiveIn(Heap) /\ \A x \in DOMAIN word : word[x] \in Int
  BY InvParts DEF GcInv, WordsOK
<1>2. UNCHANGED <<vars, marks, since, hook, owner, disabled, roots, pinned>>
  BY DEF Mutate
<1>3. stack \subseteq Int /\ region \in [Regions -> Int] /\ roots \in [Slots -> Regions \cup {NoRegion}]
  BY <1>1 DEF RestInv
<1>4. \A p \in DOMAIN word : p \in Int /\ p + SizeAt(p) \in Int
  <2> SUFFICES ASSUME NEW p \in DOMAIN word PROVE p \in Int /\ p + SizeAt(p) \in Int
    OBVIOUS
  <2>1. p \in Pointers /\ At(Heap, p).size \in Nat
    BY <1>1, LiveIs
  <2>2. Pointers \subseteq Int
    BY AllocAssumption DEF Pointers
  <2>3. SizeAt(p) \in Nat
    BY <2>1, HeapNow
  <2>4. p \in Int
    BY <2>1, <2>2
  <2> QED BY <2>3, <2>4
<1>5. CASE \E p \in stack \cap DOMAIN word, w \in stack \cap DOMAIN word :
             word' = [word EXCEPT ![p] = w] /\ UNCHANGED <<stack, region>>
  <2>1. DOMAIN word' = DOMAIN word /\ \A x \in DOMAIN word : word'[x] \in Int
    BY <1>1, <1>3, <1>5
  <2>2. stack' = stack /\ region' = region
    BY <1>5
  <2> QED BY <1>1, <1>2, <2>1, <2>2, SameHeap DEF RestInv
<1>6. CASE \E i \in {j \in Slots : roots[j] # NoRegion}, w \in stack \cap DOMAIN word :
             region' = [region EXCEPT ![roots[i]] = w] /\ UNCHANGED <<stack, word>>
  <2>1. region' \in [Regions -> Int]
    BY <1>3, <1>6
  <2>2. stack' = stack /\ word' = word
    BY <1>6
  <2> QED BY <1>1, <1>2, <2>1, <2>2, SameHeap DEF RestInv
<1>7. CASE \/ \E p \in stack \cap DOMAIN word :
                stack' = stack \cup ({word[p]} \ {0}) /\ UNCHANGED <<region, word>>
           \/ \E p \in stack \cap DOMAIN word :
                stack' = (stack \ {p}) \cup {p + SizeAt(p)} /\ UNCHANGED <<region, word>>
           \/ \E w \in stack : stack' = stack \ {w} /\ UNCHANGED <<region, word>>
  <2>1. stack' \subseteq Int
    <3>1. ASSUME NEW p \in stack \cap DOMAIN word, stack' = stack \cup ({word[p]} \ {0}) PROVE stack' \subseteq Int
      BY <1>1, <1>3, <3>1
    <3>2. ASSUME NEW p \in stack \cap DOMAIN word, stack' = (stack \ {p}) \cup {p + SizeAt(p)}
          PROVE  stack' \subseteq Int
      <4>1. p + SizeAt(p) \in Int
        BY <1>4
      <4> QED BY <1>3, <3>2, <4>1
    <3>3. ASSUME NEW w, stack' = stack \ {w} PROVE stack' \subseteq Int
      BY <1>3, <3>3
    <3> QED BY <1>7, <3>1, <3>2, <3>3
  <2>2. region' = region /\ word' = word
    BY <1>7
  <2> QED BY <1>1, <1>2, <2>1, <2>2, SameHeap DEF RestInv
<1> QED BY <1>5, <1>6, <1>7 DEF Mutate

LEMMA PlainStep ==
  ASSUME GcInv, Plain, collects' = collects
  PROVE  GcInv'
<1>1. BlocksInv /\ RestInv
  BY InvParts DEF BlocksInv, HeapInv
<1>2. marks = {}
  BY HeapNow DEF GcInv, GoodHeap
<1>3. UNCHANGED <<owner, hook, disabled, since, roots, marks, stack, region>> /\ ~collects
  BY DEF Plain
<1>4. /\ BlocksInv' /\ verdict' \in {"none", "freed", "invalid", "double"}
      /\ Fixed(Heap') = LiveIn(Heap')
  <2>0. Fixed(Heap) = LiveIn(Heap)
    BY <1>1, <1>3 DEF RestInv
  <2>1. ASSUME NEW n \in Requests, Malloc(n)
        PROVE  BlocksInv' /\ verdict' = verdict /\ Fixed(Heap') = LiveIn(Heap')
    <3>1. Asked(Units(n))
      BY UnitsAsked
    <3> QED BY <1>1, <1>3, <2>0, <2>1, <3>1, MallocOK DEF Malloc
  <2>2. ASSUME NEW p \in Pointers, Free(p)
        PROVE  /\ BlocksInv' /\ verdict' \in {"none", "freed", "invalid", "double"}
               /\ Fixed(Heap') = LiveIn(Heap')
    <3>1. /\ BlocksInv' /\ LiveIn(Heap') = LiveIn(Heap) \ {p}
          /\ \A x \in LiveIn(Heap') : At(Heap', x) = At(Heap, x)
      BY <1>1, <1>2, <1>3, <2>2, FreeOK
    <3>2. Fixed(Heap') = LiveIn(Heap')
      BY <2>0, <3>1 DEF Fixed, Collectable
    <3> QED BY <2>2, <3>1, <3>2 DEF Free, ReleaseMap, ReleaseArena, Refuse
  <2> QED BY <1>1, <2>1, <2>2 DEF Plain, Next, RestInv
<1>5. HeapInv'
  <2>1. DOMAIN word' = DOMAIN held' /\ \A x \in DOMAIN word' : word'[x] \in Int
    BY DEF Plain
  <2> QED BY <1>4, <2>1 DEF BlocksInv, HeapInv, HeldOK
<1>6. RestInv'
  BY <1>1, <1>3, <1>4 DEF RestInv
<1> QED BY <1>5, <1>6, InvParts, PTL

LEMMA StepOK ==
  ASSUME GcInv, [GcNext]_gcVars
  PROVE  GcInv'
<1>1. CASE UNCHANGED gcVars
  <2>1. UNCHANGED <<vars, marks, since, word, stack, region, owner, hook, disabled, roots, pinned, collects>>
    BY <1>1 DEF gcVars
  <2> QED BY <2>1, SameHeap DEF GcInv, WordsOK, GcTypeOK
<1>2. CASE Plain /\ UNCHANGED collects
  BY <1>2, PlainStep
<1>3. ASSUME Collecting, collects, collects' = collects PROVE GcInv'
  <2>1. ASSUME NEW t \in Threads, NEW n \in GcRequests,
               GcMalloc(t, n) \/ OwnerAlloc(t, n, "gc") \/ OwnerAlloc(t, n, "atomic") \/ ForeignAlloc(t, n)
        PROVE  GcInv'
    BY <1>3, <2>1, GcMallocStep, OwnerAllocStep, ForeignAllocStep
  <2>2. ASSUME NEW t \in Threads, Collect(t) PROVE GcInv'
    BY <1>3, <2>2, CollectStep
  <2>3. ASSUME NEW p \in Pointers, GcFree(p) PROVE GcInv'
    BY <1>3, <2>3, GcFreeStep
  <2>4. ASSUME NEW r \in Regions, RootAdd(r) \/ RootRemove(r) PROVE GcInv'
    BY <1>3, <2>4, RootsStep
  <2>5. CASE Enable \/ Disable
    <3>1. /\ UNCHANGED <<vars, marks, since, word, stack, owner, hook, pinned, roots, region>>
          /\ disabled' \in 0 .. MaxDisabled
      BY <2>5, GcAssumption DEF Enable, Disable, GcInv, GcTypeOK
    <3> QED BY <1>3, <3>1, SameHeap DEF GcInv, WordsOK, GcTypeOK
  <2>6. CASE Mutate
    BY <1>3, <2>6, MutateStep
  <2> QED BY <1>3, <2>1, <2>2, <2>3, <2>4, <2>5, <2>6 DEF Collecting
<1> QED BY <1>1, <1>2, <1>3 DEF GcNext, Collecting

THEOREM GcInvariant == GcSpec => []GcInv
<1>1. GcInit => GcInv
  BY InitOK
<1>2. GcInv /\ [GcNext]_gcVars => GcInv'
  BY StepOK
<1> QED BY <1>1, <1>2, PTL DEF GcSpec

(***************************************************************************)
(* The heap stays one the allocator could have made, whatever is asked for,*)
(* freed and collected in whatever order: headers that tile the arena, no  *)
(* free neighbours, the blocks the program holds, at least as large as it  *)
(* asked for, and counters that are exact (lib/nl_alloc.c, lib/nl_gc.c).   *)
(***************************************************************************)
THEOREM HeapIsSound == GcSpec => []HeapSound
<1>1. GcInv => HeapSound
  BY InvIsSound
<1> QED BY <1>1, GcInvariant, PTL

-----------------------------------------------------------------------------
(* What a collection takes *)

\* A word is seen as an address in a block exactly when it is one, but for the
\* address just past the arena.
LEMMA ClassifyIs ==
  ASSUME GoodHeap(Heap), NEW w \in Int
  PROVE  /\ \A p \in Classify(Heap, w) : p \in Live /\ PointsInto(w, p)
         /\ \A p \in Live : Inside(w, p) => p \in Classify(Heap, w)
<1>0. Live = LiveIn(Heap) /\ Heap.hdr = hdr /\ Heap.maps = maps /\ ARENA \in Nat
  BY HeapNow, AllocAssumption
<1>1. ASSUME NEW p \in Classify(Heap, w) PROVE p \in Live /\ PointsInto(w, p)
  <2>1. CASE w \in 0 .. ARENA - 1
    <3>1. PICK o \in DOMAIN hdr : o + 1 <= w /\ ~hdr[o].free /\ w <= o + 1 + hdr[o].size /\ p = o + 1
      BY <1>0, <1>1, <2>1 DEF Classify
    <3>2. o \in InUse(hdr)
      BY <3>1 DEF InUse
    <3>3. o + 1 \in LiveIn(Heap) /\ At(Heap, o + 1) = hdr[o]
      BY <1>0, <3>2, LiveIs
    <3>4. SizeAt(p) = hdr[o].size
      BY <3>1, <3>3, HeapNow
    <3> QED BY <1>0, <3>1, <3>3, <3>4 DEF PointsInto
  <2>2. CASE w \notin 0 .. ARENA - 1
    <3>1. p \in DOMAIN maps /\ w >= p /\ w <= p + maps[p].size
      BY <1>0, <1>1, <2>2 DEF Classify
    <3>2. p \in LiveIn(Heap) /\ At(Heap, p) = maps[p]
      BY <1>0, <3>1, LiveIs
    <3>3. SizeAt(p) = maps[p].size
      BY <3>2, HeapNow
    <3>4. p \in Int
      <4>1. p \in Mappings
        BY <1>0, <3>1 DEF GoodHeap, MapsOK
      <4> QED BY <4>1, AllocAssumption
    <3> QED BY <1>0, <3>1, <3>2, <3>3, <3>4 DEF PointsInto
  <2> QED BY <2>1, <2>2
<1>2. ASSUME NEW p \in Live, Inside(w, p) PROVE p \in Classify(Heap, w)
  <2>1. w # ARENA /\ p <= w /\ w <= p + SizeAt(p) /\ SizeAt(p) = At(Heap, p).size
    BY <1>2, HeapNow DEF Inside, PointsInto
  <2>2. CASE p \in DOMAIN maps
    <3>1. At(Heap, p) = maps[p]
      BY <1>0, <2>2, LiveIs
    <3>2. maps[p].size \in Nat /\ (p > ARENA \/ p + maps[p].size < 0) /\ p \in Mappings
      BY <1>0, <2>2 DEF GoodHeap, MapsOK
    <3>3. p \in Int
      BY <3>2, AllocAssumption
    <3>4. w \notin 0 .. ARENA - 1
      BY <1>0, <2>1, <3>1, <3>2, <3>3
    <3>5. w >= p /\ w <= p + maps[p].size
      BY <2>1, <3>1, <3>3
    <3> QED BY <1>0, <2>2, <3>4, <3>5 DEF Classify
  <2>3. CASE p \notin DOMAIN maps
    <3> DEFINE o == p - 1
    <3>1. o \in InUse(hdr) /\ p = o + 1
      BY <1>0, <1>2, <2>3, LiveIs
    <3> HIDE DEF o
    <3>2. At(Heap, p) = hdr[o]
      BY <1>0, <3>1, LiveIs
    <3>3. Tile(hdr) /\ o \in DOMAIN hdr /\ ~hdr[o].free
      BY <1>0, <3>1 DEF GoodHeap, ArenaOK, Sound, InUse
    <3>4. /\ o \in Nat /\ hdr[o].size \in Nat /\ NextOf(hdr, o) = o + 1 + hdr[o].size
          /\ NextOf(hdr, o) <= ARENA
          /\ \A y \in DOMAIN hdr : o < y => NextOf(hdr, o) <= y
      BY <3>3, HeaderIs, NextIs
    <3>5. o + 1 <= w /\ w <= o + 1 + hdr[o].size
      BY <2>1, <3>1, <3>2
    <3>6. w \in 0 .. ARENA - 1
      BY <1>0, <2>1, <3>4, <3>5
    <3>7. ASSUME NEW y \in DOMAIN hdr, y + 1 <= w PROVE y <= o
      <4>1. y \in Nat
        BY <3>3, HeaderIs
      <4>2. o < y => o + 1 + hdr[o].size <= y
        BY <3>4
      <4> QED BY <3>4, <3>5, <3>7, <4>1, <4>2
    <3> DEFINE below == {x \in DOMAIN hdr : x + 1 <= w}
    <3>8. o \in {x \in below : /\ \A y \in below : y <= x
                               /\ ~hdr[x].free
                               /\ w <= x + 1 + hdr[x].size}
      BY <3>3, <3>5, <3>7
    <3> QED BY <1>0, <3>1, <3>6, <3>8 DEF Classify
  <2> QED BY <2>2, <2>3
<1> QED BY <1>1, <1>2

\* The blocks found from those in S.
Found(H, S) == Scanned(H, {word[p] : p \in {q \in S : At(H, q).flags # "atomic"}})
Rooted(H) == Scanned(H, RootWords(H))

\* Round after round of them.
Round(H, g, k) == IF k = 0 THEN Rooted(H) \ H.marks ELSE g[k - 1] \cup (Found(H, g[k - 1]) \ H.marks)
Rounds(H, g, n) == g = [k \in 0 .. n |-> Round(H, g, k)]

LEMMA MarkedIs ==
  ASSUME NEW H
  PROVE  LET n == Cardinality(LiveIn(H))
         IN  Marked(H) = (CHOOSE g : Rounds(H, g, n))[n] \cup H.marks
  BY DEF Marked, Rounds, Round, Found, Rooted

LEMMA RoundsExist ==
  ASSUME NEW H, NEW n \in Nat
  PROVE  \E g : Rounds(H, g, n)
<1> DEFINE T == {m \in Nat : \E g : Rounds(H, g, m)}
<1>1. 0 \in T
  <2> DEFINE g == [k \in 0 .. 0 |-> Rooted(H) \ H.marks]
  <2>1. \A k \in 0 .. 0 : g[k] = Round(H, g, k)
    BY DEF Round
  <2>2. g = [k \in 0 .. 0 |-> g[k]]
    OBVIOUS
  <2> HIDE DEF g
  <2>3. Rounds(H, g, 0)
    BY <2>1, <2>2 DEF Rounds
  <2> QED BY <2>3
<1>2. ASSUME NEW m \in Nat, m \in T PROVE m + 1 \in T
  <2>1. PICK g : Rounds(H, g, m)
    BY <1>2
  <2> DEFINE h == [k \in 0 .. m + 1 |-> IF k = m + 1 THEN Round(H, g, k) ELSE g[k]]
  <2>2. \A k \in 0 .. m : h[k] = g[k] /\ g[k] = Round(H, g, k)
    BY <2>1 DEF Rounds
  <2>3. ASSUME NEW k \in 0 .. m + 1 PROVE h[k] = Round(H, g, k)
    <3>1. CASE k = m + 1
      BY <3>1
    <3>2. CASE k # m + 1
      <4>1. k \in 0 .. m
        BY <3>2
      <4> HIDE DEF h
      <4> QED BY <2>2, <4>1
    <3> QED BY <3>1, <3>2
  <2>4. ASSUME NEW k \in 0 .. m + 1 PROVE Round(H, h, k) = Round(H, g, k)
    <3>1. k # 0 => h[k - 1] = g[k - 1]
      <4>1. k # 0 => k - 1 \in 0 .. m
        OBVIOUS
      <4> QED BY <2>2, <4>1
    <3> HIDE DEF h
    <3> QED BY <3>1 DEF Round
  <2>5. h = [k \in 0 .. m + 1 |-> h[k]]
    OBVIOUS
  <2> HIDE DEF h
  <2>6. Rounds(H, h, m + 1)
    BY <2>3, <2>4, <2>5 DEF Rounds
  <2> QED BY <2>6
<1> QED
  <2> HIDE DEF T
  <2>1. n \in T
    BY <1>1, <1>2, Induction
  <2> QED BY <2>1 DEF T

LEMMA FoundIs ==
  ASSUME NEW H
  PROVE  /\ Rooted(H) \subseteq Collectable(H) /\ Found(H, {}) = {}
         /\ \A S : Found(H, S) \subseteq Collectable(H)
         /\ \A S, R : S \subseteq R => Found(H, S) \subseteq Found(H, R)
<1> DEFINE W(S) == {word[p] : p \in {q \in S : At(H, q).flags # "atomic"}}
<1>1. \A V : Scanned(H, V) \subseteq Collectable(H)
  BY DEF Scanned
<1>2. ASSUME NEW U, NEW V, U \subseteq V PROVE Scanned(H, U) \subseteq Scanned(H, V)
  BY <1>2 DEF Scanned
<1>3. ASSUME NEW S, NEW R, S \subseteq R PROVE W(S) \subseteq W(R)
  BY <1>3
<1>4. Scanned(H, {}) = {}
  BY DEF Scanned
<1>5. W({}) = {}
  OBVIOUS
<1>6. \A S : Found(H, S) = Scanned(H, W(S))
  BY DEF Found
<1> HIDE DEF W
<1>7. \A S, R : S \subseteq R => Found(H, S) \subseteq Found(H, R)
  BY <1>2, <1>3, <1>6
<1>8. Found(H, {}) = {}
  BY <1>4, <1>5, <1>6
<1> QED BY <1>1, <1>6, <1>7, <1>8 DEF Rooted

\* Marked is the least set with the roots that is closed: every round that is
\* not the last one finds a block, and there are no more rounds than blocks.
LEMMA MarkedOK ==
  ASSUME NEW H, GoodHeap(H), NEW M, M = Marked(H)
  PROVE  /\ Rooted(H) \subseteq M /\ M \subseteq Collectable(H) /\ Found(H, M) \subseteq M
         /\ \A S : Rooted(H) \subseteq S /\ Found(H, S) \subseteq S => M \subseteq S
<1> DEFINE n == Cardinality(LiveIn(H))
           D == CHOOSE g : Rounds(H, g, n)
           Done(k) == Found(H, D[k]) \subseteq D[k] \/ k + 1 <= Cardinality(D[k])
           T == {k \in Nat : k <= n => D[k] \subseteq Collectable(H) /\ Rooted(H) \subseteq D[k] /\ Done(k)}
<1>1. IsFiniteSet(LiveIn(H)) /\ n \in Nat /\ Collectable(H) \subseteq LiveIn(H) /\ H.marks = {}
  BY LiveFinite, FS_CardinalityType DEF Collectable, GoodHeap
<1>2. M = D[n]
  BY <1>1, MarkedIs
<1>3. Rounds(H, D, n)
  <2> HIDE DEF n
  <2> QED BY <1>1, RoundsExist
<1> HIDE DEF n, D
<1>4. D[0] = Rooted(H)
  BY <1>1, <1>3 DEF Rounds, Round
<1>5. ASSUME NEW k \in Nat, k + 1 <= n PROVE D[k + 1] = D[k] \cup Found(H, D[k])
  <2> DEFINE j == k + 1
  <2>1. j \in 0 .. n /\ j # 0 /\ j - 1 = k
    BY <1>1, <1>5
  <2> HIDE DEF j
  <2>2. D[j] = Round(H, D, j)
    BY <1>3, <2>1 DEF Rounds
  <2> QED BY <1>1, <2>1, <2>2 DEF Round, j
<1>6. \A S : S \subseteq Collectable(H) => IsFiniteSet(S) /\ Cardinality(S) \in Nat /\ Cardinality(S) <= n
  <2> SUFFICES ASSUME NEW S, S \subseteq Collectable(H)
               PROVE  IsFiniteSet(S) /\ Cardinality(S) \in Nat /\ Cardinality(S) <= n
    OBVIOUS
  <2>1. S \in SUBSET LiveIn(H)
    BY <1>1
  <2>2. IsFiniteSet(S) /\ Cardinality(S) <= n
    BY <1>1, <2>1, FS_Subset DEF n
  <2> QED BY <2>2, FS_CardinalityType
<1>7. 0 \in T
  <2>1. D[0] \subseteq Collectable(H)
    BY <1>4, FoundIs
  <2>2. IsFiniteSet(D[0]) /\ Cardinality(D[0]) \in Nat
    BY <1>6, <2>1
  <2>3. Done(0)
    <3>1. CASE D[0] = {}
      BY <3>1, FoundIs
    <3>2. CASE D[0] # {}
      <4>1. Cardinality(D[0]) # 0
        BY <2>2, <3>2, FS_EmptySet
      <4> QED BY <2>2, <4>1
    <3> QED BY <3>1, <3>2
  <2> HIDE DEF Done
  <2> QED BY <1>4, <2>1, <2>3
<1>8. ASSUME NEW k \in Nat, k \in T PROVE k + 1 \in T
  <2> SUFFICES ASSUME k + 1 <= n
               PROVE  D[k + 1] \subseteq Collectable(H) /\ Rooted(H) \subseteq D[k + 1] /\ Done(k + 1)
    OBVIOUS
  <2>1. k <= n
    BY <1>1
  <2>2. D[k] \subseteq Collectable(H) /\ Rooted(H) \subseteq D[k] /\ Done(k)
    <3> HIDE DEF Done
    <3> QED BY <1>8, <2>1
  <2>3. D[k + 1] = D[k] \cup Found(H, D[k])
    BY <1>5
  <2>4. D[k + 1] \subseteq Collectable(H) /\ Rooted(H) \subseteq D[k + 1]
    BY <2>2, <2>3, FoundIs
  <2>5. CASE Found(H, D[k]) \subseteq D[k]
    <3>1. D[k + 1] = D[k]
      BY <2>3, <2>5
    <3> QED BY <2>4, <2>5, <3>1
  <2>6. CASE ~(Found(H, D[k]) \subseteq D[k])
    <3>1. k + 1 <= Cardinality(D[k])
      BY <2>2, <2>6
    <3> DEFINE S == D[k + 1]
               R == D[k]
    <3>2. R \subseteq S /\ R # S /\ S \subseteq Collectable(H)
      BY <2>3, <2>4, <2>6
    <3>3. IsFiniteSet(S) /\ Cardinality(S) \in Nat /\ Cardinality(R) \in Nat
      BY <1>6, <2>2, <3>2
    <3> HIDE DEF S, R
    <3>4. Cardinality(R) <= Cardinality(S) /\ Cardinality(S) # Cardinality(R)
      BY <3>2, <3>3, FS_Subset
    <3>5. (k + 1) + 1 <= Cardinality(S)
      BY <3>1, <3>3, <3>4 DEF R
    <3> QED BY <2>4, <3>5 DEF S
  <2> QED BY <2>5, <2>6
<1>9. n \in T
  <2> HIDE DEF T
  <2> QED BY <1>1, <1>7, <1>8, Induction
<1>10. M \subseteq Collectable(H) /\ Rooted(H) \subseteq M /\ Found(H, M) \subseteq M
  <2>1. D[n] \subseteq Collectable(H) /\ Rooted(H) \subseteq D[n] /\ Done(n)
    <3> HIDE DEF Done
    <3> QED BY <1>1, <1>9
  <2>2. Cardinality(D[n]) \in Nat /\ Cardinality(D[n]) <= n
    BY <1>6, <2>1
  <2> QED BY <1>1, <1>2, <2>1, <2>2
<1>11. ASSUME NEW S, Rooted(H) \subseteq S, Found(H, S) \subseteq S PROVE M \subseteq S
  <2> DEFINE V == {k \in Nat : k <= n => D[k] \subseteq S}
  <2>1. 0 \in V
    BY <1>4, <1>11
  <2>2. ASSUME NEW k \in Nat, k \in V PROVE k + 1 \in V
    <3> SUFFICES ASSUME k + 1 <= n PROVE D[k + 1] \subseteq S
      OBVIOUS
    <3>1. D[k] \subseteq S
      BY <1>1, <2>2
    <3>2. Found(H, D[k]) \subseteq S
      BY <1>11, <3>1, FoundIs
    <3> QED BY <1>5, <3>1, <3>2
  <2>3. n \in V
    <3> HIDE DEF V
    <3> QED BY <1>1, <2>1, <2>2, Induction
  <2> QED BY <1>1, <1>2, <2>3
<1> QED BY <1>10, <1>11

\* What the words the collector sees from pinned blocks and roots are.
Words == stack \cup {region[roots[i]] : i \in {j \in Slots : roots[j] # NoRegion}}

LEMMA RootedIs ==
  ASSUME GcInv
  PROVE  /\ \A w \in Words : w \in Int
         /\ \A p \in Live : word[p] \in Int
         /\ \A q : q \in Rooted(Heap) <=>
              /\ q \in Collectable(Heap)
              /\ \/ \E w \in Words : q \in Classify(Heap, w)
                 \/ \E p \in Fixed(Heap) : q \in Classify(Heap, word[p])
         /\ \A S, q : q \in Found(Heap, S) <=>
              /\ q \in Collectable(Heap)
              /\ \E p \in S : At(Heap, p).flags # "atomic" /\ q \in Classify(Heap, word[p])
<1>1. stack \subseteq Int /\ region \in [Regions -> Int] /\ roots \in [Slots -> Regions \cup {NoRegion}]
  BY DEF GcInv, WordsOK, GcTypeOK
<1>2. \A w \in Words : w \in Int
  <2>1. \A i \in {j \in Slots : roots[j] # NoRegion} : region[roots[i]] \in Int
    BY <1>1
  <2> QED BY <1>1, <2>1 DEF Words
<1>3. \A p \in Live : word[p] \in Int
  BY HeapNow DEF GcInv, WordsOK
<1>4. RootWords(Heap) = Words \cup {word[p] : p \in Fixed(Heap)}
  BY DEF RootWords, Words, Fixed
<1>5. ASSUME NEW q
      PROVE  q \in Rooted(Heap) <=>
              /\ q \in Collectable(Heap)
              /\ \/ \E w \in Words : q \in Classify(Heap, w)
                 \/ \E p \in Fixed(Heap) : q \in Classify(Heap, word[p])
  <2>1. q \in Rooted(Heap) <=> q \in Collectable(Heap) /\ \E w \in RootWords(Heap) : q \in Classify(Heap, w)
    BY DEF Rooted, Scanned
  <2> QED BY <1>4, <2>1
<1>6. ASSUME NEW S, NEW q
      PROVE  q \in Found(Heap, S) <=>
              /\ q \in Collectable(Heap)
              /\ \E p \in S : At(Heap, p).flags # "atomic" /\ q \in Classify(Heap, word[p])
  BY DEF Found, Scanned
<1> QED BY <1>2, <1>3, <1>5, <1>6

\* ReachableBy, spelled out for each of its two uses.
Sees(p) == p \in pinned \/ \E w \in Words : PointsInto(w, p)
Follows(S) == \A p \in S : At(Heap, p).flags # "atomic" => {q \in Live : PointsInto(word[p], q)} \subseteq S
SeesInside(p) == p \in pinned \/ \E w \in Words : Inside(w, p)
FollowsInside(S) == \A p \in S : At(Heap, p).flags # "atomic" => {q \in Live : Inside(word[p], q)} \subseteq S

LEMMA ReachableIs ==
  /\ Reachable = {p \in Live : \A S \in SUBSET Live :
                    {q \in Live : Sees(q)} \subseteq S /\ Follows(S) => p \in S}
  /\ ReachableBy(Inside) = {p \in Live : \A S \in SUBSET Live :
                    {q \in Live : SeesInside(q)} \subseteq S /\ FollowsInside(S) => p \in S}
  BY DEF Reachable, ReachableBy, Sees, Follows, SeesInside, FollowsInside, Words

LEMMA KeepsReachable ==
  ASSUME GcInv, collects
  PROVE  CollectionKeepsReachable
<1> DEFINE M == Marked(Heap)
           K == LiveIn(Collected(Heap))
<1>1. GoodHeap(Heap) /\ pinned = Fixed(Heap) /\ Live = LiveIn(Heap)
  BY HeapNow DEF GcInv
<1>2. /\ Rooted(Heap) \subseteq M /\ M \subseteq Collectable(Heap) /\ Found(Heap, M) \subseteq M
  BY <1>1, MarkedOK
<1>3. K = Live \ (Collectable(Heap) \ M)
  <2> DEFINE dead == Collectable(Heap) \ M
  <2>1. Collected(Heap) = SweptHeap(Heap, dead)
    BY DEF Collected, SweptHeap
  <2>2. dead \subseteq Collectable(Heap)
    OBVIOUS
  <2> HIDE DEF dead
  <2> QED BY <1>1, <2>1, <2>2, SweptHeapOK DEF dead
<1> HIDE DEF M, K
<1>4. \A x \in Live : x \in K <=> x \in Fixed(Heap) \/ x \in M
  BY <1>1, <1>2, <1>3 DEF Fixed
<1>5. ASSUME NEW q \in Live, SeesInside(q) PROVE q \in K
  <2>1. CASE q \in pinned
    BY <1>1, <1>4, <2>1
  <2>2. CASE \E w \in Words : Inside(w, q)
    <3>1. PICK w \in Words : Inside(w, q)
      BY <2>2
    <3>2. q \in Classify(Heap, w)
      BY <1>1, <1>5, <3>1, RootedIs, ClassifyIs
    <3>3. q \in Collectable(Heap) => q \in Rooted(Heap)
      BY <3>2, RootedIs
    <3> QED BY <1>1, <1>2, <1>4, <1>5, <3>3 DEF Fixed
  <2> QED BY <1>5, <2>1, <2>2 DEF SeesInside
<1>6. ASSUME NEW p \in K, At(Heap, p).flags # "atomic", NEW q \in Live, Inside(word[p], q) PROVE q \in K
  <2>1. p \in Live /\ (p \in Fixed(Heap) \/ p \in M)
    BY <1>3, <1>4
  <2>2. q \in Classify(Heap, word[p])
    BY <1>1, <1>6, <2>1, RootedIs, ClassifyIs
  <2>3. CASE q \in Collectable(Heap)
    <3>1. p \in Fixed(Heap) => q \in Rooted(Heap)
      BY <2>2, <2>3, RootedIs
    <3>2. p \in M => q \in Found(Heap, M)
      BY <1>6, <2>2, <2>3, RootedIs
    <3> QED BY <1>2, <1>4, <2>1, <3>1, <3>2
  <2>4. CASE q \notin Collectable(Heap)
    BY <1>1, <1>4, <2>4 DEF Fixed
  <2> QED BY <2>3, <2>4
<1>7. K \in SUBSET Live /\ {q \in Live : SeesInside(q)} \subseteq K /\ FollowsInside(K)
  BY <1>3, <1>5, <1>6 DEF FollowsInside
<1>8. ReachableBy(Inside) \subseteq K
  BY <1>7, ReachableIs
<1> QED BY <1>8 DEF CollectionKeepsReachable, K

LEMMA MarkedReachable ==
  ASSUME GcInv, collects
  PROVE  Marked(Heap) \subseteq Reachable
<1> DEFINE M == Marked(Heap)
<1>1. GoodHeap(Heap) /\ pinned = Fixed(Heap) /\ Live = LiveIn(Heap)
  BY HeapNow DEF GcInv
<1>2. /\ M \subseteq Collectable(Heap)
      /\ \A S : Rooted(Heap) \subseteq S /\ Found(Heap, S) \subseteq S => M \subseteq S
  BY <1>1, MarkedOK
<1> HIDE DEF M
<1>3. ASSUME NEW S \in SUBSET Live, {q \in Live : Sees(q)} \subseteq S, Follows(S) PROVE M \subseteq S
  <2>1. ASSUME NEW q \in Rooted(Heap) PROVE q \in S
    <3>1. CASE \E w \in Words : q \in Classify(Heap, w)
      <4>1. PICK w \in Words : q \in Classify(Heap, w)
        BY <3>1
      <4>2. q \in Live /\ PointsInto(w, q)
        BY <1>1, <4>1, RootedIs, ClassifyIs
      <4> QED BY <1>3, <4>2 DEF Sees
    <3>2. CASE \E p \in Fixed(Heap) : q \in Classify(Heap, word[p])
      <4>1. PICK p \in Fixed(Heap) : q \in Classify(Heap, word[p])
        BY <3>2
      <4>2. p \in Live /\ At(Heap, p).flags = "none"
        BY <1>1 DEF Fixed, Collectable
      <4>3. p \in S
        BY <1>1, <1>3, <4>2 DEF Sees
      <4>4. q \in Live /\ PointsInto(word[p], q)
        BY <1>1, <4>1, <4>2, RootedIs, ClassifyIs
      <4> QED BY <1>3, <4>2, <4>3, <4>4 DEF Follows
    <3> QED BY <2>1, <3>1, <3>2, RootedIs
  <2>2. ASSUME NEW q \in Found(Heap, S) PROVE q \in S
    <3>1. PICK p \in S : At(Heap, p).flags # "atomic" /\ q \in Classify(Heap, word[p])
      BY <2>2, RootedIs
    <3>2. q \in Live /\ PointsInto(word[p], q)
      BY <1>1, <3>1, RootedIs, ClassifyIs
    <3> QED BY <1>3, <3>1, <3>2 DEF Follows
  <2> QED BY <1>2, <2>1, <2>2
<1>4. M \subseteq Live
  BY <1>1, <1>2 DEF Collectable
<1>5. M \subseteq Reachable
  BY <1>3, <1>4, ReachableIs
<1> QED BY <1>5 DEF M

LEMMA TakesGarbage ==
  ASSUME GcInv, collects
  PROVE  CollectionTakesGarbage
<1> DEFINE M == Marked(Heap)
           G == Collected(Heap)
<1>1. GoodHeap(Heap) /\ pinned = Fixed(Heap) /\ Live = LiveIn(Heap)
  BY HeapNow DEF GcInv
<1>2. LiveIn(G) = Live \ (Collectable(Heap) \ M) /\ Kept(Heap, G)
  <2> DEFINE dead == Collectable(Heap) \ M
  <2>1. G = SweptHeap(Heap, dead)
    BY DEF Collected, SweptHeap
  <2>2. dead \subseteq Collectable(Heap)
    OBVIOUS
  <2> HIDE DEF dead, G
  <2> QED BY <1>1, <2>1, <2>2, SweptHeapOK DEF dead
<1> HIDE DEF M, G
<1>3. \A p \in LiveIn(G) : At(G, p) = At(Heap, p)
  <2>1. Turned(Heap, G, 0, 0, "none")
    BY <1>2 DEF Kept
  <2>2. GoodHeap(G)
    BY <2>1 DEF Turned
  <2> QED BY <2>1, <2>2, LiveIs DEF Turned
<1>4. \A p \in Collectable(G) : p \in M /\ p \in Live
  <2>1. \A p \in Collectable(G) : p \in LiveIn(G) /\ At(Heap, p).flags # "none"
    BY <1>3 DEF Collectable
  <2> QED BY <1>1, <1>2, <2>1 DEF Collectable
<1>5. M \subseteq Reachable
  BY MarkedReachable DEF M
<1>6. Collectable(G) \subseteq Reachable
  BY <1>4, <1>5
<1> QED BY <1>6 DEF CollectionTakesGarbage, G

(***************************************************************************)
(* A collection, whenever it comes, takes the garbage and nothing else:    *)
(* what a chain of words leads to is kept, but for what hangs on the       *)
(* address just past the arena, cycles of garbage are not, and blocks of   *)
(* nl_malloc and of other threads live until they are freed (collect_impl, *)
(* mark_roots and sweep of lib/nl_gc.c).                                   *)
(***************************************************************************)
THEOREM CollectionIsExact == GcSpec => []CollectionExact
<1>1. GcInv => CollectionExact
  <2>1. GcInv /\ collects => PinnedStay
    BY HeapNow DEF GcInv, PinnedStay, Fixed
  <2> QED BY <2>1, KeepsReachable, TakesGarbage DEF CollectionExact
<1> QED BY <1>1, GcInvariant, PTL

-----------------------------------------------------------------------------
(* What a collection makes room for *)

\* The size of a free block that a sweep leaves, by its run.
LEMMA RunSize ==
  ASSUME NEW h, Tile(h), NEW F, AllFree(h, F), NEW g, g = Swept(h, F), NEW o \in DOMAIN g, g[o].free
  PROVE  /\ o \in StartsOf(h, F) /\ o \in F /\ o \in DOMAIN h /\ o \in Nat
         /\ RunsTo(h, F, o, EndOf(h, F, o))
         /\ EndOf(h, F, o) = o + 1 + g[o].size /\ g[o].size \in Nat
         /\ EndOf(h, F, o) \in Nat /\ EndOf(h, F, o) = NextOf(g, o)
<1>0. SweptBlocks(g, h, F)
  BY SweptTile
<1>1. Tile(g) /\ InUse(g) = DOMAIN h \ F /\ DOMAIN g = (DOMAIN h \ F) \cup StartsOf(h, F)
  <2>1. Sound(g) /\ InUse(g) = DOMAIN h \ F
    BY SweptTile
  <2> QED BY <1>0, <2>1 DEF Sound, SweptBlocks
<1>2. o \in StartsOf(h, F)
  BY <1>1 DEF InUse
<1>3. o \in F /\ o \in DOMAIN h
  BY <1>2 DEF StartsOf, AllFree
<1>4. NextOf(g, o) = EndOf(h, F, o)
  BY <1>0, <1>2 DEF SweptBlocks
<1>5. NextOf(g, o) = o + 1 + g[o].size /\ NextOf(g, o) \in Nat /\ g[o].size \in Nat /\ o \in Nat
  BY <1>1, HeaderIs, NextIs
<1>6. RunsTo(h, F, o, EndOf(h, F, o))
  BY <1>3, RunEnds DEF AllFree
<1> QED BY <1>2, <1>3, <1>4, <1>5, <1>6

\* The block that has an offset of the arena.
LEMMA BlockAt ==
  ASSUME NEW h, Tile(h), NEW o \in Nat, o < ARENA
  PROVE  \E x \in DOMAIN h : x <= o /\ o < NextOf(h, x)
<1> DEFINE S == {x \in DOMAIN h : x <= o}
<1>1. \A x \in DOMAIN h : x \in Nat /\ ARENA \in Nat
  BY HeaderIs
<1>2. S \subseteq 0 .. o /\ 0 \in S
  BY <1>1 DEF Tile
<1>3. PICK x \in S : \A y \in S : y <= x
  <2> HIDE DEF S
  <2> QED BY <1>2, HasGreatest
<1>4. x \in DOMAIN h /\ x <= o
  BY <1>3
<1>5. NextOf(h, x) \in Nat /\ x < NextOf(h, x) /\ (NextOf(h, x) = ARENA \/ NextOf(h, x) \in DOMAIN h)
  BY <1>4, NextIs
<1>6. o < NextOf(h, x)
  <2> SUFFICES ASSUME NextOf(h, x) <= o PROVE FALSE
    BY <1>5
  <2>1. NextOf(h, x) \in DOMAIN h
    BY <1>1, <1>4, <1>5
  <2>2. NextOf(h, x) \in S
    BY <2>1
  <2>3. NextOf(h, x) <= x
    BY <1>3, <2>2
  <2> QED BY <1>1, <1>4, <1>5, <2>3
<1> QED BY <1>4, <1>6

\* The more blocks are free, the longer the runs.
LEMMA LongerRun ==
  ASSUME NEW h, Tile(h), NEW E, AllFree(h, E), NEW F, E \subseteq F, AllFree(h, F),
         NEW e, e = Swept(h, E), NEW f, f = Swept(h, F), NEW o \in DOMAIN e, e[o].free
  PROVE  \E x \in DOMAIN f : f[x].free /\ f[x].size >= e[o].size
<1>0. SweptBlocks(f, h, F)
  BY SweptTile
<1> DEFINE a == EndOf(h, E, o)
<1>1. /\ o \in E /\ o \in DOMAIN h /\ o \in Nat /\ RunsTo(h, E, o, a)
      /\ a = o + 1 + e[o].size /\ e[o].size \in Nat /\ a \in Nat
  BY RunSize
<1> HIDE DEF a
<1>2. a <= ARENA /\ o < ARENA /\ ARENA \in Nat /\ \A y \in DOMAIN h : o < y /\ y < a => y \in E
  BY <1>1, RunIs, HeaderIs DEF AllFree
<1>3. Tile(f) /\ DOMAIN f = (DOMAIN h \ F) \cup StartsOf(h, F) /\ \A x \in DOMAIN h \ F : f[x] = h[x]
  <2>1. Sound(f)
    BY SweptTile
  <2> QED BY <1>0, <2>1 DEF Sound, SweptBlocks
<1>4. PICK x \in DOMAIN f : x <= o /\ o < NextOf(f, x)
  BY <1>1, <1>2, <1>3, BlockAt
<1>5. x \notin DOMAIN h \ F
  <2> SUFFICES ASSUME x \in DOMAIN h \ F PROVE FALSE
    OBVIOUS
  <2>1. NextOf(f, x) = NextOf(h, x)
    BY <1>3 DEF NextOf
  <2>2. x # o
    BY <1>1
  <2>3. x \in Nat /\ NextOf(h, x) \in Nat /\ (x < o => NextOf(h, x) <= o)
    BY <1>1, HeaderIs, NextIs
  <2> QED BY <1>1, <1>4, <2>1, <2>2, <2>3
<1>6. f[x].free
  <2>1. x \in StartsOf(h, F)
    BY <1>3, <1>4, <1>5
  <2> QED BY <1>0, <2>1 DEF SweptBlocks
<1> DEFINE b == EndOf(h, F, x)
<1>7. /\ x \in F /\ x \in Nat /\ RunsTo(h, F, x, b)
      /\ b = x + 1 + f[x].size /\ f[x].size \in Nat /\ b \in Nat /\ b = NextOf(f, x)
  BY <1>4, <1>6, RunSize
<1> HIDE DEF b
<1>8. b = ARENA \/ b \in DOMAIN h \ F
  BY <1>7, RunIs DEF AllFree
<1>9. a <= b
  <2> SUFFICES ASSUME b < a PROVE FALSE
    BY <1>1, <1>7
  <2>1. b \in DOMAIN h \ F
    BY <1>1, <1>2, <1>8
  <2>2. o < b
    BY <1>4, <1>7
  <2>3. b \in E
    BY <1>2, <2>1, <2>2
  <2> QED BY <2>1, <2>3
<1>10. f[x].size >= e[o].size
  BY <1>1, <1>4, <1>7, <1>9
<1> QED BY <1>4, <1>6, <1>10

\* No block longer when none is dead.
LEMMA SameRun ==
  ASSUME NEW h, Sound(h), NEW F, F = DOMAIN h \ InUse(h), NEW g, g = Swept(h, F),
         NEW o \in DOMAIN g, g[o].free
  PROVE  o \in DOMAIN h /\ h[o].free /\ h[o].size = g[o].size
<1>1. AllFree(h, F) /\ Tile(h) /\ Merged(h) /\ \A x \in F : x \in DOMAIN h /\ h[x].free
  BY DEF AllFree, InUse, Sound
<1> DEFINE e == EndOf(h, F, o)
           y == NextOf(h, o)
<1>2. /\ o \in F /\ o \in DOMAIN h /\ o \in Nat /\ RunsTo(h, F, o, e)
      /\ e = o + 1 + g[o].size /\ g[o].size \in Nat /\ e \in Nat
  BY <1>1, RunSize
<1> HIDE DEF e
<1>3. o < e /\ e <= ARENA /\ (e = ARENA \/ e \in DOMAIN h) /\ \A x \in DOMAIN h : o < x /\ x < e => x \in F
  BY <1>1, <1>2, RunIs
<1>4. /\ y \in Nat /\ o < y /\ y <= ARENA /\ y = o + 1 + h[o].size
      /\ y = ARENA \/ y \in DOMAIN h
      /\ \A x \in DOMAIN h : o < x => y <= x
  BY <1>2, <1>1, NextIs
<1>5. h[o].free /\ h[o].size \in Nat /\ ARENA \in Nat
  BY <1>1, <1>2, HeaderIs
<1>6. ~(y < e)
  <2> SUFFICES ASSUME y < e PROVE FALSE
    OBVIOUS
  <2>1. y \in DOMAIN h
    BY <1>2, <1>3, <1>4, <1>5
  <2>2. h[y].free
    BY <1>1, <1>3, <1>4, <2>1
  <2> QED BY <1>1, <1>2, <1>5, <2>1, <2>2 DEF Merged
<1>7. y <= e
  BY <1>2, <1>3, <1>4
<1> HIDE DEF y
<1>8. h[o].size = g[o].size
  BY <1>2, <1>4, <1>5, <1>6, <1>7
<1> QED BY <1>2, <1>5, <1>8

\* When no block is dead, what fits after the sweep fits before it.
LEMMA NoneDead ==
  ASSUME NEW h, Sound(h), NEW R, \A o \in InUse(h) : o + 1 \notin R, NEW u \in Nat,
         FirstFit(SweptArena(h, R), u) # {}
  PROVE  FirstFit(h, u) # {}
<1> DEFINE F == FreeIn(h, R)
           g == Swept(h, F)
<1>1. F = DOMAIN h \ InUse(h)
  BY DEF FreeIn, InUse
<1>2. g = SweptArena(h, R)
  BY SweptIs
<1> HIDE DEF F
<1>3. Tile(g) /\ Tile(h)
  <2>1. AllFree(h, F)
    BY <1>1 DEF AllFree, InUse
  <2>2. Tile(h)
    BY DEF Sound
  <2> HIDE DEF g
  <2>3. Sound(g)
    BY <2>1, <2>2, SweptTile DEF g
  <2> QED BY <2>2, <2>3 DEF Sound
<1> HIDE DEF g
<1>4. PICK o \in FirstFit(g, u) : TRUE
  BY <1>2
<1>5. o \in DOMAIN g /\ g[o].free /\ g[o].size >= u
  BY <1>3, FirstFitIs
<1>6. o \in DOMAIN h /\ h[o].free /\ h[o].size = g[o].size
  BY <1>1, <1>5, SameRun DEF g
<1>7. h[o].size \in Nat
  BY <1>3, <1>6, HeaderIs
<1>8. ~(h[o].size < u)
  BY <1>5, <1>6, <1>7
<1> QED BY <1>3, <1>6, <1>8, FirstFitIs

\* And what fits after a sweep fits after one of more blocks.
LEMMA MoreDead ==
  ASSUME NEW h, Sound(h), NEW R, NEW dead, R \subseteq dead, NEW u \in Nat,
         FirstFit(SweptArena(h, R), u) # {}
  PROVE  FirstFit(SweptArena(h, dead), u) # {}
<1> DEFINE E == FreeIn(h, R)
           F == FreeIn(h, dead)
           e == Swept(h, E)
           f == Swept(h, F)
<1>1. E \subseteq F /\ AllFree(h, E) /\ AllFree(h, F) /\ Tile(h)
  BY DEF FreeIn, AllFree, Sound
<1>2. e = SweptArena(h, R) /\ f = SweptArena(h, dead)
  BY SweptIs
<1> HIDE DEF E, F
<1>3. Tile(e)
  <2>1. Sound(e)
    BY <1>1, SweptTile
  <2> QED BY <2>1 DEF Sound
<1>4. Tile(f)
  <2>1. Sound(f)
    BY <1>1, SweptTile
  <2> QED BY <2>1 DEF Sound
<1> HIDE DEF e, f
<1>5. PICK o \in FirstFit(e, u) : TRUE
  BY <1>2
<1>6. o \in DOMAIN e /\ e[o].free /\ e[o].size >= u
  BY <1>3, FirstFitIs
<1>7. PICK x \in DOMAIN f : f[x].free /\ f[x].size >= e[o].size
  BY <1>1, <1>6, LongerRun DEF e, f
<1>8. f[x].size \in Nat /\ e[o].size \in Nat
  BY <1>3, <1>4, <1>6, <1>7, HeaderIs
<1>9. ~(f[x].size < u)
  BY <1>6, <1>7, <1>8
<1> QED BY <1>2, <1>4, <1>7, <1>9, FirstFitIs

\* An arena request that fits is met.
LEMMA FitsIsMet ==
  ASSUME NEW H, GoodHeap(H), NEW u \in Nat, u <= THRESHOLD, NEW f, NEW r \in AllocOnce(H, u, f)
  PROVE  /\ FirstFit(Booted(H.hdr), u) # {} => r.at # 0
         /\ FirstFit(Booted(H.hdr), u) = {} => r = [heap |-> [H EXCEPT !.hdr = Booted(H.hdr)], at |-> 0]
<1> DEFINE h == Booted(H.hdr)
           full == [heap |-> [H EXCEPT !.hdr = h], at |-> 0]
           arena(o) == [H EXCEPT !.hdr = Taken(h, o, u, f)]
<1>1. IF FirstFit(h, u) = {} THEN r = full
      ELSE \E o \in FirstFit(h, u) : r = [heap |-> arena(o), at |-> o + 1]
  BY DEF AllocOnce
<1>2. \A o \in FirstFit(h, u) : o \in Nat
  <2>1. Tile(h)
    BY BootedOK DEF GoodHeap, Sound
  <2> HIDE DEF h
  <2> QED BY <2>1, FirstFitIs, HeaderIs
<1> HIDE DEF h, arena, full
<1>3. ASSUME FirstFit(h, u) # {} PROVE r.at # 0
  <2>1. PICK o \in FirstFit(h, u) : r = [heap |-> arena(o), at |-> o + 1]
    BY <1>1, <1>3
  <2>2. r.at = o + 1
    BY <2>1
  <2> QED BY <1>2, <2>2
<1> QED BY <1>1, <1>3 DEF h, full

LEMMA NoFailure ==
  ASSUME GcInv
  PROVE  NoFailureWithGarbage
<1> SUFFICES ASSUME NEW t \in Threads, NEW n \in Requests,
                    Owns(t), disabled = 0, Units(n) <= THRESHOLD,
                    FirstFit(SweptArena(Booted(hdr), Collectable(Heap) \ Reachable), Units(n)) # {},
                    NEW r \in AllocFlags(t, Heap, Units(n), "gc")
             PROVE  r.at # 0
  BY DEF NoFailureWithGarbage
<1> DEFINE u == Units(n)
           b == Booted(hdr)
           R == Collectable(Heap) \ Reachable
           dead == Collectable(Heap) \ Marked(Heap)
<1>1. GoodHeap(Heap) /\ Heap.hdr = hdr
  BY HeapNow DEF GcInv
<1>2. u \in Nat
  BY UnitsAsked DEF Asked
<1>3. R \subseteq dead /\ dead \subseteq Collectable(Heap)
  <2>1. CASE collects
    BY <2>1, MarkedReachable
  <2>2. CASE ~collects
    <3>1. Collectable(Heap) = {}
      BY <2>2 DEF GcInv, Fixed, Collectable
    <3> QED BY <3>1
  <2> QED BY <2>1, <2>2
<1>4. Sound(b) /\ InUse(b) = InUse(hdr)
  BY <1>1, BootedOK DEF GoodHeap
<1>5. FirstFit(SweptArena(b, R), u) # {}
  OBVIOUS
<1>6. PICK s \in AllocOnce(Heap, u, "gc") :
        \/ s.at = 0 /\ LiveIn(CollectedBy(t, s.heap)) # LiveIn(s.heap)
           /\ r \in AllocOnce(CollectedBy(t, s.heap), u, "gc")
        \/ s.at = 0 /\ LiveIn(CollectedBy(t, s.heap)) = LiveIn(s.heap)
        \/ s.at # 0 /\ r = s
  BY DEF AllocFlags
<1> HIDE DEF u, b, R, dead
<1>7. CASE s.at = 0
  <2>1. FirstFit(b, u) = {} /\ s.heap = [Heap EXCEPT !.hdr = b]
    <3>1. u <= THRESHOLD
      BY DEF u
    <3>2. FirstFit(Booted(Heap.hdr), u) = {}
      BY <1>1, <1>2, <1>7, <3>1, FitsIsMet
    <3>3. s = [heap |-> [Heap EXCEPT !.hdr = Booted(Heap.hdr)], at |-> 0]
      BY <1>1, <1>2, <3>1, <3>2, FitsIsMet
    <3> QED BY <1>1, <3>2, <3>3 DEF b
  <2>2. PICK o \in InUse(b) : o + 1 \in R
    BY <1>2, <1>4, <1>5, <2>1, NoneDead
  <2>3. b = hdr /\ s.heap = Heap
    <3>1. DOMAIN hdr # {}
      BY <1>4, <2>2 DEF InUse
    <3>2. b = hdr
      BY <3>1 DEF Booted, b
    <3>3. [Heap EXCEPT !.hdr = b] = [hdr |-> b, maps |-> Heap.maps, marks |-> Heap.marks, since |-> Heap.since]
      BY <1>1, HeapEdited
    <3>4. Heap = [hdr |-> Heap.hdr, maps |-> Heap.maps, marks |-> Heap.marks, since |-> Heap.since]
      BY <1>1 DEF GoodHeap
    <3> QED BY <1>1, <2>1, <3>2, <3>3, <3>4
  <2> DEFINE G == CollectedBy(t, Heap)
  <2>4. G = SweptHeap(Heap, dead)
    BY DEF CollectedBy, Collected, SweptHeap, dead
  <2> HIDE DEF G
  <2>5. GoodHeap(G) /\ LiveIn(G) = LiveIn(Heap) \ dead
    <3>1. Kept(Heap, G) /\ LiveIn(G) = LiveIn(Heap) \ dead
      BY <1>1, <1>3, <2>4, SweptHeapOK
    <3> QED BY <3>1 DEF Kept, Turned
  <2>6. LiveIn(G) # LiveIn(Heap)
    <3>1. o + 1 \in dead /\ o + 1 \in LiveIn(Heap)
      BY <1>3, <2>2 DEF Collectable
    <3> QED BY <2>5, <3>1
  <2>7. r \in AllocOnce(G, u, "gc")
    BY <1>6, <1>7, <2>3, <2>6 DEF G
  <2>8. FirstFit(Booted(G.hdr), u) # {}
    <3>1. G.hdr = SweptArena(b, dead)
      BY <2>4 DEF SweptHeap, b, Heap
    <3>2. Sound(G.hdr)
      <4> DEFINE g == SweptArena(b, dead)
      <4>1. Sound(g)
        <5> HIDE DEF g
        <5> QED BY <1>4, SweptOK DEF g
      <4> QED BY <3>1, <4>1
    <3>3. Booted(G.hdr) = G.hdr
      <4>1. DOMAIN G.hdr # {}
        BY <3>2 DEF Sound, Tile
      <4> QED BY <4>1 DEF Booted
    <3>4. FirstFit(SweptArena(b, dead), u) # {}
      BY <1>2, <1>3, <1>4, <1>5, MoreDead
    <3> QED BY <3>1, <3>3, <3>4
  <2>9. u <= THRESHOLD
    BY DEF u
  <2> QED BY <1>2, <2>5, <2>7, <2>8, <2>9, FitsIsMet
<1>8. CASE s.at # 0
  BY <1>6, <1>8
<1> QED BY <1>7, <1>8

(***************************************************************************)
(* The owner is not refused an arena block while there is garbage that     *)
(* would make room for it: a longer run of free blocks is never the result *)
(* of less garbage, and the collection that a failure starts takes all     *)
(* there is (nl_alloc_flags of lib/nl_alloc.c and gc_oom_hook).            *)
(***************************************************************************)
THEOREM NoFailureIsSpared == GcSpec => []NoFailureWithGarbage
<1>1. GcInv => NoFailureWithGarbage
  BY NoFailure
<1> QED BY <1>1, GcInvariant, PTL
=============================================================================
