--------------------------- MODULE OutputProofs -----------------------------
(***************************************************************************)
(* Proofs about what the program puts out. The files it leaves when it     *)
(* records, saves screenshots and dies, among others that write to the     *)
(* same directory: for any frames, clock, picture sizes and length of the  *)
(* names' list. That a replay shows what was recorded, when it was: for    *)
(* any texts, times, buffer size and speeds. And what the network encoder  *)
(* leaves on a terminal others write on: for any pictures, terminal size   *)
(* and link.                                                               *)
(***************************************************************************)
EXTENDS Captures, NetEnc, FiniteSetTheorems, SequenceTheorems, TLAPS

\* What is recorded does not depend on what is replayed.
LEMMA CapturesRecord == CapturesSpec => Init /\ [][Next]_vars
<1>1. [CapturesNext]_<<vars, replayVars>> => [Next]_vars
  BY DEF CapturesNext, Play
<1> QED BY <1>1, PTL DEF CapturesSpec, CapturesInit

-----------------------------------------------------------------------------
(* The directory *)

Content == [frames : Seq(Frames), torn : BOOLEAN]

\* The text beside a picture.
TextOf(n) == [n EXCEPT !.ext = "ansi"]

\* A directory in which every picture is whole and of its text's frame.
DiskOK(d) ==
  /\ DOMAIN d \subseteq Name
  /\ \A n \in DOMAIN d : d[n] \in Content
  /\ \A n \in DOMAIN d : n.ext = "png" =>
       TextOf(n) \in DOMAIN d /\ d[n] = d[TextOf(n)] /\ ~d[n].torn

LEMMA PutIs ==
  ASSUME NEW d, NEW n, NEW c
  PROVE  /\ DOMAIN Put(d, n, c) = DOMAIN d \cup {n}
         /\ Put(d, n, c)[n] = c
         /\ \A x \in DOMAIN d : x # n => Put(d, n, c)[x] = d[x]
  BY DEF Put

LEMMA NameIs ==
  ASSUME NEW n \in Name
  PROVE  /\ n.ext \in {"cast", "ansi", "png"}
         /\ \A e \in {"cast", "ansi", "png"} :
              [n EXCEPT !.ext = e] \in Name /\ [n EXCEPT !.ext = e].ext = e
         /\ n.ext = "ansi" => TextOf([n EXCEPT !.ext = "png"]) = n
  BY DEF Name, TextOf

\* A recording is nothing a picture depends on.
LEMMA PutCast ==
  ASSUME NEW d, DiskOK(d), NEW n \in Name, n.ext = "cast", NEW c \in Content
  PROVE  DiskOK(Put(d, n, c))
<1> DEFINE e == Put(d, n, c)
<1>1. /\ DOMAIN e = DOMAIN d \cup {n} /\ e[n] = c
      /\ \A x \in DOMAIN d : x # n => e[x] = d[x]
  BY DEF Put
<1> HIDE DEF e
<1>2. \A x \in DOMAIN d : TextOf(x).ext = "ansi"
  BY NameIs DEF TextOf, DiskOK
<1> QED BY <1>1, <1>2 DEF DiskOK, e

\* Nor is a text with a new name.
LEMMA PutText ==
  ASSUME NEW d, DiskOK(d), NEW n \in Name, n.ext = "ansi", n \notin DOMAIN d,
         NEW c \in Content
  PROVE  DiskOK(Put(d, n, c))
<1> DEFINE e == Put(d, n, c)
<1>1. /\ DOMAIN e = DOMAIN d \cup {n} /\ e[n] = c
      /\ \A x \in DOMAIN d : x # n => e[x] = d[x]
  BY DEF Put
<1> HIDE DEF e
<1> QED BY <1>1 DEF DiskOK, e

\* A picture joins its text.
LEMMA PutPicture ==
  ASSUME NEW d, DiskOK(d), NEW n \in Name, n.ext = "png", TextOf(n) \in DOMAIN d,
         ~d[TextOf(n)].torn
  PROVE  DiskOK(Put(d, n, d[TextOf(n)]))
<1> DEFINE e == Put(d, n, d[TextOf(n)])
<1>1. /\ DOMAIN e = DOMAIN d \cup {n} /\ e[n] = d[TextOf(n)]
      /\ \A x \in DOMAIN d : x # n => e[x] = d[x]
  BY DEF Put
<1> HIDE DEF e
<1>2. \A x \in Name : TextOf(x) # n
  BY NameIs DEF TextOf
<1> QED BY <1>1, <1>2 DEF DiskOK, e

\* A free name is of no file, and no picture is there without its text.
LEMMA FreeName ==
  ASSUME NEW s, NEW x \in {"cast", "ansi", "png"}, NEW n \in OpenUnique(s, x)
  PROVE  n \in Name /\ n.ext = x /\ n \notin DOMAIN disk
  BY DEF OpenUnique

LEMMA FreePair ==
  ASSUME DiskOK(disk), NEW s, NEW n \in OpenUnique(s, "ansi")
  PROVE  LET p == [n EXCEPT !.ext = "png"]
         IN  p \in Name /\ p.ext = "png" /\ TextOf(p) = n /\ p \notin DOMAIN disk
<1>1. n \in Name /\ n.ext = "ansi" /\ n \notin DOMAIN disk
  BY FreeName
<1> DEFINE p == [n EXCEPT !.ext = "png"]
<1>2. p \in Name /\ p.ext = "png" /\ TextOf(p) = n
  BY <1>1, NameIs
<1> HIDE DEF p
<1>3. p \notin DOMAIN disk
  BY <1>1, <1>2 DEF DiskOK
<1> QED BY <1>2, <1>3 DEF p

LEMMA ContentIs ==
  ASSUME NEW f \in Frames
  PROVE  Shot(f) \in Content /\ ~Shot(f).torn /\ [Shot(f) EXCEPT !.torn = FALSE] = Shot(f)
<1>1. <<f>> \in Seq(Frames)
  OBVIOUS
<1>2. Shot(f) \in Content
  BY <1>1 DEF Shot, Content
<1>3. ~Shot(f).torn
  BY DEF Shot
<1>4. [Shot(f) EXCEPT !.torn = FALSE] = Shot(f)
  <2> DEFINE c == Shot(f)
  <2>1. c \in [frames : Seq(Frames), torn : BOOLEAN] /\ c.torn = FALSE
    BY <1>2 DEF Shot, Content
  <2> HIDE DEF c
  <2>2. [c EXCEPT !.torn = FALSE] = c
    BY <2>1
  <2> QED BY <2>2 DEF c
<1> QED BY <1>2, <1>3, <1>4

-----------------------------------------------------------------------------
(* What is left of a sequence without its repeats *)

(***************************************************************************)
(* Induction over the naturals.  Otherwise the members of T up to an n that*)
(* is none could be mapped, each to its successor, one to one into those   *)
(* other than 0, which are fewer.                                          *)
(***************************************************************************)
LEMMA Induction ==
  ASSUME NEW T, 0 \in T, \A n \in Nat : n \in T => n + 1 \in T
  PROVE  Nat \subseteq T
<1> SUFFICES ASSUME NEW n \in Nat, n \notin T PROVE FALSE
  OBVIOUS
<1> DEFINE S == {k \in 0 .. n : k \in T}
           f == [k \in S |-> k + 1]
<1>1. IsFiniteSet(S) /\ S \in SUBSET Nat
  <2>1. IsFiniteSet(0 .. n)
    BY FS_Interval
  <2>2. S \subseteq 0 .. n
    OBVIOUS
  <2> QED BY <2>1, <2>2, FS_Subset
<1>2. f \in Injection(S, S \ {0})
  <2>1. \A k \in S : k + 1 \in S \ {0}
    OBVIOUS
  <2>2. f \in [S -> S \ {0}]
    BY <2>1
  <2>3. \A k, m \in S : f[k] = f[m] => k = m
    BY <1>1
  <2> QED BY <2>2, <2>3 DEF Injection, IsInjective
<1>3. IsFiniteSet(S \ {0}) /\ Cardinality(S \ {0}) = Cardinality(S) - 1
  <2>1. 0 \in S
    OBVIOUS
  <2> QED BY <1>1, <2>1, FS_RemoveElement
<1>4. Cardinality(S) <= Cardinality(S \ {0})
  <2> HIDE DEF S, f
  <2> QED BY <1>1, <1>2, <1>3, FS_Injection, FS_CardinalityType, FS_PigeonHole
<1>5. Cardinality(S) \in Nat
  BY <1>1, FS_CardinalityType
<1> QED
  <2> HIDE DEF S
  <2> QED BY <1>3, <1>4, <1>5

\* How many of F come up to m.
Rank(F, m) == Cardinality({x \in F : x <= m})

\* Each member of a set of numbers has its own rank, and no rank is left out.
LEMMA RankIs ==
  ASSUME NEW n \in Nat, NEW F \in SUBSET (1 .. n)
  PROVE  /\ Cardinality(F) \in Nat /\ IsFiniteSet(F)
         /\ \A m \in F : Rank(F, m) \in 1 .. Cardinality(F)
         /\ \A k \in 1 .. Cardinality(F) : \E m \in F : Rank(F, m) = k
         /\ \A m, l \in F : Rank(F, m) = Rank(F, l) => m = l
<1> DEFINE U(m) == {x \in F : x <= m}
<1>0. /\ \A x \in F : x \in Nat /\ ~(x <= 0) /\ x <= n
      /\ \A x \in F, m \in Nat : x <= m + 1 <=> x <= m \/ x = m + 1
      /\ \A m \in Nat : ~(m + 1 <= m)
  <2>1. \A x \in F : x \in Nat /\ x # 0 /\ x <= n
    OBVIOUS
  <2> QED BY <2>1
<1>1. /\ IsFiniteSet(F) /\ Cardinality(F) \in Nat
      /\ \A m : IsFiniteSet(U(m)) /\ Cardinality(U(m)) \in Nat
                /\ Cardinality(U(m)) <= Cardinality(F)
  <2>1. IsFiniteSet(1 .. n)
    BY FS_Interval
  <2>2. IsFiniteSet(F)
    BY <2>1, FS_Subset
  <2>3. \A m : U(m) \subseteq F
    OBVIOUS
  <2> HIDE DEF U
  <2> QED BY <2>2, <2>3, FS_Subset, FS_CardinalityType
<1>2. ASSUME NEW m \in Nat
      PROVE  /\ m + 1 \in F => Cardinality(U(m + 1)) = Cardinality(U(m)) + 1
             /\ m + 1 \notin F => Cardinality(U(m + 1)) = Cardinality(U(m))
  <2>1. CASE m + 1 \in F
    <3>1. /\ \A x : x \in U(m + 1) <=> x \in U(m) \/ x = m + 1
          /\ m + 1 \notin U(m)
      <4>1. \A x : x \in U(m + 1) <=> x \in F /\ (x <= m \/ x = m + 1)
        BY <1>0
      <4>2. m + 1 \notin U(m)
        BY <1>0
      <4> QED BY <2>1, <4>1, <4>2
    <3> HIDE DEF U
    <3>2. U(m + 1) = U(m) \cup {m + 1}
      BY <3>1
    <3> QED BY <1>1, <2>1, <3>1, <3>2, FS_AddElement
  <2>2. CASE m + 1 \notin F
    <3>1. \A x \in F : x # m + 1
      BY <2>2
    <3>2. U(m + 1) = U(m)
      BY <1>0, <3>1
    <3> QED BY <2>2, <3>2
  <2> QED BY <2>1, <2>2
<1>3. Cardinality(U(0)) = 0
  <2>1. U(0) = {}
    BY <1>0
  <2> QED BY <2>1, FS_EmptySet
<1>4. U(n) = F
  BY <1>0
<1> DEFINE c == [m \in Nat |-> Cardinality(U(m))]
           T == {m \in Nat : \A k \in 1 .. c[m] : \E l \in F : c[l] = k}
           M == {d \in Nat : \A m, l \in Nat : l = m + d => c[m] <= c[l]}
<1>5. /\ c[0] = 0 /\ c[n] = Cardinality(F)
      /\ \A m \in Nat : /\ c[m] \in Nat
                        /\ m + 1 \in F => c[m + 1] = c[m] + 1
                        /\ m + 1 \notin F => c[m + 1] = c[m]
  <2>1. \A m \in Nat : c[m] = Cardinality(U(m)) /\ m + 1 \in Nat
    OBVIOUS
  <2> HIDE DEF c, U
  <2>2. c[0] = 0 /\ c[n] = Cardinality(F)
    BY <1>3, <1>4, <2>1
  <2>3. \A m \in Nat : c[m] \in Nat
    BY <1>1, <2>1
  <2>4. \A m \in Nat : /\ m + 1 \in F => c[m + 1] = c[m] + 1
                       /\ m + 1 \notin F => c[m + 1] = c[m]
    BY <1>2, <2>1
  <2> QED BY <2>2, <2>3, <2>4
<1>6. \A m \in F : Rank(F, m) = c[m]
  BY <1>1 DEF Rank
<1> HIDE DEF c, U
<1>7. \A k \in 1 .. Cardinality(F) : \E m \in F : c[m] = k
  <2>1. 0 \in T
    BY <1>5
  <2>2. ASSUME NEW m \in Nat, m \in T PROVE m + 1 \in T
    <3> SUFFICES ASSUME NEW k \in 1 .. c[m + 1] PROVE \E l \in F : c[l] = k
      OBVIOUS
    <3>1. c[m] \in Nat /\ (c[m + 1] = c[m] \/ (m + 1 \in F /\ c[m + 1] = c[m] + 1))
      BY <1>5
    <3>2. CASE k \in 1 .. c[m]
      BY <2>2, <3>2
    <3>3. CASE k \notin 1 .. c[m]
      <4>1. m + 1 \in F /\ c[m + 1] = k
        BY <3>1, <3>3
      <4> QED BY <4>1
    <3> QED BY <3>2, <3>3
  <2> HIDE DEF T
  <2>3. n \in T
    BY <2>1, <2>2, Induction
  <2> QED BY <1>5, <2>3 DEF T
<1>8. ASSUME NEW m \in Nat, NEW l \in Nat, m <= l PROVE c[m] <= c[l]
  <2>1. 0 \in M
    <3>1. \A k, j \in Nat : j = k + 0 => k = j
      OBVIOUS
    <3>2. \A k \in Nat : c[k] <= c[k]
      BY <1>5
    <3> QED BY <3>1, <3>2
  <2>2. ASSUME NEW d \in Nat, d \in M PROVE d + 1 \in M
    <3> SUFFICES ASSUME NEW k \in Nat, NEW j \in Nat, j = k + (d + 1)
                 PROVE  c[k] <= c[j]
      OBVIOUS
    <3>1. k + d \in Nat /\ j = (k + d) + 1
      OBVIOUS
    <3>2. c[k] <= c[k + d]
      BY <2>2, <3>1
    <3>3. c[k] \in Nat /\ c[k + d] \in Nat /\ (c[j] = c[k + d] \/ c[j] = c[k + d] + 1)
      BY <1>5, <3>1
    <3> HIDE DEF M
    <3> QED BY <3>2, <3>3
  <2> HIDE DEF M
  <2>3. l - m \in M /\ l = m + (l - m)
    BY <1>8, <2>1, <2>2, Induction
  <2> QED BY <2>3 DEF M
<1>9. ASSUME NEW m \in F, NEW l \in F, m < l PROVE c[m] < c[l]
  <2>1. m \in Nat /\ l - 1 \in Nat /\ m <= l - 1 /\ (l - 1) + 1 = l
    BY <1>9
  <2>2. c[m] <= c[l - 1]
    BY <1>8, <2>1
  <2>3. c[m] \in Nat /\ c[l - 1] \in Nat /\ c[(l - 1) + 1] = c[l - 1] + 1
    BY <1>5, <2>1
  <2> QED BY <2>1, <2>2, <2>3
<1>10. \A m \in F : c[m] \in 1 .. Cardinality(F)
  <2> SUFFICES ASSUME NEW m \in F PROVE c[m] \in 1 .. Cardinality(F)
    OBVIOUS
  <2>1. m \in Nat /\ m - 1 \in Nat /\ (m - 1) + 1 = m /\ m <= n
    BY <1>0
  <2>2. c[(m - 1) + 1] = c[m - 1] + 1 /\ c[m - 1] \in Nat
    BY <1>5, <2>1
  <2>3. c[m] <= c[n]
    BY <1>8, <2>1
  <2> QED BY <1>1, <1>5, <2>1, <2>2, <2>3
<1>11. \A m, l \in F : c[m] = c[l] => m = l
  <2> SUFFICES ASSUME NEW m \in F, NEW l \in F, c[m] = c[l] PROVE m = l
    OBVIOUS
  <2>1. c[m] \in Nat /\ ~(m < l) /\ ~(l < m)
    BY <1>9, <1>10
  <2> QED BY <2>1
<1> QED BY <1>1, <1>6, <1>7, <1>10, <1>11

\* Where a sequence does not repeat the element before.
Firsts(s) == {k \in 1 .. Len(s) : k = 1 \/ s[k] # s[k - 1]}

LEMMA DistinctIs ==
  ASSUME NEW s \in Seq(Frames)
  PROVE  LET F == Firsts(s)
         IN  /\ F \in SUBSET (1 .. Len(s))
             /\ Distinct(s) = [k \in 1 .. Cardinality(F) |->
                                s[CHOOSE m \in F : Rank(F, m) = k]]
  BY DEF Distinct, Firsts, Rank

\* The k-th of the places is the one of that rank.
LEMMA PlaceIs ==
  ASSUME NEW n \in Nat, NEW F \in SUBSET (1 .. n), NEW m \in F
  PROVE  (CHOOSE l \in F : Rank(F, l) = Rank(F, m)) = m
<1> DEFINE l == CHOOSE l \in F : Rank(F, l) = Rank(F, m)
<1>1. l \in F /\ Rank(F, l) = Rank(F, m)
  OBVIOUS
<1> HIDE DEF l
<1>2. l = m
  BY <1>1, RankIs
<1> QED BY <1>2 DEF l

\* Distinct gives, by rank, what stands in those places.
LEMMA DistinctAt ==
  ASSUME NEW s \in Seq(Frames), NEW d,
         d = [k \in 1 .. Cardinality(Firsts(s)) |-> d[k]],
         \A m \in Firsts(s) : d[Rank(Firsts(s), m)] = s[m]
  PROVE  Distinct(s) = d
<1> DEFINE F == Firsts(s)
           D == Distinct(s)
<1>1. F \in SUBSET (1 .. Len(s)) /\ Len(s) \in Nat
  BY DistinctIs
<1>2. D = [k \in 1 .. Cardinality(F) |-> s[CHOOSE m \in F : Rank(F, m) = k]]
  BY DistinctIs, Zenon
<1> HIDE DEF F, D
<1>3. ASSUME NEW k \in 1 .. Cardinality(F) PROVE D[k] = d[k]
  <2>1. PICK m \in F : Rank(F, m) = k
    BY <1>1, RankIs
  <2>2. (CHOOSE l \in F : Rank(F, l) = k) = m
    BY <1>1, <2>1, PlaceIs
  <2>3. D[k] = s[m]
    BY <1>2, <2>2, Zenon
  <2> QED BY <2>1, <2>3 DEF F
<1>4. D = [k \in 1 .. Cardinality(F) |-> D[k]]
  BY <1>2
<1> QED BY <1>3, <1>4 DEF D, F

LEMMA AppendIs ==
  ASSUME NEW s \in Seq(Frames), NEW f \in Frames
  PROVE  LET e == Append(s, f)
             n == Len(s)
         IN  /\ n \in Nat /\ e \in Seq(Frames) /\ Len(e) = n + 1 /\ e[n + 1] = f
             /\ \A k \in 1 .. n : e[k] = s[k]
             /\ \A k \in 1 .. n : k \in Firsts(e) <=> k \in Firsts(s)
             /\ n + 1 \in Firsts(e) <=> (s = <<>> \/ f # s[n])
             /\ Firsts(e) \subseteq 1 .. n + 1
<1> DEFINE e == Append(s, f)
           n == Len(s)
<1>1. n \in Nat /\ e \in Seq(Frames) /\ Len(e) = n + 1
  OBVIOUS
<1>2. e[n + 1] = f /\ \A k \in 1 .. n : e[k] = s[k]
  OBVIOUS
<1>3. s = <<>> <=> n = 0
  OBVIOUS
<1> HIDE DEF e, n
<1>4. Firsts(e) = {k \in 1 .. n + 1 : k = 1 \/ e[k] # e[k - 1]}
  BY <1>1 DEF Firsts
<1>5. Firsts(s) = {k \in 1 .. n : k = 1 \/ s[k] # s[k - 1]}
  BY DEF Firsts, n
<1>6. ASSUME NEW k \in 1 .. n PROVE k \in Firsts(e) <=> k \in Firsts(s)
  <2>1. k \in 1 .. n + 1 /\ (k # 1 => k - 1 \in 1 .. n)
    BY <1>1
  <2> QED BY <1>2, <1>4, <1>5, <2>1
<1>7. n + 1 \in Firsts(e) <=> (s = <<>> \/ f # s[n])
  <2>1. n + 1 \in 1 .. n + 1 /\ (n + 1) - 1 = n /\ (n + 1 = 1 <=> n = 0) /\ (n # 0 => n \in 1 .. n)
    BY <1>1
  <2> QED BY <1>2, <1>3, <1>4, <2>1
<1>8. Firsts(e) \subseteq 1 .. n + 1
  BY <1>4
<1> QED BY <1>1, <1>2, <1>6, <1>7, <1>8 DEF e, n

\* A frame that is another than the last goes to the end.
LEMMA DistinctNew ==
  ASSUME NEW s \in Seq(Frames), NEW f \in Frames, s = <<>> \/ f # s[Len(s)]
  PROVE  Distinct(Append(s, f)) = Append(Distinct(s), f)
<1> DEFINE e == Append(s, f)
           n == Len(s)
           F == Firsts(s)
           G == Firsts(e)
           c == Cardinality(F)
           d == Append(Distinct(s), f)
<1>1. /\ n \in Nat /\ e \in Seq(Frames) /\ Len(e) = n + 1 /\ e[n + 1] = f
      /\ \A k \in 1 .. n : e[k] = s[k]
      /\ \A k \in 1 .. n : k \in G <=> k \in F
      /\ n + 1 \in G /\ G \subseteq 1 .. n + 1
  BY AppendIs
<1>2. F \in SUBSET (1 .. n)
  BY DistinctIs
<1>3. /\ c \in Nat /\ IsFiniteSet(F)
      /\ \A m \in F : Rank(F, m) \in 1 .. c
  BY <1>1, <1>2, RankIs
<1> DEFINE D == Distinct(s)
<1>4. D = [k \in 1 .. c |-> s[CHOOSE m \in F : Rank(F, m) = k]]
  BY DistinctIs, Zenon
<1> HIDE DEF n, F, c, D
<1>5. \A m \in F : D[Rank(F, m)] = s[m]
  BY <1>1, <1>2, <1>3, <1>4, PlaceIs
<1>6. D \in Seq(Frames) /\ Len(D) = c
  <2>1. ASSUME NEW k \in 1 .. c PROVE D[k] \in Frames
    <3>1. PICK m \in F : Rank(F, m) = k
      BY <1>1, <1>2, RankIs DEF c
    <3>2. s[m] \in Frames
      BY <1>2 DEF n
    <3> QED BY <1>5, <3>1, <3>2
  <2>2. D \in [1 .. c -> Frames]
    BY <1>4, <2>1
  <2> QED BY <1>3, <2>2
<1>7. /\ d = [k \in 1 .. c + 1 |-> d[k]]
      /\ d[c + 1] = f /\ \A k \in 1 .. c : d[k] = D[k]
  <2>1. d = Append(D, f)
    BY DEF D
  <2> HIDE DEF d
  <2>2. d \in Seq(Frames) /\ Len(d) = c + 1
    BY <1>6, <2>1
  <2>3. d[c + 1] = f /\ \A k \in 1 .. c : d[k] = D[k]
    BY <1>3, <1>6, <2>1
  <2>4. d = [k \in 1 .. Len(d) |-> d[k]]
    BY <2>2
  <2> QED BY <2>2, <2>3, <2>4
<1> HIDE DEF e, G, d
<1>8. G = F \cup {n + 1} /\ n + 1 \notin F
  <2>1. \A k : k \in 1 .. n + 1 => k \in 1 .. n \/ k = n + 1
    BY <1>1
  <2>2. n + 1 \notin 1 .. n
    BY <1>1
  <2> QED BY <1>1, <1>2, <2>1, <2>2
<1>9. Cardinality(G) = c + 1
  BY <1>3, <1>8, FS_AddElement DEF c
<1>10. ASSUME NEW m \in F PROVE Rank(G, m) = Rank(F, m)
  <2>1. ~(n + 1 <= m)
    <3>1. m \in 1 .. n
      BY <1>2
    <3> QED BY <1>1, <3>1
  <2>2. {x \in G : x <= m} = {x \in F : x <= m}
    BY <1>8, <2>1
  <2> QED BY <2>2 DEF Rank
<1>11. Rank(G, n + 1) = c + 1
  <2>1. \A x \in G : x <= n + 1
    <3>1. \A x \in 1 .. n + 1 : x <= n + 1
      OBVIOUS
    <3> QED BY <1>1, <3>1
  <2>2. {x \in G : x <= n + 1} = G
    BY <2>1
  <2> QED BY <1>9, <2>2 DEF Rank
<1>12. ASSUME NEW m \in G PROVE d[Rank(G, m)] = e[m]
  <2>1. CASE m = n + 1
    BY <1>1, <1>7, <1>11, <2>1
  <2>2. CASE m \in F
    <3>1. m \in 1 .. n /\ Rank(F, m) \in 1 .. c
      BY <1>2, <1>3, <2>2
    <3> QED BY <1>1, <1>5, <1>7, <1>10, <2>2, <3>1
  <2> QED BY <1>8, <2>1, <2>2
<1>13. d = [k \in 1 .. Cardinality(G) |-> d[k]]
  BY <1>7, <1>9
<1>14. Distinct(e) = d
  BY <1>1, <1>12, <1>13, DistinctAt DEF G
<1> QED BY <1>14 DEF e, d

\* One that is the last again changes nothing.
LEMMA DistinctRepeat ==
  ASSUME NEW s \in Seq(Frames), s # <<>>
  PROVE  Distinct(Append(s, s[Len(s)])) = Distinct(s)
<1> DEFINE n == Len(s)
           f == s[n]
           e == Append(s, f)
           F == Firsts(s)
           G == Firsts(e)
           c == Cardinality(F)
           d == Distinct(s)
<1>1. f \in Frames
  OBVIOUS
<1>2. /\ n \in Nat /\ e \in Seq(Frames)
      /\ \A k \in 1 .. n : e[k] = s[k]
      /\ \A k \in 1 .. n : k \in G <=> k \in F
      /\ n + 1 \notin G /\ G \subseteq 1 .. n + 1
  BY <1>1, AppendIs
<1>3. F \in SUBSET (1 .. n)
  BY DistinctIs
<1>4. d = [k \in 1 .. c |-> s[CHOOSE m \in F : Rank(F, m) = k]]
  BY DistinctIs, Zenon
<1>5. \A m \in F : Rank(F, m) \in 1 .. c
  BY <1>2, <1>3, RankIs
<1> HIDE DEF e, n, F, G, c, d, f
<1>6. G = F
  <2>1. \A k : k \in 1 .. n + 1 => k \in 1 .. n \/ k = n + 1
    BY <1>2
  <2> QED BY <1>2, <1>3, <2>1
<1>7. ASSUME NEW m \in G PROVE d[Rank(G, m)] = e[m]
  <2>1. d[Rank(F, m)] = s[m]
    BY <1>2, <1>3, <1>4, <1>5, <1>6, PlaceIs
  <2>2. m \in 1 .. n
    BY <1>3, <1>6
  <2> QED BY <1>2, <1>6, <2>1, <2>2
<1>8. d = [k \in 1 .. Cardinality(G) |-> d[k]]
  <2>1. d = [k \in 1 .. c |-> d[k]]
    BY <1>4
  <2> QED BY <1>6, <2>1 DEF c
<1>9. Distinct(e) = d
  BY <1>2, <1>7, <1>8, DistinctAt DEF G
<1> QED BY <1>9 DEF e, d, f, n

-----------------------------------------------------------------------------
(* The invariant *)

Steps == {"idle", "open", "header", "head", "block", "tail", "iend", "rename", "saved", "failed"}

Recorders == [active : BOOLEAN, path : Name \cup {None}, frames : Nat,
              last : Frames \cup {None}]

VarsOK ==
  /\ now \in Seconds /\ want_shot \in BOOLEAN /\ running \in BOOLEAN
  /\ rec \in Recorders
  /\ seen \in Seq(Frames)

\* An active recording has a file, which nothing else is reported as, and holds
\* what was seen; what it compares a frame with is what was seen last.
RecOK ==
  rec.active =>
    /\ rec.path \in DOMAIN disk /\ rec.path.ext = "cast"
    /\ saved_cast # None => rec.path # saved_cast
    /\ running => ~disk[rec.path].torn
    /\ rec.frames = 0 <=> seen = <<>>
    /\ seen # <<>> => rec.last = seen[Len(seen)]
    /\ CastExact

SavedOK ==
  /\ SavedIsThere
  /\ saved_shot # None => saved_shot.ext # "cast"

\* A picture is not at its place before it is whole, and no other is there.
PngOK ==
  /\ pc \in Steps
  /\ pc \in {"idle", "open", "saved", "failed"} => tmp = "none"
  /\ pc = "rename" => tmp = "whole"
  /\ pc # "idle" => path = IF pc = "saved" THEN "whole" ELSE "none"

\* While a picture is written its text is there, and it is not.
ShotOK ==
  pc # "idle" =>
    /\ shot.name \in Name /\ shot.name.ext = "png" /\ shot.frame \in Frames
    /\ TextOf(shot.name) \in DOMAIN disk
    /\ disk[TextOf(shot.name)] = Shot(shot.frame)
    /\ shot.name \in DOMAIN disk <=> pc = "saved"

FilesInv == VarsOK /\ DiskOK(disk) /\ RecOK /\ SavedOK /\ PngOK /\ ShotOK

\* What is there stays as it is, but for the active recording.
Kept == \A n \in DOMAIN disk :
          n \in DOMAIN disk' /\ (disk'[n] # disk[n] => rec.active /\ n = rec.path)

LEMMA DistinctEmpty == Distinct(<<>>) = <<>>
<1>1. <<>> \in Seq(Frames) /\ Firsts(<<>>) = {}
  BY DEF Firsts
<1>2. Cardinality(Firsts(<<>>)) = 0
  BY <1>1, FS_EmptySet
<1>3. <<>> = [k \in 1 .. Cardinality(Firsts(<<>>)) |-> <<>>[k]]
  BY <1>2
<1> QED BY <1>1, <1>3, DistinctAt

LEMMA InitInv == Init => FilesInv
<1> SUFFICES ASSUME Init PROVE FilesInv
  OBVIOUS
<1>1. DOMAIN disk = {}
  BY DEF Init
<1>2. DiskOK(disk)
  BY <1>1 DEF DiskOK
<1>3. VarsOK
  <2>1. NoRec \in Recorders
    BY DEF NoRec, Recorders
  <2>2. want_shot \in BOOLEAN /\ running \in BOOLEAN
    BY Zenon DEF Init
  <2>3. now \in Seconds /\ rec = NoRec /\ seen \in Seq(Frames)
    BY DEF Init
  <2> QED BY <2>1, <2>2, <2>3 DEF VarsOK
<1>4. RecOK /\ SavedOK
  BY DEF Init, RecOK, NoRec, SavedOK, SavedIsThere
<1>5. PngOK /\ ShotOK
  BY DEF Init, Idle, PngOK, ShotOK, Steps
<1> QED BY <1>2, <1>3, <1>4, <1>5 DEF FilesInv

\* Files that are added disturb neither the recording nor what was reported.
LEMMA AddedFiles ==
  ASSUME FilesInv, \A n \in DOMAIN disk : n \in DOMAIN disk' /\ disk'[n] = disk[n],
         UNCHANGED <<rec, saved_cast, saved_shot, seen>>, running' => running
  PROVE  RecOK' /\ SavedOK' /\ Kept
<1>1. RecOK'
  BY DEF FilesInv, RecOK, CastExact
<1>2. SavedOK'
  BY DEF FilesInv, SavedOK, SavedIsThere
<1> QED BY <1>1, <1>2 DEF Kept

LEMMA RecStartInv == ASSUME FilesInv, running, pc = "idle", RecStart PROVE FilesInv' /\ Kept
<1>1. PngOK' /\ ShotOK'
  BY DEF RecStart, pngVars, FilesInv, PngOK, ShotOK
<1>2. CASE UNCHANGED <<disk, rec, seen>>
  <2>1. VarsOK' /\ DiskOK(disk')
    BY <1>2 DEF RecStart, FilesInv, VarsOK
  <2>2. RecOK' /\ SavedOK' /\ Kept
    BY <1>2, AddedFiles DEF RecStart
  <2> QED BY <1>1, <2>1, <2>2 DEF FilesInv
<1>3. ASSUME NEW n \in OpenUnique(Stamp(now), "cast"),
             disk' = Put(disk, n, Cast(<<>>, FALSE)),
             rec' = [active |-> TRUE, path |-> n, frames |-> 0, last |-> None],
             seen' = <<>>
      PROVE  FilesInv' /\ Kept
  <2>1. n \in Name /\ n.ext = "cast" /\ n \notin DOMAIN disk
    BY FreeName
  <2>2. Cast(<<>>, FALSE) \in Content
    BY DEF Cast, Content
  <2>3. DiskOK(disk')
    BY <1>3, <2>1, <2>2, PutCast DEF FilesInv
  <2>4. /\ DOMAIN disk' = DOMAIN disk \cup {n} /\ disk'[n] = Cast(<<>>, FALSE)
        /\ \A x \in DOMAIN disk : x # n => disk'[x] = disk[x]
    BY <1>3 DEF Put
  <2>5. VarsOK'
    BY <1>3, <2>1 DEF RecStart, FilesInv, VarsOK, Recorders
  <2>6. SavedOK' /\ (saved_cast' # None => saved_cast' # n)
    BY <2>1, <2>4 DEF RecStart, FilesInv, SavedOK, SavedIsThere
  <2>7. RecOK'
    <3>1. disk'[n].frames = <<>> /\ ~disk'[n].torn
      BY <2>4 DEF Cast
    <3> QED BY <1>3, <2>1, <2>4, <2>6, <3>1, DistinctEmpty DEF RecOK, CastExact
  <2>8. Kept
    BY <2>1, <2>4 DEF Kept
  <2> QED BY <1>1, <2>3, <2>5, <2>6, <2>7, <2>8 DEF FilesInv
<1> QED BY <1>2, <1>3 DEF RecStart

\* Stopped, or the program ends without a recording.
LEMMA StopInv ==
  ASSUME FilesInv, running, Stopped \/ (~rec.active /\ UNCHANGED <<rec, saved_cast, seen>>),
         running' \in BOOLEAN, UNCHANGED <<now, disk, want_shot, saved_shot, shot, pngVars>>
  PROVE  FilesInv' /\ Kept
<1>1. PngOK' /\ ShotOK' /\ DiskOK(disk') /\ Kept
  BY DEF pngVars, FilesInv, PngOK, ShotOK, Kept
<1>2. CASE Stopped
  <2>1. rec.active /\ rec' = [rec EXCEPT !.active = FALSE] /\ saved_cast' = rec.path /\ seen' = <<>>
    BY <1>2 DEF Stopped
  <2>2. rec' \in Recorders /\ ~rec'.active
    BY <2>1 DEF FilesInv, VarsOK, Recorders
  <2>3. VarsOK' /\ RecOK'
    BY <2>1, <2>2 DEF FilesInv, VarsOK, RecOK
  <2>4. SavedOK'
    BY <2>1 DEF FilesInv, SavedOK, SavedIsThere, RecOK
  <2> QED BY <1>1, <2>3, <2>4 DEF FilesInv
<1>3. CASE ~rec.active /\ UNCHANGED <<rec, saved_cast, seen>>
  BY <1>1, <1>3 DEF FilesInv, VarsOK, RecOK, SavedOK, SavedIsThere
<1> QED BY <1>2, <1>3

\* What rec_frame leaves: the frame is in the recording, or that is over.
LEMMA RecordedIs ==
  ASSUME FilesInv, running, NEW f \in Frames, NEW r \in Recorded(f)
  PROVE  LET d == r[1]
             q == r[2]
         IN  /\ DiskOK(d) /\ DOMAIN d = DOMAIN disk
             /\ \A n \in DOMAIN disk : d[n] # disk[n] => rec.active /\ n = rec.path
             /\ q \in Recorders /\ q.path = rec.path
             /\ q.active => /\ rec.active /\ q.frames # 0 /\ q.last = f /\ ~d[q.path].torn
                            /\ d[q.path].frames = Distinct(Append(seen, f))
<1>1. DiskOK(disk) /\ rec \in Recorders /\ seen \in Seq(Frames)
  BY DEF FilesInv, VarsOK
<1>2. CASE ~rec.active
  <2>1. r[1] = disk /\ r[2] = rec
    BY <1>2 DEF Recorded
  <2> QED BY <1>1, <1>2, <2>1
<1>3. ASSUME rec.active
      PROVE  /\ rec.path \in DOMAIN disk /\ rec.path \in Name /\ rec.path.ext = "cast"
             /\ ~disk[rec.path].torn /\ disk[rec.path].frames = Distinct(seen)
             /\ disk[rec.path] \in Content /\ disk[rec.path].frames \in Seq(Frames)
             /\ rec.frames = 0 <=> seen = <<>>
             /\ seen # <<>> => rec.last = seen[Len(seen)]
             /\ rec.frames \in Nat
  BY <1>1, <1>3 DEF FilesInv, RecOK, CastExact, DiskOK, Content, Recorders
<1>4. CASE rec.active /\ Repeat(f)
  <2>1. r[1] = disk /\ r[2] = rec
    BY <1>4 DEF Recorded
  <2>2. rec.frames # 0 /\ f = seen[Len(seen)] /\ seen # <<>>
    BY <1>3, <1>4 DEF Repeat
  <2>3. Distinct(Append(seen, f)) = Distinct(seen)
    BY <1>1, <2>2, DistinctRepeat
  <2> QED BY <1>1, <1>3, <1>4, <2>1, <2>2, <2>3
<1>5. CASE rec.active /\ ~Repeat(f)
  <2>1. CASE r = <<Written(f), [rec EXCEPT !.frames = @ + 1, !.last = f]>>
    <3> DEFINE c == Cast(Append(disk[rec.path].frames, f), FALSE)
               q == r[2]
               d == r[1]
    <3>1. d = Put(disk, rec.path, c)
      BY <2>1 DEF Written
    <3>2. c \in Content /\ ~c.torn /\ c.frames = Append(Distinct(seen), f)
      <4>1. Append(disk[rec.path].frames, f) \in Seq(Frames)
        BY <1>3, <1>5
      <4> QED BY <1>3, <1>5, <4>1 DEF Cast, Content
    <3>3. q = [rec EXCEPT !.frames = @ + 1, !.last = f]
      BY <2>1
    <3>4. q \in Recorders /\ q.path = rec.path /\ q.frames = rec.frames + 1 /\ q.last = f
      <4> DEFINE u == [rec EXCEPT !.frames = @ + 1]
      <4>1. u \in Recorders /\ u.path = rec.path /\ u.frames = rec.frames + 1
        BY <1>1 DEF Recorders
      <4>2. q = [u EXCEPT !.last = f]
        BY <3>3
      <4> HIDE DEF u, q
      <4> QED BY <4>1, <4>2 DEF Recorders
    <3> HIDE DEF c, d, q
    <3>5. /\ DOMAIN d = DOMAIN disk /\ d[rec.path] = c
          /\ \A n \in DOMAIN disk : d[n] # disk[n] => n = rec.path
      BY <1>3, <1>5, <3>1 DEF Put
    <3>6. DiskOK(d)
      BY <1>1, <1>3, <1>5, <3>1, <3>2, PutCast
    <3>7. seen = <<>> \/ f # seen[Len(seen)]
      BY <1>3, <1>5 DEF Repeat
    <3>8. Distinct(Append(seen, f)) = Append(Distinct(seen), f)
      BY <1>1, <3>7, DistinctNew
    <3>9. q.frames # 0
      BY <1>3, <1>5, <3>4
    <3> QED BY <1>5, <3>2, <3>4, <3>5, <3>6, <3>8, <3>9 DEF d, q
  <2>2. CASE r = <<Torn, [rec EXCEPT !.active = FALSE]>>
    <3> DEFINE c == Cast(disk[rec.path].frames, TRUE)
               q == r[2]
               d == r[1]
    <3>1. d = Put(disk, rec.path, c) /\ q = [rec EXCEPT !.active = FALSE]
      BY <2>2 DEF Torn
    <3>2. c \in Content
      BY <1>3, <1>5 DEF Cast, Content
    <3>3. q \in Recorders /\ q.path = rec.path /\ ~q.active
      BY <1>1, <3>1 DEF Recorders
    <3> HIDE DEF c, d, q
    <3>4. /\ DOMAIN d = DOMAIN disk
          /\ \A n \in DOMAIN disk : d[n] # disk[n] => n = rec.path
      BY <1>3, <1>5, <3>1 DEF Put
    <3>5. DiskOK(d)
      BY <1>1, <1>3, <1>5, <3>1, <3>2, PutCast
    <3> QED BY <1>5, <3>3, <3>4, <3>5 DEF d, q
  <2> QED BY <1>5, <2>1, <2>2 DEF Recorded
<1> QED BY <1>2, <1>4, <1>5

LEMMA ShowFrameInv ==
  ASSUME FilesInv, running, pc = "idle", NEW f \in Frames, ShowFrame(f)
  PROVE  FilesInv' /\ Kept
<1>1. PICK r \in Recorded(f) :
        /\ rec' = r[2]
        /\ IF want_shot THEN TextSaved(f, r[1])
                        ELSE disk' = r[1] /\ UNCHANGED <<saved_shot, shot, pngVars>>
  BY DEF ShowFrame
<1>2. /\ want_shot' = FALSE /\ UNCHANGED <<now, saved_cast, running>>
      /\ seen' = IF rec'.active THEN Append(seen, f) ELSE <<>>
  BY DEF ShowFrame
<1> DEFINE d == r[1]
<1>3. /\ DiskOK(d) /\ DOMAIN d = DOMAIN disk
      /\ \A n \in DOMAIN disk : d[n] # disk[n] => rec.active /\ n = rec.path
      /\ rec' \in Recorders /\ rec'.path = rec.path
      /\ rec'.active => /\ rec.active /\ rec'.frames # 0 /\ rec'.last = f
                        /\ ~d[rec'.path].torn
                        /\ d[rec'.path].frames = Distinct(Append(seen, f))
  BY <1>1, RecordedIs
<1>4. /\ seen \in Seq(Frames) /\ seen' \in Seq(Frames)
      /\ rec'.active => seen' # <<>> /\ seen'[Len(seen')] = f
  <2>1. seen \in Seq(Frames) /\ Append(seen, f) \in Seq(Frames)
    BY DEF FilesInv, VarsOK
  <2>2. Append(seen, f) # <<>> /\ Append(seen, f)[Len(Append(seen, f))] = f
    BY <2>1
  <2> QED BY <1>2, <2>1, <2>2
<1>5. VarsOK'
  BY <1>2, <1>3, <1>4 DEF FilesInv, VarsOK
<1>6. rec.active => /\ rec.path \in DOMAIN disk /\ rec.path.ext = "cast"
                    /\ saved_cast # None => rec.path # saved_cast
  BY DEF FilesInv, RecOK
<1>7. PngOK /\ SavedIsThere /\ DiskOK(disk) /\ (saved_shot # None => saved_shot.ext # "cast")
  BY DEF FilesInv, SavedOK
<1> HIDE DEF d
<1>8. CASE disk' = d /\ UNCHANGED <<saved_shot, shot, pngVars>>
  <2>1. RecOK'
    BY <1>2, <1>3, <1>4, <1>6, <1>8 DEF RecOK, CastExact
  <2>2. SavedOK'
    BY <1>2, <1>3, <1>6, <1>7, <1>8 DEF SavedOK, SavedIsThere
  <2>3. PngOK' /\ ShotOK'
    BY <1>7, <1>8 DEF pngVars, PngOK, ShotOK
  <2>4. Kept
    BY <1>3, <1>8 DEF Kept
  <2> QED BY <1>3, <1>5, <1>8, <2>1, <2>2, <2>3, <2>4 DEF FilesInv
<1>9. ASSUME NEW n \in OpenUnique(Stamp(now), "ansi"),
             disk' = Put(d, n, Shot(f)), saved_shot' = n,
             shot' = [name |-> [n EXCEPT !.ext = "png"], frame |-> f],
             Called([n EXCEPT !.ext = "png"] \in DOMAIN d)
      PROVE  FilesInv' /\ Kept
  <2> DEFINE p == [n EXCEPT !.ext = "png"]
  <2>1. n \in Name /\ n.ext = "ansi" /\ n \notin DOMAIN disk
    BY FreeName
  <2>2. p \in Name /\ p.ext = "png" /\ TextOf(p) = n /\ p \notin DOMAIN disk
    BY <1>7, FreePair
  <2>3. shot'.name = p /\ shot'.frame = f /\ ~(p \in DOMAIN d) /\ Called(p \in DOMAIN d)
    BY <1>3, <1>9, <2>2
  <2> HIDE DEF p
  <2>4. /\ DOMAIN disk' = DOMAIN disk \cup {n} /\ disk'[n] = Shot(f)
        /\ \A x \in DOMAIN disk : disk'[x] = d[x]
    BY <1>3, <1>9, <2>1 DEF Put
  <2>5. DiskOK(disk')
    BY <1>3, <1>9, <2>1, ContentIs, PutText
  <2>6. RecOK'
    BY <1>2, <1>3, <1>4, <1>6, <2>4 DEF RecOK, CastExact
  <2>7. SavedOK'
    BY <1>2, <1>3, <1>6, <1>7, <1>9, <2>1, <2>4, ContentIs DEF SavedOK, SavedIsThere
  <2>8. PngOK'
    BY <1>7, <2>3 DEF Called, PngOK, Steps
  <2>9. ShotOK'
    <3>1. pc' = "open"
      BY <2>3 DEF Called
    <3>2. p # n
      BY <2>1, <2>2
    <3> QED BY <2>2, <2>3, <2>4, <3>1, <3>2 DEF ShotOK
  <2>10. Kept
    BY <1>3, <2>1, <2>4 DEF Kept
  <2> QED BY <1>5, <2>5, <2>6, <2>7, <2>8, <2>9, <2>10 DEF FilesInv
<1> QED BY <1>1, <1>8, <1>9 DEF TextSaved, d

\* The renaming that succeeds is the one step that changes the directory.
LEMMA PictureInv == ASSUME FilesInv, running, Picture PROVE FilesInv' /\ Kept
<1>1. /\ disk' = IF path' = path THEN disk
                 ELSE Put(disk, shot.name, [Shot(shot.frame) EXCEPT !.torn = path' # "whole"])
      /\ UNCHANGED <<now, rec, want_shot, saved_cast, saved_shot, running, shot, seen>>
  BY DEF Picture
<1>2. PngOK /\ PngOK' /\ pc # "idle" /\ pc' # "idle" /\ pc # "saved"
  BY DEF FilesInv, Picture, Writing, Open, WriteFails, Header, IdatHead, Block, IdatTail,
         Iend, Rename, PngOK, Steps
<1>3. /\ path = "none" /\ (path' = path <=> pc' # "saved")
      /\ (pc' = "saved" => path' = "whole")
  BY <1>2 DEF PngOK
<1>4. /\ shot.name \in Name /\ shot.name.ext = "png" /\ shot.frame \in Frames
      /\ TextOf(shot.name) \in DOMAIN disk
      /\ disk[TextOf(shot.name)] = Shot(shot.frame)
      /\ shot.name \notin DOMAIN disk
      /\ DiskOK(disk)
  BY <1>2 DEF FilesInv, ShotOK
<1>5. VarsOK'
  BY <1>1 DEF FilesInv, VarsOK
<1>6. CASE pc' # "saved"
  <2>1. disk' = disk
    BY <1>1, <1>3, <1>6
  <2>2. RecOK' /\ SavedOK' /\ Kept
    BY <1>1, <2>1, AddedFiles
  <2>3. ShotOK'
    BY <1>1, <1>2, <1>4, <1>6, <2>1 DEF ShotOK
  <2> QED BY <1>2, <1>4, <1>5, <2>1, <2>2, <2>3 DEF FilesInv
<1>7. CASE pc' = "saved"
  <2>1. disk' = Put(disk, shot.name, disk[TextOf(shot.name)])
    <3>1. path' # path /\ (path' # "whole") = FALSE
      BY <1>3, <1>7
    <3>2. disk' = Put(disk, shot.name, [Shot(shot.frame) EXCEPT !.torn = FALSE])
      BY <1>1, <3>1
    <3> QED BY <1>4, <3>2, ContentIs
  <2>2. /\ DOMAIN disk' = DOMAIN disk \cup {shot.name}
        /\ \A x \in DOMAIN disk : disk'[x] = disk[x]
    BY <1>4, <2>1 DEF Put
  <2>3. DiskOK(disk')
    BY <1>4, <2>1, PutPicture, ContentIs
  <2>4. RecOK' /\ SavedOK' /\ Kept
    BY <1>1, <2>2, AddedFiles
  <2>5. ShotOK'
    BY <1>1, <1>4, <1>7, <2>2 DEF ShotOK
  <2> QED BY <1>2, <1>5, <2>3, <2>4, <2>5 DEF FilesInv
<1> QED BY <1>6, <1>7

LEMMA ShotDoneInv == ASSUME FilesInv, running, ShotDone PROVE FilesInv' /\ Kept
<1>1. /\ pc' = "idle" /\ tmp' = "none"
      /\ saved_shot' = IF pc = "saved" THEN shot.name ELSE saved_shot
      /\ UNCHANGED <<now, disk, rec, want_shot, saved_cast, running, seen>>
      /\ pc # "idle"
  BY DEF ShotDone, Return
<1>2. PngOK' /\ ShotOK'
  BY <1>1 DEF PngOK, ShotOK, Steps
<1>3. VarsOK' /\ DiskOK(disk') /\ RecOK' /\ Kept
  BY <1>1 DEF FilesInv, VarsOK, RecOK, CastExact, Kept
<1>4. pc = "saved" => /\ shot.name \in DOMAIN disk /\ ~disk[shot.name].torn
                      /\ shot.name.ext = "png"
  BY DEF FilesInv, ShotOK, DiskOK
<1>5. SavedOK'
  BY <1>1, <1>4 DEF FilesInv, SavedOK, SavedIsThere
<1> QED BY <1>2, <1>3, <1>5 DEF FilesInv

\* Other instances take free names, for a picture that of their text.
LEMMA ElsewhereInv == ASSUME FilesInv, running, Elsewhere PROVE FilesInv' /\ Kept
<1>1. UNCHANGED <<now, rec, want_shot, saved_cast, saved_shot, running, shot, seen, pngVars>>
  BY DEF Elsewhere
<1>2. VarsOK' /\ PngOK' /\ DiskOK(disk)
  BY <1>1 DEF pngVars, FilesInv, VarsOK, PngOK
<1>3. ASSUME NEW n \in OpenUnique(Stamp(now), "cast"), disk' = Put(disk, n, Cast(<<>>, FALSE))
      PROVE  FilesInv' /\ Kept
  <2>1. n \in Name /\ n.ext = "cast" /\ n \notin DOMAIN disk
    BY FreeName
  <2>2. DiskOK(disk')
    <3>1. Cast(<<>>, FALSE) \in Content
      BY DEF Cast, Content
    <3> QED BY <1>2, <1>3, <2>1, <3>1, PutCast
  <2>3. /\ DOMAIN disk' = DOMAIN disk \cup {n}
        /\ \A x \in DOMAIN disk : disk'[x] = disk[x]
    BY <1>3, <2>1 DEF Put
  <2>4. RecOK' /\ SavedOK' /\ Kept
    BY <1>1, <2>3, AddedFiles
  <2>5. ShotOK'
    BY <1>1, <2>1, <2>3 DEF pngVars, FilesInv, ShotOK
  <2> QED BY <1>2, <2>2, <2>4, <2>5 DEF FilesInv
<1>4. ASSUME NEW n \in OpenUnique(Stamp(now), "ansi"), NEW f \in Frames,
             disk' = Put(Put(disk, n, Shot(f)), [n EXCEPT !.ext = "png"], Shot(f))
      PROVE  FilesInv' /\ Kept
  <2> DEFINE p == [n EXCEPT !.ext = "png"]
             d == Put(disk, n, Shot(f))
  <2>1. n \in Name /\ n.ext = "ansi" /\ n \notin DOMAIN disk
    BY FreeName
  <2>2. p \in Name /\ p.ext = "png" /\ TextOf(p) = n /\ p \notin DOMAIN disk
    BY <1>2, FreePair
  <2>3. disk' = Put(d, p, Shot(f))
    BY <1>4
  <2> HIDE DEF p
  <2>4. /\ DOMAIN d = DOMAIN disk \cup {n} /\ d[n] = Shot(f)
        /\ \A x \in DOMAIN disk : d[x] = disk[x]
    BY <2>1 DEF Put
  <2>5. DiskOK(d)
    BY <1>2, <2>1, ContentIs, PutText
  <2> HIDE DEF d
  <2>6. DiskOK(disk')
    BY <2>2, <2>3, <2>4, <2>5, ContentIs, PutPicture
  <2>7. /\ DOMAIN disk' = DOMAIN disk \cup {n, p}
        /\ \A x \in DOMAIN disk : disk'[x] = disk[x]
    BY <2>2, <2>3, <2>4 DEF Put
  <2>8. RecOK' /\ SavedOK' /\ Kept
    BY <1>1, <2>7, AddedFiles
  <2>9. ShotOK'
    <3>1. pc # "idle" => shot.name # n /\ shot.name # p
      BY <2>1, <2>2 DEF FilesInv, ShotOK
    <3> QED BY <1>1, <2>7, <3>1 DEF pngVars, FilesInv, ShotOK
  <2> QED BY <1>2, <2>6, <2>8, <2>9 DEF FilesInv
<1> QED BY <1>3, <1>4 DEF Elsewhere

\* A program that dies may leave the last line of its recording half written.
LEMMA DieInv == ASSUME FilesInv, running, Die PROVE FilesInv' /\ Kept
<1>1. /\ running' = FALSE
      /\ UNCHANGED <<now, rec, want_shot, saved_cast, saved_shot, shot, seen, pngVars>>
      /\ disk' = disk \/ (pc = "idle" /\ rec.active /\ disk' = Torn)
  BY DEF Die
<1>2. VarsOK' /\ PngOK' /\ DiskOK(disk)
  BY <1>1 DEF pngVars, FilesInv, VarsOK, PngOK
<1>3. CASE disk' = disk
  <2>1. RecOK' /\ SavedOK' /\ Kept
    BY <1>1, <1>3, AddedFiles
  <2>2. ShotOK'
    BY <1>1, <1>3 DEF pngVars, FilesInv, ShotOK
  <2> QED BY <1>2, <1>3, <2>1, <2>2 DEF FilesInv
<1>4. CASE pc = "idle" /\ rec.active /\ disk' = Torn
  <2> DEFINE c == Cast(disk[rec.path].frames, TRUE)
  <2>1. /\ rec.path \in DOMAIN disk /\ rec.path \in Name /\ rec.path.ext = "cast"
        /\ disk[rec.path] \in Content
    BY <1>2, <1>4 DEF FilesInv, RecOK, DiskOK
  <2>2. c \in Content /\ c.frames = disk[rec.path].frames
    BY <2>1 DEF Cast, Content
  <2>3. disk' = Put(disk, rec.path, c)
    BY <1>4 DEF Torn
  <2> HIDE DEF c
  <2>4. /\ DOMAIN disk' = DOMAIN disk /\ disk'[rec.path] = c
        /\ \A x \in DOMAIN disk : x # rec.path => disk'[x] = disk[x]
    BY <2>1, <2>3 DEF Put
  <2>5. DiskOK(disk')
    BY <1>2, <2>1, <2>2, <2>3, PutCast
  <2>6. RecOK'
    BY <1>1, <2>2, <2>4 DEF FilesInv, RecOK, CastExact
  <2>7. SavedOK'
    BY <1>1, <1>4, <2>1, <2>4 DEF FilesInv, RecOK, SavedOK, SavedIsThere
  <2>8. ShotOK' /\ Kept
    BY <1>1, <1>4, <2>4 DEF pngVars, ShotOK, Kept
  <2> QED BY <1>2, <2>5, <2>6, <2>7, <2>8 DEF FilesInv
<1> QED BY <1>1, <1>3, <1>4

LEMMA NextInv == ASSUME FilesInv, Next PROVE FilesInv' /\ Kept
<1>1. running
  BY DEF Next
<1>2. CASE Loop
  <2>1. pc = "idle"
    BY <1>2 DEF Loop
  <2>2. CASE RecStop
    BY <1>1, <2>2, StopInv DEF RecStop, FilesInv, VarsOK
  <2>3. CASE Exit
    BY <1>1, <2>3, StopInv DEF Exit
  <2>4. CASE AskShot
    <3>1. VarsOK' /\ PngOK' /\ ShotOK' /\ DiskOK(disk')
      BY <2>4 DEF AskShot, pngVars, FilesInv, VarsOK, PngOK, ShotOK
    <3> QED BY <2>4, <3>1, AddedFiles DEF AskShot, FilesInv
  <2> QED BY <1>1, <1>2, <2>1, <2>2, <2>3, <2>4, RecStartInv, ShowFrameInv DEF Loop
<1>3. CASE Clock
  <2>1. VarsOK' /\ PngOK' /\ ShotOK' /\ DiskOK(disk')
    BY <1>3 DEF Clock, pngVars, FilesInv, VarsOK, PngOK, ShotOK
  <2> QED BY <1>3, <2>1, AddedFiles DEF Clock, FilesInv
<1> QED BY <1>1, <1>2, <1>3, PictureInv, ShotDoneInv, DieInv, ElsewhereInv DEF Next

LEMMA StutterInv == ASSUME FilesInv, UNCHANGED vars PROVE FilesInv'
<1>1. VarsOK' /\ PngOK' /\ ShotOK' /\ DiskOK(disk')
  BY DEF vars, pngVars, FilesInv, VarsOK, PngOK, ShotOK
<1> QED BY <1>1, AddedFiles DEF vars, FilesInv

LEMMA FilesInvariance == CapturesSpec => []FilesInv
BY CapturesRecord, InitInv, NextInv, StutterInv, PTL

-----------------------------------------------------------------------------
(* Recordings and screenshots *)

(***************************************************************************)
(* What is in the directory is whole, belongs together, and is what the    *)
(* program reported: after any failure, wherever it dies, and whatever     *)
(* other instances write.                                                  *)
(***************************************************************************)
THEOREM FilesAreWhole == CapturesSpec => []FilesWhole
<1>1. FilesInv => PairBelongs /\ NeverHalf
  BY DEF FilesInv, DiskOK, TextOf, PairBelongs, NeverHalf
<1>2. FilesInv => SavedIsThere /\ NoTmpLeft
  BY DEF FilesInv, SavedOK, PngOK, NoTmpLeft
<1>3. FilesInv => FilesWhole
  BY <1>1, <1>2 DEF FilesWhole
<1> QED BY <1>3, FilesInvariance, PTL

(***************************************************************************)
(* An active recording holds the frames shown since it was started, in     *)
(* order, without the repeats.                                             *)
(***************************************************************************)
THEOREM RecordingIsExact == CapturesSpec => []CastSound
<1>1. FilesInv => CastExact
  BY DEF FilesInv, RecOK, CastExact
<1>2. FilesInv => TypeOK
  BY DEF FilesInv, VarsOK, Recorders, DiskOK, Content, RecOK, TypeOK
<1>3. FilesInv => CastSound
  BY <1>1, <1>2 DEF CastSound
<1> QED BY <1>3, FilesInvariance, PTL

(***************************************************************************)
(* "Never overwrites": a file that is there stays as it is, but for the end*)
(* of the recording that is active.                                        *)
(***************************************************************************)
THEOREM NothingIsOverwritten == CapturesSpec => NeverOverwrites
<1>1. FilesInv /\ [Next]_vars => [Kept]_vars
  BY NextInv
<1>2. CapturesSpec => [][Kept]_vars
  BY <1>1, CapturesRecord, FilesInvariance, PTL
<1> QED BY <1>2, PTL DEF NeverOverwrites, Kept

-----------------------------------------------------------------------------
(* Pictures *)

LEMMA DivIs ==
  ASSUME NEW a \in Nat, NEW s \in Nat \ {0}
  PROVE  a \div s \in Nat /\ a % s \in 0 .. s - 1 /\ a = s * (a \div s) + (a % s)
  OBVIOUS

LEMMA DivUnique ==
  ASSUME NEW s \in Nat \ {0}, NEW k \in Int, NEW r \in Int, NEW l \in Int, NEW t \in Int,
         0 <= r, r < s, 0 <= t, t < s, s * k + r = s * l + t
  PROVE  k = l /\ r = t
<1>1. s * (k - l) = t - r
  OBVIOUS
<1>2. CASE k - l >= 1
  <2>1. s * (k - l) >= s
    BY <1>2
  <2> QED BY <1>1, <2>1
<1>3. CASE k - l <= -1
  <2>1. s * (k - l) <= -s
    BY <1>3
  <2> QED BY <1>1, <2>1
<1>4. CASE k = l
  BY <1>4
<1> QED BY <1>2, <1>3, <1>4

\* In a row the column alone grows.
LEMMA DivShift ==
  ASSUME NEW q \in Nat, NEW s \in Nat \ {0}, NEW j \in Nat, (q % s) + j < s
  PROVE  (q + j) \div s = q \div s /\ (q + j) % s = (q % s) + j
<1>1. q \div s \in Nat /\ q % s \in 0 .. s - 1 /\ q = s * (q \div s) + (q % s)
  BY DivIs
<1> DEFINE a == q + j
<1>2. a \in Nat
  OBVIOUS
<1> HIDE DEF a
<1>3. a \div s \in Nat /\ a % s \in 0 .. s - 1 /\ a = s * (a \div s) + (a % s)
  BY <1>2, DivIs
<1>4. a = s * (q \div s) + ((q % s) + j)
  BY <1>1 DEF a
<1>5. a \div s = q \div s /\ a % s = (q % s) + j
  BY <1>1, <1>3, <1>4, DivUnique
<1> QED BY <1>5 DEF a

\* n bytes of a raw stream of rows of s bytes, from position a.
Bytes(s, a, n) == [k \in 1 .. n |-> <<(a + k - 1) \div s, (a + k - 1) % s>>]

LEMMA BytesAre ==
  ASSUME NEW s \in Nat \ {0}, NEW a \in Nat, NEW n \in Nat
  PROVE  Bytes(s, a, n) \in Seq(Nat \X Nat) /\ Len(Bytes(s, a, n)) = n
<1>1. ASSUME NEW k \in 1 .. n
      PROVE  <<(a + k - 1) \div s, (a + k - 1) % s>> \in Nat \X Nat
  <2> DEFINE q == a + k - 1
  <2>1. q \in Nat
    OBVIOUS
  <2> HIDE DEF q
  <2>2. q \div s \in Nat /\ q % s \in Nat
    BY <2>1, DivIs
  <2> QED BY <2>2 DEF q
<1>2. Bytes(s, a, n) \in [1 .. n -> Nat \X Nat]
  BY <1>1 DEF Bytes
<1> QED BY <1>2

\* Concatenation, as an operator the provers leave alone.
Join(b, c) == b \o c

LEMMA BytesConcat ==
  ASSUME NEW s \in Nat \ {0}, NEW a \in Nat, NEW m \in Nat, NEW n \in Nat,
         NEW e \in Nat, e = a + m, NEW l \in Nat, l = m + n
  PROVE  Join(Bytes(s, a, m), Bytes(s, e, n)) = Bytes(s, a, l)
<1> DEFINE b == Bytes(s, a, m)
           c == Bytes(s, e, n)
           d == Bytes(s, a, l)
<1>1. /\ b \in Seq(Nat \X Nat) /\ Len(b) = m
      /\ c \in Seq(Nat \X Nat) /\ Len(c) = n
      /\ d \in Seq(Nat \X Nat) /\ Len(d) = m + n
  BY BytesAre
<1>2. \A k \in 1 .. m : b[k] = d[k]
  BY DEF Bytes
<1>3. \A k \in 1 .. n : c[k] = d[m + k]
  <2> SUFFICES ASSUME NEW k \in 1 .. n PROVE c[k] = d[m + k]
    OBVIOUS
  <2>1. m + k \in 1 .. m + n /\ a + (m + k) - 1 = a + m + k - 1
    OBVIOUS
  <2> QED BY <2>1 DEF Bytes
<1> HIDE DEF b, c, d
<1>4. /\ b \o c \in Seq(Nat \X Nat) /\ Len(b \o c) = m + n
      /\ \A k \in 1 .. m + n : (b \o c)[k] = IF k <= m THEN b[k] ELSE c[k - m]
  BY <1>1, ConcatProperties
<1>5. \A k \in 1 .. m + n : (b \o c)[k] = d[k]
  <2> SUFFICES ASSUME NEW k \in 1 .. m + n PROVE (b \o c)[k] = d[k]
    OBVIOUS
  <2>1. CASE k <= m
    <3>1. k \in 1 .. m
      BY <2>1
    <3> QED BY <1>2, <1>4, <2>1, <3>1
  <2>2. CASE ~(k <= m)
    <3>1. k - m \in 1 .. n /\ m + (k - m) = k
      BY <2>2
    <3> QED BY <1>3, <1>4, <2>2, <3>1
  <2> QED BY <2>1, <2>2
<1>6. b \o c = d
  BY <1>1, <1>4, <1>5, SeqEqual
<1> QED BY <1>6 DEF b, c, d, Join

LEMMA BytesPrefix ==
  ASSUME NEW s \in Nat \ {0}, NEW n \in Nat, NEW m \in 0 .. n
  PROVE  SubSeq(Bytes(s, 0, n), 1, m) = Bytes(s, 0, m)
<1> DEFINE b == Bytes(s, 0, m)
           d == Bytes(s, 0, n)
<1>1. /\ b \in Seq(Nat \X Nat) /\ Len(b) = m
      /\ d \in Seq(Nat \X Nat) /\ Len(d) = n
  <2>1. m \in Nat /\ 0 \in Nat
    OBVIOUS
  <2> QED BY <2>1, BytesAre
<1>2. \A k \in 1 .. m : b[k] = d[k]
  BY DEF Bytes
<1> HIDE DEF b, d
<1>3. /\ SubSeq(d, 1, m) \in Seq(Nat \X Nat) /\ Len(SubSeq(d, 1, m)) = m
      /\ \A k \in 1 .. m : SubSeq(d, 1, m)[k] = d[k]
  BY <1>1
<1>4. SubSeq(d, 1, m) = b
  BY <1>1, <1>2, <1>3
<1> QED BY <1>4 DEF b, d

(***************************************************************************)
(* raw_copy gives the bytes of the raw stream, wherever it starts and ends *)
(* within rows.                                                            *)
(***************************************************************************)
LEMMA RawCopyIs ==
  ASSUME size \in Sizes, NEW p \in Nat, NEW n \in Nat
  PROVE  RawCopy(p, n) = Bytes(stride, p, n)
<1> DEFINE s == stride
           at0(left) == p + n - left
           Row(left) == at0(left) \div s
           Col(left) == at0(left) % s
           Take(left) == IF Col(left) = 0 THEN 1 ELSE MinOf(s - Col(left), left)
           Piece(left) == [i \in 1 .. Take(left) |-> <<Row(left), Col(left) + i - 1>>]
           Body(g, left) == IF left = 0 THEN <<>> ELSE Piece(left) \o g[left - Take(left)]
           Copy[left \in 0 .. n] ==
             IF left = 0 THEN <<>>
             ELSE LET row == (p + n - left) \div stride
                      col == (p + n - left) % stride
                      take == IF col = 0 THEN 1 ELSE MinOf(stride - col, left)
                  IN  [i \in 1 .. take |-> <<row, col + i - 1>>] \o Copy[left - take]
           closed == [left \in 0 .. n |-> Bytes(s, at0(left), left)]
<1>1. s \in Nat \ {0}
  BY PngAssumption DEF stride
<1>2. RawCopy(p, n) = Copy[n]
  BY DEF RawCopy
<1>3. Copy = CHOOSE g : g = [left \in 0 .. n |-> Body(g, left)]
  BY DEF Copy
<1> HIDE DEF s, Copy
<1>4. ASSUME NEW left \in 1 .. n
      PROVE  /\ Take(left) \in 1 .. left
             /\ Piece(left) = Bytes(s, at0(left), Take(left))
             /\ at0(left - Take(left)) = at0(left) + Take(left)
             /\ at0(left) \in Nat
  <2> DEFINE q == at0(left)
             c == q % s
             t == Take(left)
  <2>1. q \in Nat
    OBVIOUS
  <2>2. c \in 0 .. s - 1
    <3> HIDE DEF q
    <3> QED BY <1>1, <2>1, DivIs
  <2>3. t \in 1 .. left /\ c + t <= s
    <3> HIDE DEF c
    <3>1. t = IF c = 0 THEN 1 ELSE MinOf(s - c, left)
      BY DEF c
    <3> HIDE DEF t
    <3> QED BY <1>1, <2>2, <3>1 DEF MinOf
  <2>4. ASSUME NEW i \in 1 .. t
        PROVE  <<q \div s, c + i - 1>> = <<(q + i - 1) \div s, (q + i - 1) % s>>
    <3> HIDE DEF q, t
    <3>1. i - 1 \in Nat /\ c + (i - 1) < s /\ q + (i - 1) = q + i - 1 /\ c + (i - 1) = c + i - 1
      BY <1>1, <2>1, <2>2, <2>3
    <3>2. (q + (i - 1)) \div s = q \div s /\ (q + (i - 1)) % s = (q % s) + (i - 1)
      BY <1>1, <2>1, <3>1, DivShift
    <3> QED BY <3>1, <3>2
  <2>5. Piece(left) = [i \in 1 .. t |-> <<q \div s, c + i - 1>>]
    OBVIOUS
  <2> HIDE DEF q, c, t
  <2>6. Piece(left) = Bytes(s, q, t)
    BY <2>4, <2>5 DEF Bytes
  <2>7. at0(left - t) = q + t
    BY <2>3 DEF q
  <2> QED BY <2>1, <2>3, <2>6, <2>7 DEF q, t
<1>5. ASSUME NEW left \in 1 .. n
      PROVE  Piece(left) \o Bytes(s, at0(left - Take(left)), left - Take(left))
               = Bytes(s, at0(left), left)
  <2> DEFINE q == at0(left)
             t == Take(left)
  <2>1. /\ t \in 1 .. left /\ Piece(left) = Bytes(s, q, t)
        /\ at0(left - t) = q + t /\ q \in Nat
    BY <1>4
  <2> DEFINE u == left - t
  <2>2. t \in Nat /\ u \in Nat /\ t + u = left
    BY <2>1
  <2> HIDE DEF q, t, u
  <2> DEFINE e == q + t
  <2>3. e \in Nat
    BY <2>1, <2>2
  <2> HIDE DEF e
  <2>4. Join(Bytes(s, q, t), Bytes(s, e, u)) = Bytes(s, q, left)
    <3>1. q \in Nat /\ t \in Nat /\ u \in Nat /\ left \in Nat /\ left = t + u /\ e = q + t
      BY <2>1, <2>2 DEF e
    <3> QED BY <1>1, <2>3, <3>1, BytesConcat
  <2>5. at0(u) = e
    BY <2>1 DEF u, e
  <2> HIDE DEF at0, Piece
  <2>6. Piece(left) \o Bytes(s, at0(u), u) = Bytes(s, q, left)
    BY <2>1, <2>4, <2>5 DEF Join
  <2> QED BY <2>6 DEF q, t, u
<1>6. Bytes(s, at0(0), 0) = <<>>
  BY DEF Bytes
<1> HIDE DEF Take, Piece, at0
<1>7. closed = [left \in 0 .. n |-> Body(closed, left)]
  <2>1. ASSUME NEW left \in 0 .. n PROVE closed[left] = Body(closed, left)
    <3>1. CASE left = 0
      BY <1>6, <3>1
    <3>2. CASE left # 0
      <4>1. left \in 1 .. n /\ Take(left) \in 1 .. left
        BY <1>4, <3>2
      <4>2. left - Take(left) \in 0 .. n
        BY <4>1
      <4> QED BY <1>5, <3>2, <4>1, <4>2
    <3> QED BY <3>1, <3>2
  <2>2. closed = [left \in 0 .. n |-> closed[left]]
    <3> DEFINE F(left) == Bytes(s, at0(left), left)
    <3>1. closed = [left \in 0 .. n |-> F(left)]
      BY Zenon
    <3> HIDE DEF F, closed
    <3> QED BY <3>1
  <2> HIDE DEF closed
  <2> QED BY <2>1, <2>2
<1>8. Copy = [left \in 0 .. n |-> Body(Copy, left)]
  <2>1. \E g : g = [left \in 0 .. n |-> Body(g, left)]
    <3> HIDE DEF closed
    <3> QED BY <1>7
  <2> QED BY <1>3, <2>1
<1> DEFINE T == {m \in Nat : \A left \in 0 .. n : left <= m => Copy[left] = closed[left]}
<1>9. 0 \in T
  <2>1. Copy[0] = closed[0]
    BY <1>6, <1>8
  <2> HIDE DEF closed
  <2> QED BY <2>1
<1>10. ASSUME NEW m \in Nat, m \in T PROVE m + 1 \in T
  <2> SUFFICES ASSUME NEW left \in 0 .. n, left <= m + 1 PROVE Copy[left] = closed[left]
    OBVIOUS
  <2>1. CASE left = 0
    BY <1>9, <2>1
  <2>2. CASE left # 0
    <3>1. left \in 1 .. n /\ Take(left) \in 1 .. left
      BY <1>4, <2>2
    <3>2. left - Take(left) \in 0 .. n /\ left - Take(left) <= m
      BY <3>1
    <3>3. Copy[left - Take(left)] = closed[left - Take(left)]
      BY <1>10, <3>2
    <3>4. Copy[left] = Piece(left) \o Copy[left - Take(left)]
      BY <1>8, <2>2
    <3>5. closed[left] = Piece(left) \o closed[left - Take(left)]
      <4>1. closed[left] = Body(closed, left)
        BY <1>7
      <4> QED BY <2>2, <4>1
    <3> QED BY <3>3, <3>4, <3>5
  <2> QED BY <2>1, <2>2
<1> HIDE DEF T
<1>11. n \in T
  BY <1>9, <1>10, Induction
<1>12. Copy[n] = closed[n]
  BY <1>11 DEF T
<1>13. at0(n) = p
  BY DEF at0
<1> QED BY <1>2, <1>12, <1>13 DEF s

(***************************************************************************)
(* Before IDAT's bytes nothing of the picture is written; among them each  *)
(* block was full; behind them the last was what was left, and final.      *)
(***************************************************************************)
StreamInv ==
  /\ pc \in Steps
  /\ IF pc = "idle" THEN pos = 0 /\ stream = <<>> /\ finals = <<>> ELSE size \in Sizes
  /\ pc \in {"open", "header", "head"} => pos = 0 /\ stream = <<>> /\ finals = <<>>
  /\ finals \in Seq(BOOLEAN)
  /\ pc # "idle" => pos \in 0 .. raw /\ stream = Bytes(stride, 0, pos)
  /\ pc = "block" =>
       /\ pos < raw /\ pos = Len(finals) * BLOCK /\ idat = 2 + pos + 5 * Len(finals)
       /\ \A k \in 1 .. Len(finals) : ~finals[k]
  /\ pc \in {"tail", "iend", "rename", "saved"} =>
       /\ Len(finals) > 0 /\ \A k \in 1 .. Len(finals) : finals[k] <=> k = Len(finals)
       /\ (Len(finals) - 1) * BLOCK < raw /\ raw <= Len(finals) * BLOCK
       /\ idat = 2 + raw + 5 * Len(finals) + (IF pc = "tail" THEN 0 ELSE 4)

LEMMA SizeIs ==
  ASSUME size \in Sizes
  PROVE  /\ stride \in Nat \ {0} /\ raw \in Nat \ {0} /\ BLOCK \in Nat \ {0}
<1>1. size.rowlen \in Nat \ {0} /\ size.h \in Nat \ {0} /\ BLOCK \in Nat \ {0}
  BY PngAssumption
<1>2. stride \in Nat \ {0}
  BY <1>1 DEF stride
<1>3. ASSUME NEW a \in Nat \ {0}, NEW b \in Nat \ {0} PROVE a * b \in Nat \ {0}
  <2>1. a * b >= a
    OBVIOUS
  <2> QED BY <2>1
<1> QED BY <1>1, <1>2, <1>3 DEF raw

\* A block goes on where the one before ended, and the last ends the picture.
LEMMA BlockInv == ASSUME StreamInv, Block PROVE StreamInv'
<1> DEFINE n == MinOf(raw - pos, BLOCK)
           k == Len(finals)
<1>1. /\ pc = "block" /\ finals' = Append(finals, pos + n = raw)
      /\ stream' = stream \o RawCopy(pos, n) /\ idat' = idat + 5 + n /\ pos' = pos + n
      /\ pc' = IF pos' < raw THEN "block" ELSE "tail"
      /\ size' = size
  BY DEF Block
<1>2. /\ size \in Sizes /\ stride \in Nat \ {0} /\ raw \in Nat \ {0} /\ BLOCK \in Nat \ {0}
      /\ pos \in Nat /\ pos < raw /\ stream = Bytes(stride, 0, pos)
      /\ pos = k * BLOCK /\ idat = 2 + pos + 5 * k
      /\ \A j \in 1 .. k : ~finals[j]
      /\ finals \in Seq(BOOLEAN) /\ k \in Nat
  <2>1. size \in Sizes
    BY <1>1 DEF StreamInv
  <2>2. stride \in Nat \ {0} /\ raw \in Nat \ {0} /\ BLOCK \in Nat \ {0}
    BY <2>1, SizeIs
  <2>3. /\ pos \in 0 .. raw /\ pos < raw /\ stream = Bytes(stride, 0, pos)
        /\ pos = k * BLOCK /\ idat = 2 + pos + 5 * k /\ finals \in Seq(BOOLEAN)
    BY <1>1 DEF StreamInv
  <2>4. \A j \in 1 .. k : ~finals[j]
    BY <1>1, Zenon DEF StreamInv
  <2>5. k \in Nat
    BY <2>3
  <2> HIDE DEF k
  <2> QED BY <2>1, <2>2, <2>3, <2>4, <2>5
<1>3. stride' = stride /\ raw' = raw
  BY <1>1 DEF stride, raw
<1>4. /\ n \in Nat \ {0} /\ n <= BLOCK /\ pos + n <= raw
      /\ pos + n < raw => n = BLOCK
  <2> DEFINE rest == raw - pos
  <2>1. n = IF rest < BLOCK THEN rest ELSE BLOCK
    BY DEF MinOf
  <2>2. rest \in Nat \ {0} /\ BLOCK \in Nat \ {0}
    BY <1>2
  <2> HIDE DEF rest, n
  <2>3. n \in Nat \ {0} /\ n <= BLOCK /\ n <= rest /\ (n < rest => n = BLOCK)
    BY <2>1, <2>2
  <2> QED BY <1>2, <2>3 DEF rest
<1> HIDE DEF n, k
<1>5. stream' = Bytes(stride, 0, pos + n)
  <2>1. RawCopy(pos, n) = Bytes(stride, pos, n)
    BY <1>2, <1>4, RawCopyIs
  <2>2. 0 \in Nat /\ pos = 0 + pos /\ pos + n \in Nat /\ n \in Nat
    BY <1>2, <1>4
  <2>3. Join(Bytes(stride, 0, pos), Bytes(stride, pos, n)) = Bytes(stride, 0, pos + n)
    BY <1>2, <2>2, BytesConcat
  <2> QED BY <1>1, <1>2, <2>1, <2>3 DEF Join
<1> DEFINE final == pos + n = raw
<1>6. /\ finals' \in Seq(BOOLEAN) /\ Len(finals') = k + 1
      /\ finals'[k + 1] = final /\ \A j \in 1 .. k : finals'[j] = finals[j]
  <2>1. final \in BOOLEAN
    BY Zenon
  <2>2. finals' = Append(finals, final)
    BY <1>1
  <2> HIDE DEF final
  <2> QED BY <1>2, <2>1, <2>2 DEF k
<1>7. (k + 1) * BLOCK = k * BLOCK + BLOCK /\ k * BLOCK \in Nat
  BY <1>2
<1>8. pos' \in 0 .. raw' /\ stream' = Bytes(stride', 0, pos')
  <2>1. pos + n \in 0 .. raw
    BY <1>2, <1>4
  <2> QED BY <1>1, <1>3, <1>5, <2>1
<1>9. CASE pos + n < raw
  <2>1. pc' = "block" /\ pos' < raw'
    BY <1>1, <1>3, <1>9
  <2>2. pos' = Len(finals') * BLOCK /\ idat' = 2 + pos' + 5 * Len(finals')
    <3>1. n = BLOCK /\ pos' = pos + BLOCK /\ idat' = idat + 5 + BLOCK
      BY <1>1, <1>4, <1>9
    <3>2. pos' = (k + 1) * BLOCK
      BY <1>2, <1>7, <3>1
    <3>3. idat' = 2 + (pos + BLOCK) + 5 * (k + 1)
      BY <1>2, <3>1
    <3> QED BY <1>6, <3>1, <3>2, <3>3
  <2>3. \A j \in 1 .. Len(finals') : ~finals'[j]
    <3>1. ~final
      BY <1>2, <1>4, <1>9
    <3>2. \A j \in 1 .. k + 1 : j \in 1 .. k \/ j = k + 1
      BY <1>2
    <3> HIDE DEF final
    <3> QED BY <1>2, <1>6, <3>1, <3>2
  <2>4. pos' \in 0 .. raw' /\ stream' = Bytes(stride', 0, pos')
    BY <1>8
  <2> QED BY <1>1, <1>2, <1>6, <2>1, <2>2, <2>3, <2>4 DEF StreamInv, Steps
<1>10. CASE pos + n = raw
  <2>1. pc' = "tail"
    BY <1>1, <1>2, <1>10
  <2>2. /\ idat' = 2 + raw' + 5 * Len(finals') /\ Len(finals') > 0
        /\ (Len(finals') - 1) * BLOCK < raw' /\ raw' <= Len(finals') * BLOCK
    <3>1. idat' = 2 + raw' + 5 * (k + 1)
      BY <1>1, <1>2, <1>3, <1>4, <1>10
    <3>2. (k + 1) - 1 = k /\ k + 1 > 0
      BY <1>2
    <3>3. k * BLOCK < raw /\ raw <= (k + 1) * BLOCK
      BY <1>2, <1>4, <1>7, <1>10
    <3> QED BY <1>3, <1>6, <3>1, <3>2, <3>3
  <2>3. \A j \in 1 .. Len(finals') : finals'[j] <=> j = Len(finals')
    <3>1. final
      BY <1>10
    <3>2. \A j \in 1 .. k + 1 : j \in 1 .. k \/ j = k + 1
      BY <1>2
    <3>3. \A j \in 1 .. k : j # k + 1
      BY <1>2
    <3> HIDE DEF final
    <3> QED BY <1>2, <1>6, <3>1, <3>2, <3>3
  <2>4. pos' \in 0 .. raw' /\ stream' = Bytes(stride', 0, pos')
    BY <1>8
  <2>5. idat' = 2 + raw' + 5 * Len(finals') + (IF pc' = "tail" THEN 0 ELSE 4)
    <3>1. (IF pc' = "tail" THEN 0 ELSE 4) = 0
      BY <2>1
    <3>2. 2 + raw' + 5 * Len(finals') \in Int
      <4>1. raw' \in Nat /\ Len(finals') \in Nat
        BY <1>2, <1>3, <1>6
      <4> QED BY <4>1
    <3> QED BY <2>2, <3>1, <3>2
  <2> QED BY <1>1, <1>2, <1>6, <2>1, <2>2, <2>3, <2>4, <2>5 DEF StreamInv, Steps
<1> QED BY <1>2, <1>4, <1>9, <1>10

LEMMA WritingInv == ASSUME StreamInv, Writing PROVE StreamInv'
<1>1. CASE Block
  BY <1>1, BlockInv
<1>2. ASSUME UNCHANGED <<size, pos, stream, finals>>,
             \/ pc = "open" /\ pc' \in {"header", "failed"}
             \/ pc \in {"header", "head", "block", "tail", "iend"} /\ pc' = "failed"
             \/ pc = "header" /\ pc' = "head"
      PROVE  StreamInv'
  BY <1>2 DEF StreamInv, Steps, raw, stride
<1>3. CASE IdatHead
  <2>1. pc = "head" /\ pc' = "block" /\ idat' = 2 /\ UNCHANGED <<size, pos, stream, finals>>
    BY <1>3 DEF IdatHead
  <2>2. size \in Sizes /\ pos = 0 /\ stream = <<>> /\ finals = <<>> /\ stream = Bytes(stride, 0, pos)
    BY <2>1 DEF StreamInv
  <2>3. raw \in Nat \ {0} /\ BLOCK \in Nat \ {0} /\ Len(finals) = 0
    BY <2>2, SizeIs
  <2>4. pos < raw /\ pos = Len(finals) * BLOCK /\ 2 = 2 + pos + 5 * Len(finals)
    BY <2>2, <2>3
  <2>5. raw' = raw /\ stride' = stride
    BY <2>1 DEF raw, stride
  <2> QED BY <2>1, <2>2, <2>3, <2>4, <2>5 DEF StreamInv, Steps
<1>4. ASSUME UNCHANGED <<size, pos, stream, finals>>,
             \/ pc = "tail" /\ pc' = "iend" /\ idat' = idat + 4
             \/ pc = "iend" /\ pc' = "rename" /\ idat' = idat
             \/ pc = "rename" /\ pc' \in {"saved", "failed"} /\ idat' = idat
      PROVE  StreamInv'
  <2>1. size \in Sizes /\ raw \in Nat /\ Len(finals) \in Nat
    BY <1>4, SizeIs DEF StreamInv
  <2>2. raw' = raw /\ stride' = stride
    BY <1>4 DEF raw, stride
  <2> QED BY <1>4, <2>1, <2>2 DEF StreamInv, Steps
<1> QED BY <1>1, <1>2, <1>3, <1>4
        DEF Writing, Open, WriteFails, Header, IdatTail, Iend, Rename

LEMMA NextStream == ASSUME StreamInv, [Next]_vars PROVE StreamInv'
<1>1. CASE UNCHANGED pngVars
  BY <1>1 DEF pngVars, StreamInv, raw, stride
<1>2. CASE Writing
  BY <1>2, WritingInv
<1>3. ASSUME NEW there, Called(there) PROVE StreamInv'
  <2>1. /\ pc = "idle" /\ pc' = "open" /\ size' \in Sizes /\ UNCHANGED <<pos, stream, finals>>
        /\ pos = 0 /\ stream = <<>> /\ finals = <<>> /\ finals \in Seq(BOOLEAN)
    BY <1>3 DEF Called, StreamInv
  <2>2. raw' \in Nat
    <3>1. /\ size'.rowlen \in Nat /\ size'.h \in Nat
      BY <2>1, PngAssumption
    <3> QED BY <3>1 DEF raw, stride
  <2>3. stream' = Bytes(stride', 0, pos') /\ pos' \in 0 .. raw'
    BY <2>1, <2>2 DEF Bytes
  <2> QED BY <2>1, <2>3 DEF StreamInv, Steps
<1>4. CASE Return
  BY <1>4 DEF Return, StreamInv, Steps
<1>5. \/ UNCHANGED pngVars \/ Writing \/ Return
      \/ \E there : Called(there)
  BY DEF vars, Next, Loop, RecStart, RecStop, AskShot, Exit, ShowFrame, TextSaved, Picture,
         ShotDone, Die, Elsewhere, Clock
<1> QED BY <1>1, <1>2, <1>3, <1>4, <1>5

(***************************************************************************)
(* Every picture that is done is a PNG a decoder accepts, and its bytes are*)
(* the picture's, for every size of picture and of block.                  *)
(***************************************************************************)
THEOREM PicturesAreExact == CapturesSpec => []PictureExact
<1>1. Init => StreamInv
  BY DEF Init, Idle, StreamInv, Steps
<1>2. StreamInv => Decodable
  <2> SUFFICES ASSUME StreamInv, pc \in {"iend", "rename", "saved"}
               PROVE  /\ idat = IdatLen /\ Len(finals) > 0
                      /\ \A k \in 1 .. Len(finals) : finals[k] <=> k = Len(finals)
    BY DEF Decodable
  <2> DEFINE k == Len(finals)
             a == raw + BLOCK - 1
  <2>1. /\ raw \in Nat \ {0} /\ BLOCK \in Nat \ {0} /\ k \in Nat /\ k > 0
        /\ (k - 1) * BLOCK < raw /\ raw <= k * BLOCK /\ idat = 2 + raw + 5 * k + 4
    BY SizeIs DEF StreamInv
  <2>2. a \div BLOCK = k
    <3> HIDE DEF k
    <3>1. a \in Nat
      BY <2>1
    <3>2. (k - 1) * BLOCK = k * BLOCK - BLOCK /\ k * BLOCK \in Nat /\ BLOCK * k = k * BLOCK
      BY <2>1
    <3>3. a - k * BLOCK \in 0 .. BLOCK - 1 /\ a = BLOCK * k + (a - k * BLOCK)
      BY <2>1, <3>1, <3>2
    <3> DEFINE r == a - k * BLOCK
    <3> HIDE DEF a, r
    <3>4. a \div BLOCK \in Nat /\ a % BLOCK \in 0 .. BLOCK - 1
          /\ a = BLOCK * (a \div BLOCK) + (a % BLOCK)
      BY <2>1, <3>1, DivIs
    <3>5. r \in 0 .. BLOCK - 1 /\ a = BLOCK * k + r
      BY <3>3 DEF r
    <3> QED BY <2>1, <3>4, <3>5, DivUnique
  <2>3. idat = IdatLen
    <3> HIDE DEF k
    <3>1. IdatLen = 2 + raw + 5 * (a \div BLOCK) + 4
      BY DEF IdatLen
    <3> QED BY <2>1, <2>2, <3>1
  <2> QED BY <2>1, <2>3 DEF StreamInv
<1>3. StreamInv => StreamExact
  <2> SUFFICES ASSUME StreamInv PROVE stream = SubSeq(Raw, 1, pos)
    BY DEF StreamExact
  <2>1. CASE pc = "idle"
    <3>1. pos = 0 /\ stream = <<>>
      BY <2>1 DEF StreamInv
    <3>2. SubSeq(Raw, 1, 0) = <<>>
      BY SubSeqEmpty
    <3> QED BY <3>1, <3>2
  <2>2. CASE pc # "idle"
    <3>1. /\ stride \in Nat \ {0} /\ raw \in Nat /\ pos \in 0 .. raw
          /\ stream = Bytes(stride, 0, pos)
      BY <2>2, SizeIs DEF StreamInv
    <3>2. Raw = Bytes(stride, 0, raw)
      BY <3>1 DEF Raw, Bytes
    <3>3. SubSeq(Bytes(stride, 0, raw), 1, pos) = Bytes(stride, 0, pos)
      BY <3>1, BytesPrefix
    <3> QED BY <3>1, <3>2, <3>3
  <2> QED BY <2>1, <2>2
<1>4. StreamInv => PictureExact
  BY <1>2, <1>3 DEF PictureExact
<1> QED BY <1>1, <1>4, NextStream, CapturesRecord, PTL

-----------------------------------------------------------------------------
(* Names *)

\* Days from the first of March to the first of the month that is mp later.
MarchDays(mp) == (153 * mp + 2) \div 5

LEMMA DaysBeforeIs ==
  ASSUME NEW y \in Int, NEW m \in 1 .. 12
  PROVE  DaysBefore(y, m) = IF m = 1 THEN 0 ELSE IF m = 2 THEN 31
                            ELSE MarchDays(m - 3) + (IF Leap(y) THEN 60 ELSE 59)
<1> DEFINE feb == IF Leap(y) THEN 29 ELSE 28
           Body(g, k) == IF k = 1 THEN 0 ELSE g[k - 1] + DaysIn(y, k - 1)
           upTo[k \in 1 .. 12] == IF k = 1 THEN 0 ELSE upTo[k - 1] + DaysIn(y, k - 1)
           table == [k \in 1 .. 12 |-> IF k = 1 THEN 0 ELSE IF k = 2 THEN 31
                                      ELSE MarchDays(k - 3) + 31 + feb]
<1>1. DaysBefore(y, m) = upTo[m]
  BY DEF DaysBefore
<1>2. upTo = CHOOSE g : g = [k \in 1 .. 12 |-> Body(g, k)]
  BY DEF upTo
<1> HIDE DEF upTo
<1>3. /\ feb \in Int /\ DaysIn(y, 2) = feb
      /\ \A k \in {1, 3, 5, 7, 8, 10, 12} : DaysIn(y, k) = 31
      /\ \A k \in {4, 6, 9, 11} : DaysIn(y, k) = 30
  BY DEF DaysIn
<1> HIDE DEF feb
<1>4. /\ MarchDays(0) = 0 /\ MarchDays(1) = 31 /\ MarchDays(2) = 61 /\ MarchDays(3) = 92
      /\ MarchDays(4) = 122 /\ MarchDays(5) = 153 /\ MarchDays(6) = 184
      /\ MarchDays(7) = 214 /\ MarchDays(8) = 245 /\ MarchDays(9) = 275
  BY DEF MarchDays
<1>5. /\ table[1] = 0 /\ table[2] = 31 /\ table[3] = 31 + feb /\ table[4] = 62 + feb
      /\ table[5] = 92 + feb /\ table[6] = 123 + feb /\ table[7] = 153 + feb
      /\ table[8] = 184 + feb /\ table[9] = 215 + feb /\ table[10] = 245 + feb
      /\ table[11] = 276 + feb /\ table[12] = 306 + feb
  BY <1>3, <1>4
<1> DEFINE Row(f, k) == f[k] = Body(f, k)
<1>6. ASSUME NEW f,
             /\ f[1] = 0 /\ f[2] = 31 /\ f[3] = 31 + feb /\ f[4] = 62 + feb
             /\ f[5] = 92 + feb /\ f[6] = 123 + feb /\ f[7] = 153 + feb
             /\ f[8] = 184 + feb /\ f[9] = 215 + feb /\ f[10] = 245 + feb
             /\ f[11] = 276 + feb /\ f[12] = 306 + feb
      PROVE  \A k \in 1 .. 12 : f[k] = Body(f, k)
  <2>1. Row(f, 1) /\ Row(f, 2) /\ Row(f, 3) /\ Row(f, 4) /\ Row(f, 5) /\ Row(f, 6)
    BY <1>3, <1>6
  <2>2. Row(f, 7) /\ Row(f, 8) /\ Row(f, 9) /\ Row(f, 10) /\ Row(f, 11) /\ Row(f, 12)
    BY <1>3, <1>6
  <2>3. \A k \in 1 .. 12 : k \in {1, 2, 3, 4, 5, 6, 7, 8, 9, 10, 11, 12}
    OBVIOUS
  <2> QED BY <2>1, <2>2, <2>3
<1>7. table = [k \in 1 .. 12 |-> Body(table, k)]
  <2>1. table = [k \in 1 .. 12 |-> table[k]]
    OBVIOUS
  <2> HIDE DEF table
  <2>2. \A k \in 1 .. 12 : table[k] = Body(table, k)
    BY <1>5, <1>6
  <2> QED BY <2>1, <2>2
<1>8. upTo = [k \in 1 .. 12 |-> Body(upTo, k)]
  <2>1. \E g : g = [k \in 1 .. 12 |-> Body(g, k)]
    <3> HIDE DEF table
    <3> QED BY <1>7
  <2> QED BY <1>2, <2>1
<1>9. /\ upTo[1] = 0
      /\ \A k \in 2 .. 12 : upTo[k] = upTo[k - 1] + DaysIn(y, k - 1)
  BY <1>8
<1>10. upTo[m] = table[m]
  <2>1. upTo[2] = 31 /\ upTo[3] = 31 + feb /\ upTo[4] = 62 + feb
    BY <1>3, <1>9
  <2>2. upTo[5] = 92 + feb /\ upTo[6] = 123 + feb /\ upTo[7] = 153 + feb
    BY <1>3, <1>9, <2>1
  <2>3. upTo[8] = 184 + feb /\ upTo[9] = 215 + feb /\ upTo[10] = 245 + feb
    BY <1>3, <1>9, <2>2
  <2>4. upTo[11] = 276 + feb /\ upTo[12] = 306 + feb
    BY <1>3, <1>9, <2>3
  <2>5. m \in {1, 2, 3, 4, 5, 6, 7, 8, 9, 10, 11, 12}
    OBVIOUS
  <2> HIDE DEF table
  <2> QED BY <1>5, <1>9, <2>1, <2>2, <2>3, <2>4, <2>5
<1>11. table[m] = IF m = 1 THEN 0 ELSE IF m = 2 THEN 31
                  ELSE MarchDays(m - 3) + (IF Leap(y) THEN 60 ELSE 59)
  <2>1. 31 + feb = IF Leap(y) THEN 60 ELSE 59
    BY DEF feb
  <2>2. MarchDays(m - 3) \in Int
    BY DEF MarchDays
  <2> QED BY <1>3, <2>1, <2>2
<1> QED BY <1>1, <1>10, <1>11

\* The quotient of what lies between two multiples of the divisor.
LEMMA DivBy ==
  ASSUME NEW a \in Int, NEW s \in Nat \ {0}, NEW k \in Int, s * k <= a, a < s * k + s
  PROVE  a \div s = k
  OBVIOUS

\* The days of the years of March before year Y.
MarchYears(Y) == 365 * Y + Y \div 4 - Y \div 100 + Y \div 400

\* Each day of the calendar is counted from the March before it.
LEMMA FromMarch ==
  ASSUME NEW y \in Nat, 1 <= y, NEW m \in 1 .. 12, NEW d \in Int
  PROVE  DayNumber(y, m, d) + 719468 =
           IF m > 2 THEN MarchYears(y) + MarchDays(m - 3) + d - 1
                    ELSE MarchYears(y - 1) + MarchDays(m + 9) + d - 1
<1>2. LeapsBefore(1970) = 477
  BY DEF LeapsBefore
<1>3. /\ MarchDays(10) = 306 /\ MarchDays(11) = 337
      /\ MarchDays(m - 3) \in Int
  BY DEF MarchDays
<1> DEFINE leaps == LeapsBefore(y)
<1>4. leaps \in Int /\ MarchYears(y - 1) = 365 * (y - 1) + leaps
  BY DEF LeapsBefore, MarchYears
<1>5. MarchYears(y) = 365 * y + leaps + (IF Leap(y) THEN 1 ELSE 0)
  <2>1. y \div 4 = (y - 1) \div 4 + (IF y % 4 = 0 THEN 1 ELSE 0)
    OBVIOUS
  <2>2. y \div 100 = (y - 1) \div 100 + (IF y % 100 = 0 THEN 1 ELSE 0)
    OBVIOUS
  <2>3. y \div 400 = (y - 1) \div 400 + (IF y % 400 = 0 THEN 1 ELSE 0)
    <3> DEFINE k == (y - 1) \div 400
    <3>1. k \in Int /\ 400 * k < y /\ y <= 400 * k + 400
      OBVIOUS
    <3> HIDE DEF k
    <3>2. CASE y = 400 * k + 400
      <4>1. y \div 400 = k + 1 /\ y % 400 = 0
        BY <3>1, <3>2
      <4> QED BY <3>1, <4>1 DEF k
    <3>3. CASE y < 400 * k + 400
      <4>1. y \div 400 = k /\ y % 400 # 0
        BY <3>1, <3>3
      <4> QED BY <3>1, <4>1 DEF k
    <3> QED BY <3>1, <3>2, <3>3
  <2>4. (y % 400 = 0 => y % 100 = 0) /\ (y % 100 = 0 => y % 4 = 0)
    <3>1. y % 400 = 0 => y % 100 = 0
      OBVIOUS
    <3>2. y % 100 = 0 => y % 4 = 0
      OBVIOUS
    <3> QED BY <3>1, <3>2
  <2> QED BY <2>1, <2>2, <2>3, <2>4 DEF LeapsBefore, MarchYears, Leap
<1> HIDE DEF leaps
<1>6. DayNumber(y, m, d) = 365 * (y - 1970) + leaps - 477 + DaysBefore(y, m) + d - 1
  BY <1>2 DEF DayNumber, YearStart, leaps
<1>7. CASE m > 2
  <2>1. DaysBefore(y, m) = MarchDays(m - 3) + (IF Leap(y) THEN 60 ELSE 59)
    BY <1>7, DaysBeforeIs
  <2> QED BY <1>3, <1>4, <1>5, <1>6, <1>7, <2>1
<1>8. CASE m <= 2
  <2>1. DaysBefore(y, m) = IF m = 1 THEN 0 ELSE 31
    BY <1>8, DaysBeforeIs
  <2>2. MarchDays(m + 9) = IF m = 1 THEN 306 ELSE 337
    BY <1>3, <1>8
  <2> QED BY <1>3, <1>4, <1>6, <1>8, <2>1, <2>2
<1> QED BY <1>7, <1>8

\* Year Y is year r of four, of a century's q-th four years, of century c of era e.
Splits(Y, e, c, q, r) ==
  /\ e \in Nat /\ c \in Nat /\ q \in Nat /\ r \in Nat
  /\ c <= 3 /\ q <= 24 /\ r <= 3
  /\ Y = 400 * e + 100 * c + 4 * q + r
  /\ MarchYears(Y) = 146097 * e + 36524 * c + 1461 * q + 365 * r
  /\ Leap(Y + 1) <=> (r = 3 /\ (q = 24 => c = 3))

LEMMA YearSplit ==
  ASSUME NEW Y \in Nat
  PROVE  Splits(Y, Y \div 400, (Y % 400) \div 100, (Y % 100) \div 4, Y % 4)
<1> DEFINE e == Y \div 400
           c == (Y % 400) \div 100
           q == (Y % 100) \div 4
           r == Y % 4
<1>1. /\ e \in Nat /\ c \in Nat /\ q \in Nat /\ r \in Nat
      /\ c <= 3 /\ q <= 24 /\ r <= 3
  OBVIOUS
<1>2. Y = 400 * e + 100 * c + 4 * q + r
  OBVIOUS
<1> HIDE DEF e, c, q, r
<1>3. Y \div 400 = e /\ Y \div 100 = 4 * e + c /\ Y \div 4 = 100 * e + 25 * c + q
  BY <1>1, <1>2
<1>4. MarchYears(Y) = 146097 * e + 36524 * c + 1461 * q + 365 * r
  BY <1>1, <1>2, <1>3 DEF MarchYears
<1>5. Leap(Y + 1) <=> (r = 3 /\ (q = 24 => c = 3))
  <2>1. (Y + 1) % 4 = 0 <=> r = 3
    BY <1>1, <1>2
  <2>2. (Y + 1) % 100 = 0 <=> r = 3 /\ q = 24
    BY <1>1, <1>2
  <2>3. (Y + 1) % 400 = 0 <=> r = 3 /\ q = 24 /\ c = 3
    BY <1>1, <1>2
  <2> QED BY <2>1, <2>2, <2>3 DEF Leap
<1>6. Splits(Y, e, c, q, r)
  BY <1>1, <1>2, <1>4, <1>5 DEF Splits
<1> QED BY <1>6 DEF e, c, q, r

\* The year of an era that its day doe lies in.
YearIn(doe) == (doe - doe \div 1460 + doe \div 36524 - doe \div 146096) \div 365

\* The day of the era that starts on day doy of such a year, and what is found from it.
DayOfEra(c, q, r, doy) == 36524 * c + 1461 * q + 365 * r + doy
Found(doe, yoe, doy) ==
  /\ 0 <= doe /\ doe <= 146096
  /\ YearIn(doe) = yoe
  /\ doe - (365 * YearIn(doe) + YearIn(doe) \div 4 - YearIn(doe) \div 100) = doy

LEMMA DayOfEraIs ==
  ASSUME NEW c \in Nat, NEW q \in Nat, NEW r \in Nat, NEW doy \in Nat,
         c <= 3, q <= 24, r <= 3, doy <= 365,
         doy = 365 => r = 3 /\ (q = 24 => c = 3),
         NEW yo, yo = 100 * c + 4 * q + r
  PROVE  Found(DayOfEra(c, q, r, doy), yo, doy)
<1> DEFINE doe == 36524 * c + 1461 * q + 365 * r + doy
<1>1. doe \in Int
  OBVIOUS
<1>2. doe = 36524 * c + 1461 * q + 365 * r + doy
  OBVIOUS
<1> HIDE DEF doe
<1>3. YearIn(doe) \in Int
  BY <1>1 DEF YearIn
<1> DEFINE yoe == YearIn(doe)
<1>4. yoe \in Int /\ yoe = YearIn(doe)
  BY <1>3
<1> HIDE DEF yoe
<1> DEFINE rest == 24 * c + q + 365 * r + doy
           late == IF rest >= 1460 THEN 1 ELSE 0
<1>5. 0 <= doe /\ doe <= 146096
  <2>1. CASE doy = 365
    BY <1>2, <2>1
  <2>2. CASE doy # 365
    BY <1>2, <2>2
  <2> QED BY <2>1, <2>2
<1>6. doe \div 36524 - doe \div 146096 = c
  <2>1. CASE doe = 146096
    <3>1. c = 3 /\ doe \div 36524 = 4 /\ doe \div 146096 = 1
      BY <1>1, <1>2, <2>1
    <3> QED BY <3>1
  <2>2. CASE doe # 146096
    <3>1. doe \div 146096 = 0
      BY <1>1, <1>5, <2>2
    <3>2. 36524 * c <= doe /\ doe < 36524 * c + 36524
      BY <1>1, <1>2, <2>2
    <3>3. doe \div 36524 = c
      BY <1>1, <3>2, DivBy
    <3> QED BY <3>1, <3>3
  <2> QED BY <2>1, <2>2
<1>7. doe \div 1460 = 25 * c + q + late
  <2>1. doe = 1460 * (25 * c + q) + rest /\ 0 <= rest /\ rest <= 2919
    BY <1>1, <1>2
  <2> QED BY <1>1, <2>1
<1>8. 0 <= doy - late /\ doy - late <= 364
  OBVIOUS
<1>9. yoe = 100 * c + 4 * q + r
  <2>1. doe - doe \div 1460 + doe \div 36524 - doe \div 146096
          = 365 * (100 * c + 4 * q + r) + (doy - late)
    BY <1>1, <1>2, <1>6, <1>7
  <2> HIDE DEF late
  <2> DEFINE w == doy - late
  <2>2. w \in Int /\ 0 <= w /\ w <= 364
    BY <1>8 DEF late
  <2> HIDE DEF w
  <2>3. (365 * (100 * c + 4 * q + r) + w) \div 365 = 100 * c + 4 * q + r
    BY <2>2
  <2> QED BY <1>4, <2>1, <2>3 DEF w, YearIn
<1> DEFINE fours == yoe \div 4
           hundreds == yoe \div 100
<1>10. fours = 25 * c + q /\ hundreds = c
  BY <1>4, <1>9
<1> HIDE DEF fours, hundreds
<1>11. doe - (365 * yoe + fours - hundreds) = doy
  BY <1>1, <1>2, <1>9, <1>10
<1>12. Found(doe, yo, doy)
  BY <1>4, <1>5, <1>9, <1>11 DEF Found, fours, hundreds
<1> QED BY <1>12 DEF doe, DayOfEra

\* The month and the day are found from the day of the year of March.
LEMMA MonthOfYear ==
  ASSUME NEW mp \in 0 .. 11, NEW d \in Int, 1 <= d,
         d <= IF mp = 11 THEN 29 ELSE IF mp \in {1, 3, 6, 8} THEN 30 ELSE 31
  PROVE  /\ (5 * (MarchDays(mp) + d - 1) + 2) \div 153 = mp
         /\ 0 <= MarchDays(mp) + d - 1 /\ MarchDays(mp) + d - 1 <= 365
<1>1. MarchDays(mp) \in Int
  BY DEF MarchDays
<1>2. /\ MarchDays(0) = 0 /\ MarchDays(1) = 31 /\ MarchDays(2) = 61 /\ MarchDays(3) = 92
      /\ MarchDays(4) = 122 /\ MarchDays(5) = 153 /\ MarchDays(6) = 184
      /\ MarchDays(7) = 214 /\ MarchDays(8) = 245 /\ MarchDays(9) = 275
      /\ MarchDays(10) = 306 /\ MarchDays(11) = 337
  BY DEF MarchDays
<1>3. mp \in {0, 1, 2, 3, 4, 5, 6, 7, 8, 9, 10, 11}
  OBVIOUS
<1>4. /\ 153 * mp <= 5 * (MarchDays(mp) + d - 1) + 2
      /\ 5 * (MarchDays(mp) + d - 1) + 2 < 153 * mp + 153
      /\ 0 <= MarchDays(mp) + d - 1 /\ MarchDays(mp) + d - 1 <= 365
  BY <1>2, <1>3
<1> DEFINE a == 5 * (MarchDays(mp) + d - 1) + 2
<1>5. a \in Int /\ 153 * mp <= a /\ a < 153 * mp + 153
  BY <1>1, <1>4
<1> HIDE DEF a
<1>6. a \div 153 = mp
  BY <1>5, DivBy
<1> QED BY <1>4, <1>6 DEF a

LEMMA DateOfIs ==
  ASSUME NEW n
  PROVE  LET z == n + 719468
             era == z \div 146097
             doe == z - era * 146097
             yoe == (doe - doe \div 1460 + doe \div 36524 - doe \div 146096) \div 365
             doy == doe - (365 * yoe + yoe \div 4 - yoe \div 100)
             mp == (5 * doy + 2) \div 153
             m == IF mp < 10 THEN mp + 3 ELSE mp - 9
             y == yoe + era * 400 + (IF m <= 2 THEN 1 ELSE 0)
         IN  DateOf(n) = <<IF y > 9999 THEN 9999 ELSE y, m, doy - (153 * mp + 2) \div 5 + 1>>
  BY DEF DateOf

LEMMA DateIsRight ==
  ASSUME NEW y \in Nat, 1970 <= y, y <= 9999, NEW m \in 1 .. 12, NEW d \in 1 .. DaysIn(y, m)
  PROVE  DateOf(DayNumber(y, m, d)) = <<y, m, d>>
<1> DEFINE Y == IF m > 2 THEN y ELSE y - 1
           mp == IF m > 2 THEN m - 3 ELSE m + 9
           doy == MarchDays(mp) + d - 1
           n == DayNumber(y, m, d)
           z == n + 719468
<1>1. Y \in Nat /\ mp \in 0 .. 11 /\ MarchDays(mp) \in Int /\ d \in Int
  BY DEF MarchDays, DaysIn
<1>2. /\ 1 <= d
      /\ d <= IF mp = 11 THEN 29 ELSE IF mp \in {1, 3, 6, 8} THEN 30 ELSE 31
      /\ mp = 11 /\ d = 29 => Leap(y)
  BY DEF DaysIn
<1>3. doy \in Nat /\ doy <= 365 /\ (5 * doy + 2) \div 153 = mp
  BY <1>1, <1>2, MonthOfYear
<1>4. doy = 365 => Leap(Y + 1)
  <2>1. /\ MarchDays(0) = 0 /\ MarchDays(1) = 31 /\ MarchDays(2) = 61 /\ MarchDays(3) = 92
        /\ MarchDays(4) = 122 /\ MarchDays(5) = 153 /\ MarchDays(6) = 184
        /\ MarchDays(7) = 214 /\ MarchDays(8) = 245 /\ MarchDays(9) = 275
        /\ MarchDays(10) = 306 /\ MarchDays(11) = 337
    BY DEF MarchDays
  <2>2. mp \in {0, 1, 2, 3, 4, 5, 6, 7, 8, 9, 10, 11}
    OBVIOUS
  <2>3. doy = 365 => mp = 11 /\ d = 29
    BY <1>1, <1>2, <2>1, <2>2
  <2> QED BY <1>2, <2>3
<1>5. z = MarchYears(Y) + doy
  <2>1. MarchYears(Y) \in Int
    BY <1>1 DEF MarchYears
  <2>2. z = MarchYears(Y) + MarchDays(mp) + d - 1
    <3>1. CASE m > 2
      BY <1>1, <3>1, FromMarch
    <3>2. CASE m <= 2
      BY <1>1, <3>2, FromMarch
    <3> QED BY <3>1, <3>2
  <2> QED BY <1>1, <2>1, <2>2
<1> DEFINE era == z \div 146097
           doe == z - era * 146097
           yoe == (doe - doe \div 1460 + doe \div 36524 - doe \div 146096) \div 365
           day == doe - (365 * yoe + yoe \div 4 - yoe \div 100)
           month == (5 * day + 2) \div 153
           newYear == IF month < 10 THEN month + 3 ELSE month - 9
           year == yoe + era * 400 + (IF newYear <= 2 THEN 1 ELSE 0)
<1>6. DateOf(n) = <<IF year > 9999 THEN 9999 ELSE year, newYear,
                    day - (153 * month + 2) \div 5 + 1>>
  <2> HIDE DEF n
  <2> QED BY DateOfIs
<1>7. yoe = YearIn(doe)
  BY DEF YearIn
<1> DEFINE e == Y \div 400
           c == (Y % 400) \div 100
           q == (Y % 100) \div 4
           r == Y % 4
<1>8. Splits(Y, e, c, q, r)
  <2>1. Y \in Nat
    BY <1>1
  <2> HIDE DEF Y
  <2> QED BY <2>1, YearSplit
<1> HIDE DEF e, c, q, r
<1> DEFINE off == DayOfEra(c, q, r, doy)
           yo == 100 * c + 4 * q + r
<1> HIDE DEF z, doy, yoe
<1>9. off \in Int /\ z = 146097 * e + off
  BY <1>3, <1>5, <1>8 DEF Splits, DayOfEra
<1>10. Found(off, yo, doy)
  <2>1. /\ c \in Nat /\ q \in Nat /\ r \in Nat
        /\ c <= 3 /\ q <= 24 /\ r <= 3
        /\ doy = 365 => r = 3 /\ (q = 24 => c = 3)
    BY <1>4, <1>8 DEF Splits
  <2>2. doy \in Nat /\ doy <= 365
    BY <1>3
  <2> HIDE DEF Y, mp
  <2> QED BY <2>1, <2>2, DayOfEraIs
<1> HIDE DEF off, yo
<1>11. /\ 0 <= off /\ off <= 146096
       /\ YearIn(off) = yo
       /\ off - (365 * YearIn(off) + YearIn(off) \div 4 - YearIn(off) \div 100) = doy
  BY <1>10 DEF Found
<1>12. era = e /\ doe = off
  <2>1. 146097 * e <= z /\ z < 146097 * e + 146097 /\ z \in Int
    BY <1>8, <1>9, <1>11 DEF Splits
  <2>2. era = e
    BY <1>8, <2>1, DivBy DEF Splits
  <2> QED BY <1>9, <2>2
<1> HIDE DEF era, doe
<1>13. yoe = yo /\ day = doy
  BY <1>7, <1>11, <1>12
<1> HIDE DEF day
<1>14. month = mp
  BY <1>3, <1>13
<1> HIDE DEF month
<1>15. newYear = m
  BY <1>14
<1>16. year = y
  BY <1>8, <1>12, <1>13, <1>15 DEF Splits, yo
<1>17. day - (153 * month + 2) \div 5 + 1 = d
  BY <1>1, <1>13, <1>14 DEF doy, MarchDays
<1> HIDE DEF year, newYear
<1> QED BY <1>6, <1>15, <1>16, <1>17

(***************************************************************************)
(* The timestamp in a capture's name is the calendar's date, for every day *)
(* of every year from 1970 to 9999: rec_timestamp's arithmetic in eras,    *)
(* years and months that start in March loses no leap day.                 *)
(***************************************************************************)
THEOREM NamesAreDates == CapturesSpec => []StampIsDate
<1>1. ASSUME NEW y \in Years PROVE y \in Nat /\ 1970 <= y /\ y <= 9999
  <2>1. y \in 1970 .. 9999
    BY YearsAssumption
  <2> QED BY <2>1
<1>2. DatesRight
  BY <1>1, DateIsRight DEF DatesRight
<1>3. StampIsDate
  BY <1>2 DEF StampIsDate
<1> QED BY <1>3, PTL

-----------------------------------------------------------------------------
(* The encoder: sums, and cells in their order *)

\* The sums of f over the subsets of D, as SumFunction adds them up.
Pick(s) == CHOOSE x \in s : TRUE
Sum(g, f, s) == IF s = {} THEN 0 ELSE f[Pick(s)] + g[s \ {Pick(s)}]
Sums(g, f, D) == g = [s \in SUBSET D |-> Sum(g, f, s)]

LEMMA PickedOut ==
  ASSUME NEW D, IsFiniteSet(D), NEW s \in SUBSET D, s # {}
  PROVE  /\ Pick(s) \in s /\ s \ {Pick(s)} \in SUBSET D
         /\ Cardinality(s) \in Nat /\ Cardinality(s \ {Pick(s)}) \in Nat
         /\ Cardinality(s \ {Pick(s)}) = Cardinality(s) - 1
<1>1. Pick(s) \in s
  BY DEF Pick
<1>2. IsFiniteSet(s) /\ IsFiniteSet(s \ {Pick(s)})
  BY FS_Subset
<1> QED BY <1>1, <1>2, FS_RemoveElement, FS_CardinalityType

LEMMA SumsNat ==
  ASSUME NEW D, IsFiniteSet(D), NEW f, \A x \in D : f[x] \in Nat, NEW g, Sums(g, f, D)
  PROVE  g[D] \in Nat
<1> DEFINE T == {n \in Nat : \A s \in SUBSET D : Cardinality(s) <= n => g[s] \in Nat}
<1>1. \A s \in SUBSET D : g[s] = Sum(g, f, s)
  BY DEF Sums
<1>2. 0 \in T
  <2>1. ASSUME NEW s \in SUBSET D, Cardinality(s) <= 0 PROVE g[s] \in Nat
    <3>1. ASSUME s # {} PROVE FALSE
      <4>1. Cardinality(s) \in Nat /\ Cardinality(s \ {Pick(s)}) \in Nat
            /\ Cardinality(s \ {Pick(s)}) = Cardinality(s) - 1
        BY <3>1, PickedOut
      <4> QED BY <2>1, <4>1
    <3>2. g[s] = Sum(g, f, s)
      BY <1>1
    <3> QED BY <3>1, <3>2 DEF Sum
  <2> QED BY <2>1
<1>3. ASSUME NEW n \in Nat, n \in T PROVE n + 1 \in T
  <2>1. ASSUME NEW s \in SUBSET D, Cardinality(s) <= n + 1 PROVE g[s] \in Nat
    <3>1. CASE s = {}
      <4>1. g[s] = Sum(g, f, s)
        BY <1>1
      <4> QED BY <3>1, <4>1 DEF Sum
    <3>2. CASE s # {}
      <4>1. s \ {Pick(s)} \in SUBSET D /\ Cardinality(s \ {Pick(s)}) <= n /\ f[Pick(s)] \in Nat
        BY <2>1, <3>2, PickedOut
      <4>2. g[s \ {Pick(s)}] \in Nat
        BY <1>3, <4>1
      <4>3. g[s] = f[Pick(s)] + g[s \ {Pick(s)}]
        BY <1>1, <3>2 DEF Sum
      <4> QED BY <4>1, <4>2, <4>3
    <3> QED BY <3>1, <3>2
  <2> QED BY <2>1
<1>4. Cardinality(D) \in T
  <2>1. Cardinality(D) \in Nat
    BY FS_CardinalityType
  <2> HIDE DEF T
  <2> QED BY <1>2, <1>3, <2>1, Induction
<1> QED BY <1>4

LEMMA SumNat ==
  ASSUME NEW f, IsFiniteSet(DOMAIN f), \A x \in DOMAIN f : f[x] \in Nat
  PROVE  SumFunction(f) \in Nat
<1> DEFINE D == DOMAIN f
           Small(n) == {s \in SUBSET D : Cardinality(s) <= n}
           Fits(g, n) == g = [s \in Small(n) |-> Sum(g, f, s)] /\ \A s \in Small(n) : g[s] \in Nat
           T == {n \in Nat : \E g : Fits(g, n)}
<1>1. \A s \in SUBSET D : IsFiniteSet(s) /\ Cardinality(s) \in Nat /\ Cardinality(s) <= Cardinality(D)
  BY FS_Subset, FS_CardinalityType
<1>2. ASSUME NEW s \in SUBSET D, s # {}
      PROVE  /\ Pick(s) \in s /\ s \ {Pick(s)} \in SUBSET D
             /\ Cardinality(s \ {Pick(s)}) = Cardinality(s) - 1
  BY <1>2, PickedOut
<1>3. 0 \in T
  <2> DEFINE g == [s \in Small(0) |-> 0]
  <2>1. \A s \in Small(0) : s = {}
    BY <1>1, FS_EmptySet
  <2>2. g = [s \in Small(0) |-> Sum(g, f, s)]
    BY <2>1 DEF Sum
  <2>3. Fits(g, 0)
    BY <2>2
  <2> HIDE DEF g, Fits
  <2> QED BY <2>3
<1>4. ASSUME NEW n \in Nat, n \in T PROVE n + 1 \in T
  <2>1. PICK g : Fits(g, n)
    BY <1>4
  <2> DEFINE h == [s \in Small(n + 1) |-> Sum(g, f, s)]
  <2>2. ASSUME NEW s \in Small(n + 1) PROVE h[s] = Sum(h, f, s) /\ h[s] \in Nat
    <3>1. CASE s = {}
      BY <3>1 DEF Sum
    <3>2. CASE s # {}
      <4> DEFINE t == s \ {Pick(s)}
      <4>1. t \in Small(n) /\ t \in Small(n + 1)
        <5>1. t \in SUBSET D /\ Cardinality(t) = Cardinality(s) - 1 /\ Cardinality(s) <= n + 1
              /\ Cardinality(s) \in Nat
          BY <1>1, <1>2, <2>2, <3>2
        <5> HIDE DEF t
        <5> QED BY <5>1
      <4> HIDE DEF t
      <4>2. h[t] = Sum(g, f, t) /\ g[t] = Sum(g, f, t) /\ g[t] \in Nat
        BY <2>1, <4>1
      <4>3. h[s] = f[Pick(s)] + g[t] /\ f[Pick(s)] \in Nat
        BY <1>2, <2>2, <3>2 DEF Sum, t
      <4> QED BY <3>2, <4>2, <4>3 DEF Sum, t
    <3> QED BY <3>1, <3>2
  <2>3. Fits(h, n + 1)
    <3>1. h = [s \in Small(n + 1) |-> h[s]]
      OBVIOUS
    <3> HIDE DEF h
    <3> QED BY <2>2, <3>1
  <2> HIDE DEF h, Fits
  <2> QED BY <2>3
<1>5. Cardinality(D) \in T
  <2>1. Cardinality(D) \in Nat
    BY FS_CardinalityType
  <2> HIDE DEF T
  <2> QED BY <1>3, <1>4, <2>1, Induction
<1>6. PICK g : Fits(g, Cardinality(D))
  BY <1>5
<1>7. Small(Cardinality(D)) = SUBSET D
  BY <1>1
<1> HIDE DEF Small
<1>8. Sums(g, f, D)
  BY <1>6, <1>7 DEF Sums
<1> DEFINE k == CHOOSE h : Sums(h, f, D)
<1>9. SumFunction(f) = k[D]
  BY DEF SumFunction, SumFunctionOnSet, FoldFunctionOnSet, MapThenFoldSet, Sums, Sum, Pick
<1>10. Sums(k, f, D)
  BY <1>8
<1> HIDE DEF k
<1> QED BY <1>9, <1>10, SumsNat

\* What is written for a cell.
Cell == [glyph : Nat, fg : Nat, bg : Nat]
Colours == [fg : Nat, bg : Nat]

\* A set with one element more has at most one element more.
AtMost(S, n) == IsFiniteSet(S) /\ Cardinality(S) \in 0 .. n

LEMMA OneMore ==
  ASSUME NEW n \in Nat, NEW S, AtMost(S, n), NEW x, NEW T, T = S \cup {x}
  PROVE  AtMost(T, n + 1)
<1>1. IsFiniteSet(S) /\ Cardinality(S) \in 0 .. n
  BY DEF AtMost
<1>2. /\ IsFiniteSet(S \cup {x})
      /\ \/ Cardinality(S \cup {x}) = Cardinality(S)
         \/ Cardinality(S \cup {x}) = Cardinality(S) + 1
  BY <1>1, FS_AddElement
<1> QED BY <1>1, <1>2 DEF AtMost

LEMMA FewElements ==
  ASSUME NEW a, NEW b, NEW c, NEW d
  PROVE  AtMost({a, b, c}, 3) /\ AtMost({a, b, c, d}, 4)
<1> DEFINE one == {a}
           two == {a, b}
           three == {a, b, c}
           four == {a, b, c, d}
<1>1. one = {} \cup {a} /\ two = one \cup {b} /\ three = two \cup {c} /\ four = three \cup {d}
  OBVIOUS
<1>2. AtMost({}, 0)
  BY FS_EmptySet DEF AtMost
<1> HIDE DEF one, two, three, four
<1>3. AtMost(one, 1)
  <2>1. AtMost(one, 0 + 1)
    BY <1>1, <1>2, OneMore
  <2> QED BY <2>1
<1>4. AtMost(two, 2)
  <2>1. AtMost(two, 1 + 1)
    BY <1>1, <1>3, OneMore
  <2> QED BY <2>1
<1>5. AtMost(three, 3)
  <2>1. AtMost(three, 2 + 1)
    BY <1>1, <1>4, OneMore
  <2> QED BY <2>1
<1>6. AtMost(four, 4)
  <2>1. AtMost(four, 3 + 1)
    BY <1>1, <1>5, OneMore
  <2> QED BY <2>1
<1> QED BY <1>5, <1>6 DEF three, four

LEMMA NoMore ==
  ASSUME NEW n \in Nat, NEW T, AtMost(T, n), NEW S, S \subseteq T
  PROVE  Cardinality(S) \in 0 .. n
<1>1. IsFiniteSet(T) /\ Cardinality(T) \in 0 .. n
  BY DEF AtMost
<1>2. IsFiniteSet(S) /\ Cardinality(S) <= Cardinality(T)
  BY <1>1, FS_Subset
<1>3. Cardinality(S) \in Nat
  BY <1>2, FS_CardinalityType
<1> QED BY <1>1, <1>2, <1>3

LEMMA NumberBytesIs ==
  ASSUME NEW n
  PROVE  NumberBytes(n) \in 1 .. 5
<1> DEFINE s == {m \in {9, 99, 999, 9999} : n > m}
<1>1. NumberBytes(n) = 1 + Cardinality(s)
  BY DEF NumberBytes
<1>2. \E a, b, c, d : s \subseteq {a, b, c, d}
  <2> WITNESS 9, 99, 999, 9999
  <2> QED OBVIOUS
<1> HIDE DEF s
<1>3. PICK a, b, c, d : s \subseteq {a, b, c, d}
  BY <1>2
<1>4. AtMost({a, b, c, d}, 4)
  BY FewElements
<1>5. Cardinality(s) \in 0 .. 4
  BY <1>3, <1>4, NoMore
<1> QED BY <1>1, <1>5

LEMMA GlyphLenIs ==
  ASSUME NEW c
  PROVE  GlyphLen(c) \in 1 .. 4
<1> DEFINE s == {n \in {255, 65535, 16777215} : c.glyph > n}
<1>1. GlyphLen(c) = 1 + Cardinality(s)
  BY DEF GlyphLen
<1>2. \E x, y, z : s \subseteq {x, y, z}
  <2> WITNESS 255, 65535, 16777215
  <2> QED OBVIOUS
<1> HIDE DEF s
<1>3. PICK x, y, z : s \subseteq {x, y, z}
  BY <1>2
<1>4. AtMost({x, y, z}, 3)
  BY FewElements
<1>5. Cardinality(s) \in 0 .. 3
  BY <1>3, <1>4, NoMore
<1> QED BY <1>1, <1>5

LEMMA ColourBytesIs ==
  ASSUME NEW c
  PROVE  ColourBytes(c) \in 1 .. 22
<1> DEFINE a == NumberBytes((c \div 65536) % 256)
           b == NumberBytes((c \div 256) % 256)
           d == NumberBytes(c % 256)
<1>1. a \in 1 .. 5 /\ b \in 1 .. 5 /\ d \in 1 .. 5
  BY NumberBytesIs
<1>2. ColourBytes(c) = CASE Kind(c) = 1 -> 7 + a + b + d [] Kind(c) = 2 -> 5 + d [] OTHER -> 2
  BY DEF ColourBytes
<1> HIDE DEF a, b, d
<1> QED BY <1>1, <1>2

LEMMA SelectBytesIs ==
  ASSUME NEW s, NEW c
  PROVE  SelectBytes(s, c) \in 0 .. 48
<1>1. ColourBytes(c.fg) \in 1 .. 22 /\ ColourBytes(c.bg) \in 1 .. 22
  BY ColourBytesIs
<1> QED BY <1>1 DEF SelectBytes

LEMMA MoveBytesIs ==
  ASSUME NEW a, NEW p
  PROVE  MoveBytes(a, p) \in 0 .. 14
<1>1. NumberBytes(p[2] - a[2]) \in 1 .. 5 /\ NumberBytes(p[1]) \in 1 .. 5 /\ NumberBytes(p[2]) \in 1 .. 5
  BY NumberBytesIs
<1> QED BY <1>1 DEF MoveBytes

\* The largest of some numbers below a bound.
LEMMA MaxIs ==
  ASSUME NEW n \in Nat, NEW S \in SUBSET (1 .. n), S # {}
  PROVE  Max(S) \in S /\ \A y \in S : y <= Max(S)
<1> DEFINE T == {k \in Nat : \A s \in SUBSET (1 .. k) : s # {} => \E x \in s : \A y \in s : x >= y}
<1>1. 0 \in T
  <2>1. \A s \in SUBSET (1 .. 0) : s = {}
    OBVIOUS
  <2> QED BY <2>1
<1>2. ASSUME NEW k \in Nat, k \in T PROVE k + 1 \in T
  <2>1. ASSUME NEW s \in SUBSET (1 .. k + 1), s # {} PROVE \E x \in s : \A y \in s : x >= y
    <3>1. CASE k + 1 \in s
      BY <2>1, <3>1
    <3>2. CASE k + 1 \notin s
      <4>1. s \in SUBSET (1 .. k)
        BY <3>2
      <4> QED BY <1>2, <2>1, <4>1
    <3> QED BY <3>1, <3>2
  <2> QED BY <2>1
<1> HIDE DEF T
<1>3. n \in T
  BY <1>1, <1>2, Induction
<1>4. \E x \in S : \A y \in S : x >= y
  BY <1>3 DEF T
<1>5. Max(S) \in S /\ \A y \in S : Max(S) >= y
  BY <1>4 DEF Max
<1> QED BY <1>5

\* The corner of a picture's extent.
Rows(q) == Max({p[1] : p \in DOMAIN q})
Cols(q) == Max({p[2] : p \in DOMAIN q})

LEMMA ExtentIs ==
  ASSUME NEW q \in Pictures
  PROVE  /\ Rows(q) \in 1 .. Height /\ Cols(q) \in 1 .. Width
         /\ Extent(q) = (1 .. Rows(q)) \X (1 .. Cols(q))
         /\ DOMAIN q \subseteq Extent(q) /\ Extent(q) \subseteq Positions
         /\ IsFiniteSet(DOMAIN q) /\ IsFiniteSet(Extent(q))
         /\ Cardinality(Extent(q)) = Rows(q) * Cols(q)
<1> DEFINE R == {p[1] : p \in DOMAIN q}
           C == {p[2] : p \in DOMAIN q}
<1>1. DOMAIN q # {} /\ DOMAIN q \subseteq Positions /\ Height \in Nat /\ Width \in Nat
  BY PicturesAssumption, ScreenAssumption
<1>2. R \in SUBSET (1 .. Height) /\ R # {} /\ C \in SUBSET (1 .. Width) /\ C # {}
  BY <1>1 DEF Positions
<1>3. Rows(q) \in R /\ (\A y \in R : y <= Rows(q)) /\ Cols(q) \in C /\ (\A y \in C : y <= Cols(q))
  <2> HIDE DEF R, C
  <2>1. Max(R) \in R /\ (\A y \in R : y <= Max(R)) /\ Max(C) \in C /\ (\A y \in C : y <= Max(C))
    BY <1>1, <1>2, MaxIs
  <2> QED BY <2>1 DEF Rows, Cols, R, C
<1>4. Rows(q) \in 1 .. Height /\ Cols(q) \in 1 .. Width
  BY <1>2, <1>3
<1>5. Extent(q) = (1 .. Rows(q)) \X (1 .. Cols(q))
  BY DEF Extent, Rows, Cols
<1>6. \A p \in DOMAIN q : p \in (1 .. Height) \X (1 .. Width) /\ p[1] <= Rows(q) /\ p[2] <= Cols(q)
  BY <1>1, <1>3 DEF Positions
<1>7. DOMAIN q \subseteq Extent(q) /\ Extent(q) \subseteq Positions
  BY <1>1, <1>4, <1>5, <1>6 DEF Positions
<1>8. /\ IsFiniteSet(1 .. Rows(q)) /\ Cardinality(1 .. Rows(q)) = Rows(q)
      /\ IsFiniteSet(1 .. Cols(q)) /\ Cardinality(1 .. Cols(q)) = Cols(q)
  BY <1>1, <1>4, FS_Interval
<1>9. IsFiniteSet(Extent(q)) /\ Cardinality(Extent(q)) = Rows(q) * Cols(q)
  <2> DEFINE across == 1 .. Rows(q)
             down == 1 .. Cols(q)
  <2>1. /\ IsFiniteSet(across) /\ Cardinality(across) = Rows(q)
        /\ IsFiniteSet(down) /\ Cardinality(down) = Cols(q)
        /\ Extent(q) = across \X down
    BY <1>5, <1>8
  <2> HIDE DEF across, down
  <2>2. IsFiniteSet(across \X down) /\ Cardinality(across \X down) = Cardinality(across) * Cardinality(down)
    BY <2>1, FS_Product
  <2> QED BY <2>1, <2>2
<1> QED BY <1>4, <1>5, <1>7, <1>9, FS_Subset

LEMMA RasterIs ==
  ASSUME NEW q \in Pictures
  PROVE  /\ Len(Raster(Extent(q))) = Cardinality(Extent(q))
         /\ Cardinality(Extent(q)) \in 0 .. Height * Width
         /\ \A i \in 1 .. Cardinality(Extent(q)) : Raster(Extent(q))[i] \in Extent(q)
         /\ \A p \in Extent(q) :
               \E i \in 1 .. Cardinality(Extent(q)) : Raster(Extent(q))[i] = p
<1> DEFINE G == Extent(q)
           r == Rows(q)
           c == Cols(q)
           C == {p[2] : p \in G}
<1>1. /\ r \in Nat \ {0} /\ c \in Nat \ {0} /\ r <= Height /\ c <= Width
      /\ Height \in Nat /\ Width \in Nat
      /\ G = (1 .. r) \X (1 .. c) /\ Cardinality(G) = r * c
  BY ExtentIs, ScreenAssumption
<1> HIDE DEF G, r, c
<1>2. C = 1 .. c
  <2>1. \A p \in G : p[2] \in 1 .. c
    BY <1>1
  <2>2. \A y \in 1 .. c : <<1, y>> \in G /\ <<1, y>>[2] = y
    BY <1>1
  <2> QED BY <2>1, <2>2
<1>3. Max(C) = c
  <2>1. Max(1 .. c) \in 1 .. c /\ \A y \in 1 .. c : y <= Max(1 .. c)
    <3>1. 1 .. c # {}
      BY <1>1
    <3> QED BY <1>1, <3>1, MaxIs
  <2>2. c \in 1 .. c
    BY <1>1
  <2>3. Max(1 .. c) = c
    BY <1>1, <2>1, <2>2
  <2> HIDE DEF C
  <2> QED BY <1>2, <2>3
<1>4. Raster(G) = [i \in 1 .. r * c |-> <<(i - 1) \div c + 1, ((i - 1) % c) + 1>>]
  BY <1>1, <1>3 DEF Raster
<1>5. r * c \in Nat /\ r * c <= Height * Width
  <2>1. r * c <= r * Width
    BY <1>1
  <2>2. r * Width <= Height * Width
    BY <1>1
  <2> QED BY <1>1, <2>1, <2>2
<1>6. ASSUME NEW i \in 1 .. r * c PROVE Raster(G)[i] \in G
  <2> DEFINE d == (i - 1) \div c
             m == (i - 1) % c
  <2>1. i - 1 \in Nat /\ i - 1 < r * c
    BY <1>5
  <2>2. i - 1 = c * d + m /\ d \in Nat /\ m \in 0 .. c - 1
    BY <1>1, <2>1, DivIs
  <2> HIDE DEF d, m
  <2>3. d < r
    <3>1. ASSUME d >= r PROVE FALSE
      <4>1. c * d >= c * r
        BY <1>1, <2>2, <3>1
      <4>2. c * r = r * c
        BY <1>1
      <4> QED BY <1>1, <1>5, <2>1, <2>2, <4>1, <4>2
    <3> QED BY <1>1, <2>2, <3>1
  <2>4. d + 1 \in 1 .. r /\ m + 1 \in 1 .. c
    BY <1>1, <2>2, <2>3
  <2>5. Raster(G)[i] = <<d + 1, m + 1>>
    BY <1>4 DEF d, m
  <2>6. <<d + 1, m + 1>> \in (1 .. r) \X (1 .. c)
    BY <2>4
  <2> QED BY <1>1, <2>5, <2>6
<1>7. ASSUME NEW p \in G PROVE \E i \in 1 .. r * c : Raster(G)[i] = p
  <2> DEFINE d == p[1] - 1
             m == p[2] - 1
             i == c * d + m + 1
  <2>1. d \in Nat /\ d < r /\ m \in 0 .. c - 1 /\ p = <<d + 1, m + 1>>
    BY <1>1
  <2> HIDE DEF d, m
  <2>2. c * d \in Nat /\ c * d <= c * (r - 1)
    BY <1>1, <2>1
  <2>3. c * (r - 1) = r * c - c
    BY <1>1
  <2>4. i \in 1 .. r * c
    BY <1>1, <1>5, <2>1, <2>2, <2>3
  <2>5. i - 1 \in Nat /\ i - 1 = c * d + m
    BY <2>1, <2>2
  <2> HIDE DEF i
  <2>6. (i - 1) \div c = d /\ (i - 1) % c = m
    <3> DEFINE a == i - 1
    <3>1. a \in Nat /\ c \in Nat \ {0} /\ a = c * d + m
      BY <1>1, <2>5
    <3> HIDE DEF a
    <3>2. a \div c \in Nat /\ a % c \in 0 .. c - 1 /\ a = c * (a \div c) + (a % c)
      BY <3>1, DivIs
    <3>3. a \div c = d /\ a % c = m
      BY <2>1, <3>1, <3>2, DivUnique
    <3> QED BY <3>3 DEF a
  <2>7. Raster(G)[i] = p
    BY <1>4, <2>1, <2>4, <2>6
  <2> QED BY <2>4, <2>7
<1>8. Len(Raster(G)) = r * c
  BY <1>4, <1>5
<1>9. /\ Len(Raster(G)) = Cardinality(G)
      /\ Cardinality(G) \in 0 .. Height * Width
      /\ \A i \in 1 .. Cardinality(G) : Raster(G)[i] \in G
      /\ \A p \in G : \E i \in 1 .. Cardinality(G) : Raster(G)[i] = p
  <2>1. Cardinality(G) = r * c
    BY <1>1
  <2> QED BY <1>5, <1>6, <1>7, <1>8, <2>1
<1> QED BY <1>9 DEF G

LEMMA RawBytesIs ==
  ASSUME NEW q \in Pictures
  PROVE  RawBytes(q) \in Nat /\ RawBytes(q) > 0 /\ Need(q) \in Nat /\ Need(q) > 0
<1> DEFINE f == [p \in DOMAIN q |-> GlyphLen(q[p]) + SelectBytes(Plain, q[p])]
           R == {p[1] : p \in DOMAIN q}
<1>1. DOMAIN q \subseteq Positions /\ IsFiniteSet(DOMAIN q) /\ Height \in Nat /\ Slack \in Nat
  BY PicturesAssumption, ScreenAssumption, ExtentIs
<1>2. IsFiniteSet(DOMAIN f) /\ \A p \in DOMAIN f : f[p] \in Nat
  <2>1. ASSUME NEW p \in DOMAIN q PROVE f[p] \in Nat
    <3>1. GlyphLen(q[p]) \in 1 .. 4 /\ SelectBytes(Plain, q[p]) \in 0 .. 48
      BY GlyphLenIs, SelectBytesIs
    <3> QED BY <3>1
  <2> QED BY <1>1, <2>1
<1>3. Cardinality(R) \in Nat
  <2>1. R \in SUBSET (1 .. Height)
    BY <1>1 DEF Positions
  <2>2. IsFiniteSet(1 .. Height)
    BY <1>1, FS_Interval
  <2> HIDE DEF R
  <2> QED BY <2>1, <2>2, FS_Subset, FS_CardinalityType
<1>4. RawBytes(q) = 3 + 5 * Cardinality(R) + SumFunction(f)
  BY DEF RawBytes
<1> HIDE DEF f, R
<1>5. SumFunction(f) \in Nat
  BY <1>2, SumNat
<1>6. RawBytes(q) \in Nat /\ RawBytes(q) > 0
  BY <1>3, <1>4, <1>5
<1>7. RawBytes(q) \div 4 \in Nat
  BY <1>6
<1> QED BY <1>1, <1>6, <1>7 DEF Need

\* What the encoder believes of the terminal is so: before its first byte
\* nothing is selected, after it what is selected is known.
Wired(w, p0) ==
  /\ w.len \in Nat /\ w.at[2] \in Nat
  /\ DOMAIN w.screen = Positions
  /\ IF w.len = 0 THEN w.sel = Plain /\ w.pen = p0 ELSE w.pen = w.sel

LEMMA EmitCellIs ==
  ASSUME NEW w, NEW p0, Wired(w, p0), NEW p \in Positions, NEW c \in Cell
  PROVE  /\ Wired(EmitCell(w, p, c), p0)
         /\ EmitCell(w, p, c).len > 0 /\ EmitCell(w, p, c).len <= w.len + 80
         /\ \A x \in Positions :
               EmitCell(w, p, c).screen[x] = IF x = p THEN c ELSE w.screen[x]
<1> DEFINE base == IF w.len = 0 THEN Plain ELSE w.pen
           shade == [fg |-> IF c.fg # w.sel.fg THEN c.fg ELSE base.fg,
                     bg |-> IF c.bg # w.sel.bg THEN c.bg ELSE base.bg]
           cost == (IF w.len = 0 THEN 4 ELSE 0) + MoveBytes(w.at, p)
                     + SelectBytes(w.sel, c) + GlyphLen(c)
           scr == [w.screen EXCEPT ![p] = [glyph |-> c.glyph, fg |-> shade.fg, bg |-> shade.bg]]
<1>1. shade = [fg |-> c.fg, bg |-> c.bg]
  BY DEF Wired, Plain
<1>2. cost \in 1 .. 70
  <2>1. /\ MoveBytes(w.at, p) \in 0 .. 14 /\ SelectBytes(w.sel, c) \in 0 .. 48
        /\ GlyphLen(c) \in 1 .. 4
    BY MoveBytesIs, SelectBytesIs, GlyphLenIs
  <2> QED BY <2>1
<1>3. [glyph |-> c.glyph, fg |-> shade.fg, bg |-> shade.bg] = c
  <2> HIDE DEF shade
  <2> QED BY <1>1 DEF Cell
<1>4. EmitCell(w, p, c) = [screen |-> scr, pen |-> shade,
                           len |-> w.len + (IF w.len = 0 THEN 4 ELSE 0) + MoveBytes(w.at, p)
                                     + SelectBytes(w.sel, c) + GlyphLen(c),
                           at |-> <<p[1], p[2] + 1>>, sel |-> [fg |-> c.fg, bg |-> c.bg]]
  BY DEF EmitCell
<1>5. /\ EmitCell(w, p, c).screen = scr /\ EmitCell(w, p, c).pen = shade
      /\ EmitCell(w, p, c).len = w.len + (IF w.len = 0 THEN 4 ELSE 0) + MoveBytes(w.at, p)
                                     + SelectBytes(w.sel, c) + GlyphLen(c)
      /\ EmitCell(w, p, c).at = <<p[1], p[2] + 1>>
      /\ EmitCell(w, p, c).sel = [fg |-> c.fg, bg |-> c.bg]
  <2> HIDE DEF shade, scr
  <2> QED BY <1>4
<1>6. EmitCell(w, p, c).len = w.len + cost
  <2>1. /\ MoveBytes(w.at, p) \in Nat /\ SelectBytes(w.sel, c) \in Nat /\ GlyphLen(c) \in Nat
        /\ w.len \in Nat
    BY MoveBytesIs, SelectBytesIs, GlyphLenIs DEF Wired
  <2> QED BY <1>5, <2>1
<1>7. DOMAIN scr = Positions /\ \A x \in Positions : scr[x] = IF x = p THEN c ELSE w.screen[x]
  <2> HIDE DEF shade
  <2> QED BY <1>3 DEF Wired
<1>8. <<p[1], p[2] + 1>>[2] \in Nat
  BY ScreenAssumption DEF Positions
<1> HIDE DEF cost, scr, shade
<1>9. EmitCell(w, p, c).len \in Nat /\ EmitCell(w, p, c).len > 0 /\ EmitCell(w, p, c).len <= w.len + 80
  BY <1>2, <1>6 DEF Wired
<1> QED BY <1>1, <1>5, <1>7, <1>8, <1>9 DEF Wired

\* The wires after each of n cells.
IsSent(f, w, q, cells, n) ==
  f = [i \in 0 .. n |-> IF i = 0 THEN w ELSE EmitCell(f[i - 1], cells[i], q[cells[i]])]

LEMMA SentStep ==
  ASSUME NEW f, NEW w, NEW q, NEW cells, NEW n \in Nat, IsSent(f, w, q, cells, n), NEW i \in 0 .. n
  PROVE  f[i] = IF i = 0 THEN w ELSE EmitCell(f[i - 1], cells[i], q[cells[i]])
<1> DEFINE step == [k \in 0 .. n |-> IF k = 0 THEN w ELSE EmitCell(f[k - 1], cells[k], q[cells[k]])]
<1>1. f = step
  BY Zenon DEF IsSent
<1>2. step[i] = IF i = 0 THEN w ELSE EmitCell(f[i - 1], cells[i], q[cells[i]])
  OBVIOUS
<1> HIDE DEF step
<1> QED BY <1>1, <1>2

LEMMA SentExists ==
  ASSUME NEW w, NEW q, NEW cells, NEW m \in Nat
  PROVE  \E f : IsSent(f, w, q, cells, m)
<1> DEFINE T == {n \in Nat : \E f : IsSent(f, w, q, cells, n)}
<1>1. 0 \in T
  <2> DEFINE f == [i \in 0 .. 0 |-> w]
  <2>1. f = [i \in 0 .. 0 |-> IF i = 0 THEN w ELSE EmitCell(f[i - 1], cells[i], q[cells[i]])]
    OBVIOUS
  <2> HIDE DEF f
  <2> QED BY <2>1 DEF IsSent
<1>2. ASSUME NEW n \in Nat, n \in T PROVE n + 1 \in T
  <2>1. PICK f : IsSent(f, w, q, cells, n)
    BY <1>2
  <2> DEFINE newest == EmitCell(f[n], cells[n + 1], q[cells[n + 1]])
             g == [i \in 0 .. n + 1 |-> IF i <= n THEN f[i] ELSE newest]
             s(i) == IF i = 0 THEN w ELSE EmitCell(g[i - 1], cells[i], q[cells[i]])
  <2>2. \A i \in 0 .. n : f[i] = IF i = 0 THEN w ELSE EmitCell(f[i - 1], cells[i], q[cells[i]])
    BY <2>1, SentStep
  <2>3. (\A i \in 0 .. n : g[i] = f[i]) /\ g[n + 1] = newest
    <3> HIDE DEF newest
    <3> QED OBVIOUS
  <2>4. g = [i \in 0 .. n + 1 |-> g[i]]
    OBVIOUS
  <2> HIDE DEF g
  <2>5. ASSUME NEW i \in 0 .. n + 1 PROVE g[i] = s(i)
    <3>1. CASE i \in 0 .. n
      <4>1. g[i] = f[i] /\ (i # 0 => i - 1 \in 0 .. n)
        BY <2>3, <3>1
      <4>2. i # 0 => g[i - 1] = f[i - 1]
        BY <2>3, <4>1
      <4> QED BY <2>2, <3>1, <4>1, <4>2
    <3>2. CASE i = n + 1
      <4>1. i # 0 /\ i - 1 = n /\ g[i - 1] = f[n] /\ g[i] = newest
        BY <2>3, <3>2
      <4> QED BY Zenon, <3>2, <4>1
    <3> QED BY <3>1, <3>2
  <2>6. g = [i \in 0 .. n + 1 |-> s(i)]
    <3> HIDE DEF s
    <3> QED BY <2>4, <2>5
  <2>7. IsSent(g, w, q, cells, n + 1)
    BY Zenon, <2>6 DEF IsSent
  <2> QED BY <2>7
<1> HIDE DEF T
<1>3. m \in T
  BY <1>1, <1>2, Induction
<1> QED BY <1>3 DEF T

LEMMA EmitAllIs ==
  ASSUME NEW w, NEW p0, Wired(w, p0), NEW q \in Pictures, NEW cells \in Seq(DOMAIN q),
         Len(cells) > 0
  PROVE  /\ Wired(EmitAll(w, q, cells), p0) /\ EmitAll(w, q, cells).len > 0
         /\ EmitAll(w, q, cells).len <= w.len + 80 * Len(cells)
         /\ \A x \in Positions :
               EmitAll(w, q, cells).screen[x] = IF x \in Range(cells) THEN q[x] ELSE w.screen[x]
<1> DEFINE n == Len(cells)
           g == CHOOSE f : IsSent(f, w, q, cells, n)
           Hit(i, x) == \E j \in 1 .. i : cells[j] = x
           Fine(i) == /\ Wired(g[i], p0) /\ (i > 0 => g[i].len > 0)
                      /\ g[i].len <= w.len + 80 * i
                      /\ \A x \in Positions :
                            g[i].screen[x] = IF Hit(i, x) THEN q[x] ELSE w.screen[x]
           T == {k \in Nat : k <= n => Fine(k)}
<1>1. n \in Nat /\ n > 0
  OBVIOUS
<1>2. \A j \in 1 .. n : cells[j] \in DOMAIN q /\ cells[j] \in Positions /\ q[cells[j]] \in Cell
  BY PicturesAssumption DEF Cell
<1> HIDE DEF n
<1>3. EmitAll(w, q, cells) = g[n]
  BY Zenon DEF EmitAll, IsSent, n
<1>4. IsSent(g, w, q, cells, n)
  BY <1>1, SentExists
<1> HIDE DEF g
<1>5. g[0] = w /\ \A k \in 1 .. n : g[k] = EmitCell(g[k - 1], cells[k], q[cells[k]])
  <2>1. g[0] = w
    BY <1>1, <1>4, SentStep
  <2>2. ASSUME NEW k \in 1 .. n PROVE g[k] = EmitCell(g[k - 1], cells[k], q[cells[k]])
    <3>1. k \in 0 .. n /\ k # 0
      OBVIOUS
    <3>2. g[k] = IF k = 0 THEN w ELSE EmitCell(g[k - 1], cells[k], q[cells[k]])
      BY <1>1, <1>4, <3>1, SentStep
    <3> QED BY <3>1, <3>2
  <2> QED BY <2>1, <2>2
<1>6. w.len \in Nat
  BY DEF Wired
<1>7. 0 \in T
  <2>1. Fine(0)
    BY <1>5, <1>6
  <2> HIDE DEF Fine
  <2> QED BY <2>1
<1>8. ASSUME NEW k \in Nat, k \in T PROVE k + 1 \in T
  <2>1. SUFFICES ASSUME k + 1 <= n PROVE Fine(k + 1)
    <3> HIDE DEF Fine
    <3> QED OBVIOUS
  <2>2. Fine(k) /\ k + 1 \in 1 .. n /\ (k + 1) - 1 = k
    <3> HIDE DEF Fine
    <3> QED BY <1>1, <1>8, <2>1
  <2> DEFINE u == g[k]
             p == cells[k + 1]
             v == EmitCell(u, p, q[p])
  <2>3. g[k + 1] = v
    BY <1>5, <2>2
  <2>4. Wired(u, p0) /\ p \in Positions /\ q[p] \in Cell
    BY <1>2, <2>2
  <2>5. u.len \in Nat /\ u.len <= w.len + 80 * k
    BY <2>2 DEF Wired
  <2>6. \A x \in Positions : u.screen[x] = IF Hit(k, x) THEN q[x] ELSE w.screen[x]
    BY <2>2
  <2>7. \A x : Hit(k + 1, x) <=> (Hit(k, x) \/ x = p)
    OBVIOUS
  <2> HIDE DEF u, Fine
  <2>8. /\ Wired(v, p0) /\ v.len > 0 /\ v.len <= u.len + 80
        /\ \A x \in Positions : v.screen[x] = IF x = p THEN q[p] ELSE u.screen[x]
    BY <2>4, EmitCellIs
  <2>9. v.len \in Nat
    BY <2>8 DEF Wired
  <2> HIDE DEF v, p, Hit
  <2>10. v.len <= w.len + 80 * (k + 1)
    BY <1>6, <2>5, <2>8, <2>9
  <2>11. \A x \in Positions : v.screen[x] = IF Hit(k + 1, x) THEN q[x] ELSE w.screen[x]
    BY <2>6, <2>7, <2>8
  <2> QED BY <2>3, <2>8, <2>10, <2>11 DEF Fine
<1> HIDE DEF Fine
<1>9. Fine(n)
  <2> HIDE DEF T
  <2>1. n \in T
    BY <1>1, <1>7, <1>8, Induction
  <2> QED BY <2>1 DEF T
<1>10. \A x : x \in Range(cells) <=> Hit(n, x)
  <2>1. DOMAIN cells = 1 .. n
    BY DEF n
  <2> QED BY <2>1 DEF Range
<1> HIDE DEF Hit
<1> QED BY <1>1, <1>3, <1>9, <1>10 DEF Fine, n

LEMMA GapIs ==
  ASSUME NEW w, NEW p0, Wired(w, p0), NEW q, NEW p \in Positions, NEW cap \in Nat
  PROVE  /\ Gap(w, q, p, cap) \in Seq(DOMAIN q)
         /\ \/ Len(Gap(w, q, p, cap)) = 0
            \/ w.len + (Len(Gap(w, q, p, cap)) + 1) * 80 + 12 <= cap
<1> DEFINE gap == p[2] - w.at[2]
           between == [i \in 1..gap |-> <<p[1], w.at[2] + i - 1>>]
           A == w.at[1] = p[1] /\ gap > 0 /\ gap <= GAP_MAX
           B == w.len + (gap + 1) * CELL_MAX_BYTES + 12 <= cap
           C == \A i \in 1..gap : between[i] \in DOMAIN q
           F == FillCost(w.sel, [i \in 1..gap |-> q[between[i]]])
                  <= (IF gap < 10 THEN 4 ELSE 5)
<1>1. gap \in Int
  BY ScreenAssumption DEF Wired, Positions
<1>2. Gap(w, q, p, cap) = IF A /\ B /\ C /\ F THEN between ELSE <<>>
  BY Zenon DEF Gap
<1>3. ASSUME gap > 0 PROVE between \in Seq(Positions \cup {<<p[1], w.at[2] + i - 1>> : i \in 1 .. gap}) /\ Len(between) = gap
  <2> HIDE DEF gap
  <2> QED BY <1>1, <1>3
<1>4. ASSUME gap > 0, C PROVE between \in Seq(DOMAIN q)
  <2>1. between = [i \in 1 .. gap |-> between[i]] /\ gap \in Nat
    BY <1>1, <1>4
  <2>2. \A i \in 1 .. gap : between[i] \in DOMAIN q
    BY <1>4
  <2> HIDE DEF gap, between
  <2> QED BY <2>1, <2>2
<1>5. CASE A /\ B /\ C /\ F
  <2>1. Gap(w, q, p, cap) = between /\ gap > 0 /\ C
    BY <1>2, <1>5
  <2>2. Len(between) = gap /\ between \in Seq(DOMAIN q)
    BY <1>3, <1>4, <2>1
  <2>3. w.len + (gap + 1) * 80 + 12 <= cap
    BY <1>5 DEF CELL_MAX_BYTES
  <2> HIDE DEF gap, between
  <2> QED BY <2>1, <2>2, <2>3
<1>6. CASE ~(A /\ B /\ C /\ F)
  <2>1. Gap(w, q, p, cap) = <<>>
    BY <1>2, <1>6
  <2> QED BY <2>1
<1> QED BY <1>5, <1>6

LEMMA WantedIs ==
  ASSUME NEW k, NEW c \in Cell
  PROVE  ~Wanted(c, c) /\ (k.fg = Unknown.fg => Wanted(k, c))
<1>1. CellScore(c, c) = 0
  BY DEF CellScore, ColourScore, Cell, Unknown
<1>2. k.fg = Unknown.fg => CellScore(k, c) = 1000
  BY DEF CellScore, SCORE_UNKNOWN
<1> QED BY <1>1, <1>2 DEF Wanted

\* What n positions of the grid have come to: each cell of it is as it was,
\* on the screen and in memory, or the picture's in both; what is still
\* missing is counted.
Left(e, q, n) ==
  {x \in DOMAIN q : (\E j \in 1 .. n : Raster(Extent(q))[j] = x) /\ Wanted(e.known[x], q[x])}

Settled(e, k0, q, cap, n) ==
  /\ Wired(e.wire, pen) /\ (e.wire.len > 0 => e.wire.len + 12 <= cap)
  /\ e.wire.len = 0 => \A x \in Positions : e.wire.screen[x] = screen[x]
  /\ DOMAIN e.known = Extent(q)
  /\ e.pending \in 0 .. n
  /\ \A x \in Positions :
        \/ e.wire.screen[x] = screen[x] /\ (x \in Extent(q) => e.known[x] = k0[x])
        \/ x \in DOMAIN q /\ e.known[x] = q[x] /\ e.wire.screen[x] = q[x]
  /\ Cardinality(Left(e, q, n)) <= e.pending

\* The bound on the pending cells grows with each position.
LEMMA SendSettles ==
  ASSUME NEW q \in Pictures, NEW k0, NEW cap \in Nat, NEW n \in Nat, NEW e,
         Settled(e, k0, q, cap, n), NEW p \in DOMAIN q,
         n + 1 <= Cardinality(Extent(q)), Raster(Extent(q))[n + 1] = p,
         NEW d, d.known = e.known, d.wire = e.wire, d.pending = e.pending,
         e.wire.len + 80 + 12 <= cap
  PROVE  Settled(Send(q, cap, d, Append(Gap(e.wire, q, p, cap), p)), k0, q, cap, n + 1)
<1> DEFINE s == Append(Gap(e.wire, q, p, cap), p)
           w == EmitAll(e.wire, q, s)
           known == [x \in DOMAIN e.known |-> IF x \in Range(s) THEN q[x] ELSE e.known[x]]
           r == Send(q, cap, d, s)
<1>1. p \in Positions /\ DOMAIN q \subseteq Extent(q) /\ Extent(q) \subseteq Positions /\ IsFiniteSet(DOMAIN q)
  BY ExtentIs
<1>2. /\ s \in Seq(DOMAIN q) /\ Len(s) > 0 /\ e.wire.len + Len(s) * 80 + 12 <= cap /\ p \in Range(s)
      /\ \A x \in Range(s) : x \in DOMAIN q
  <2> DEFINE g == Gap(e.wire, q, p, cap)
  <2>0. Wired(e.wire, pen)
    BY DEF Settled
  <2>1. g \in Seq(DOMAIN q) /\ (Len(g) = 0 \/ e.wire.len + (Len(g) + 1) * 80 + 12 <= cap)
    BY <1>1, <2>0, GapIs
  <2> HIDE DEF g
  <2>2. s = Append(g, p)
    BY DEF g
  <2>3. s \in Seq(DOMAIN q) /\ Len(s) = Len(g) + 1 /\ Len(g) \in Nat /\ s[Len(s)] = p
    BY <2>1, <2>2
  <2>4. e.wire.len + Len(s) * 80 + 12 <= cap
    BY <2>1, <2>3 DEF Settled, Wired
  <2> HIDE DEF s
  <2>5. DOMAIN s = 1 .. Len(s) /\ \A j \in DOMAIN s : s[j] \in DOMAIN q
    BY <2>3
  <2>6. p \in Range(s) /\ \A x \in Range(s) : x \in DOMAIN q
    BY <2>3, <2>5 DEF Range
  <2> QED BY <2>3, <2>4, <2>6
<1> HIDE DEF s
<1>3. /\ Wired(w, pen) /\ w.len > 0 /\ w.len <= e.wire.len + 80 * Len(s)
      /\ \A x \in Positions : w.screen[x] = IF x \in Range(s) THEN q[x] ELSE e.wire.screen[x]
  BY <1>2, EmitAllIs DEF Settled
<1>4. r.known = known /\ r.wire = w /\ r.pending = e.pending
  BY DEF Send
<1>5. w.len + 12 <= cap
  <2> DEFINE l == Len(s)
             a == e.wire.len
             b == w.len
  <2>1. a \in Nat /\ b \in Nat /\ l \in Nat
    BY <1>2, <1>3 DEF Wired, Settled
  <2>2. a + l * 80 + 12 <= cap /\ b <= a + 80 * l
    BY <1>2, <1>3
  <2> HIDE DEF a, b, l
  <2>3. b + 12 <= cap
    BY <2>1, <2>2
  <2> QED BY <2>3 DEF b
<1>6. DOMAIN known = Extent(q)
  BY DEF Settled
<1>7. \A x \in Extent(q) : known[x] = IF x \in Range(s) THEN q[x] ELSE e.known[x]
  BY DEF Settled
<1> HIDE DEF known, w, r
<1>8. ASSUME NEW x \in Positions
      PROVE  \/ r.wire.screen[x] = screen[x] /\ (x \in Extent(q) => r.known[x] = k0[x])
             \/ x \in DOMAIN q /\ r.known[x] = q[x] /\ r.wire.screen[x] = q[x]
  <2>1. CASE x \in Range(s)
    BY <1>1, <1>2, <1>3, <1>4, <1>7, <2>1
  <2>2. CASE x \notin Range(s)
    <3>1. \/ e.wire.screen[x] = screen[x] /\ (x \in Extent(q) => e.known[x] = k0[x])
          \/ x \in DOMAIN q /\ e.known[x] = q[x] /\ e.wire.screen[x] = q[x]
      BY DEF Settled
    <3> QED BY <1>1, <1>3, <1>4, <1>7, <2>2, <3>1
  <2> QED BY <2>1, <2>2
<1>9. Cardinality(Left(r, q, n + 1)) <= Cardinality(Left(e, q, n))
  <2>1. ASSUME NEW x \in Left(r, q, n + 1) PROVE x \in Left(e, q, n)
    <3>1. x \in DOMAIN q /\ Wanted(r.known[x], q[x])
          /\ \E j \in 1 .. n + 1 : Raster(Extent(q))[j] = x
      BY <2>1 DEF Left
    <3>2. x \notin Range(s)
      <4>1. q[x] \in Cell
        BY <3>1, PicturesAssumption DEF Cell
      <4> QED BY <1>1, <1>4, <1>7, <3>1, <4>1, WantedIs
    <3>3. r.known[x] = e.known[x] /\ x # p
      BY <1>1, <1>2, <1>4, <1>7, <3>1, <3>2
    <3>4. \E j \in 1 .. n : Raster(Extent(q))[j] = x
      BY <3>1, <3>3
    <3> QED BY <3>1, <3>3, <3>4 DEF Left
  <2>2. Left(r, q, n + 1) \subseteq Left(e, q, n) /\ IsFiniteSet(Left(e, q, n))
    <3>1. Left(e, q, n) \subseteq DOMAIN q
      BY DEF Left
    <3> QED BY <1>1, <2>1, <3>1, FS_Subset
  <2> QED BY <2>2, FS_Subset
<1>10. IsFiniteSet(Left(r, q, n + 1)) /\ IsFiniteSet(Left(e, q, n))
  <2>1. Left(r, q, n + 1) \subseteq DOMAIN q /\ Left(e, q, n) \subseteq DOMAIN q
    BY DEF Left
  <2> QED BY <1>1, <2>1, FS_Subset
<1>11. r.pending \in 0 .. n + 1 /\ Cardinality(Left(r, q, n + 1)) <= r.pending
  <2>1. Cardinality(Left(r, q, n + 1)) \in Nat /\ Cardinality(Left(e, q, n)) \in Nat
    BY <1>10, FS_CardinalityType
  <2>2. e.pending \in 0 .. n /\ Cardinality(Left(e, q, n)) <= e.pending
    BY DEF Settled
  <2> QED BY <1>4, <1>9, <2>1, <2>2
<1>12. /\ Wired(r.wire, pen) /\ (r.wire.len > 0 => r.wire.len + 12 <= cap)
       /\ ~(r.wire.len = 0) /\ DOMAIN r.known = Extent(q)
  BY <1>3, <1>4, <1>5, <1>6
<1> HIDE DEF Settled, Left
<1>13. Settled(r, k0, q, cap, n + 1)
  BY <1>8, <1>11, <1>12 DEF Settled
<1> QED BY <1>13 DEF r, s

IsPass(e) ==
  e = [known |-> e.known, wire |-> e.wire, room |-> e.room, pending |-> e.pending]

LEMMA SpendIs ==
  ASSUME NEW q, NEW thr, NEW cap, NEW e, IsPass(e), NEW p, NEW b
  PROVE  LET d == Spend(q, thr, cap, e, p, b)
             k == [d EXCEPT !.pending = @ + 1]
         IN  /\ IsPass(d) /\ d.known = e.known /\ d.wire = e.wire /\ d.pending = e.pending
             /\ IsPass(k) /\ k.known = e.known /\ k.wire = e.wire /\ k.pending = e.pending + 1
<1> DEFINE d == Spend(q, thr, cap, e, p, b)
<1>1. d = e \/ \E r : d = [e EXCEPT !.room = r]
  BY DEF Spend
<1>2. IsPass(d) /\ d.known = e.known /\ d.wire = e.wire /\ d.pending = e.pending
  <2>1. CASE d = e
    <3> HIDE DEF d
    <3> QED BY <2>1
  <2>2. ASSUME NEW r, d = [e EXCEPT !.room = r]
        PROVE  IsPass(d) /\ d.known = e.known /\ d.wire = e.wire /\ d.pending = e.pending
    <3> HIDE DEF d
    <3>1. d = [known |-> e.known, wire |-> e.wire, room |-> r, pending |-> e.pending]
      BY <2>2 DEF IsPass
    <3> QED BY <3>1 DEF IsPass
  <2> QED BY <1>1, <2>1, <2>2
<1> HIDE DEF d
<1> DEFINE k == [d EXCEPT !.pending = @ + 1]
<1>3. k = [known |-> d.known, wire |-> d.wire, room |-> d.room, pending |-> d.pending + 1]
  BY <1>2 DEF IsPass
<1> HIDE DEF k
<1>4. IsPass(k) /\ k.known = d.known /\ k.wire = d.wire /\ k.pending = d.pending + 1
  BY <1>3 DEF IsPass
<1>5. IsPass(k) /\ k.known = e.known /\ k.wire = e.wire /\ k.pending = e.pending + 1
  BY <1>2, <1>4
<1> QED BY <1>2, <1>5 DEF d, k

\* A position whose cell is kept back adds it to what is pending.
LEMMA KeepSettles ==
  ASSUME NEW q \in Pictures, NEW k0, NEW cap \in Nat, NEW n \in Nat, NEW e,
         Settled(e, k0, q, cap, n), n + 1 <= Cardinality(Extent(q)),
         NEW r, r.known = e.known, r.wire = e.wire,
         \/ r.pending = e.pending + 1
         \/ /\ r.pending = e.pending
            /\ \/ Raster(Extent(q))[n + 1] \notin DOMAIN q
               \/ ~Wanted(e.known[Raster(Extent(q))[n + 1]], q[Raster(Extent(q))[n + 1]])
  PROVE  Settled(r, k0, q, cap, n + 1)
<1> DEFINE p == Raster(Extent(q))[n + 1]
           L == Left(e, q, n)
           M == Left(r, q, n + 1)
<1>1. IsFiniteSet(DOMAIN q)
  BY ExtentIs
<1>2. IsFiniteSet(L) /\ IsFiniteSet(M) /\ Cardinality(L) \in Nat /\ Cardinality(M) \in Nat
  <2>1. L \subseteq DOMAIN q /\ M \subseteq DOMAIN q
    BY DEF Left
  <2> HIDE DEF L, M
  <2> QED BY <1>1, <2>1, FS_Subset, FS_CardinalityType
<1>3. \A x \in M : x \in L \/ x = p
  <2> SUFFICES ASSUME NEW x \in M, x # p PROVE x \in L
    OBVIOUS
  <2>1. x \in DOMAIN q /\ Wanted(e.known[x], q[x]) /\ \E j \in 1 .. n + 1 : Raster(Extent(q))[j] = x
    BY DEF Left
  <2>2. \E j \in 1 .. n : Raster(Extent(q))[j] = x
    BY <2>1
  <2> QED BY <2>1, <2>2 DEF Left
<1>4. p \in M => p \in DOMAIN q /\ Wanted(e.known[p], q[p])
  BY DEF Left
<1> HIDE DEF L, M
<1>5. Cardinality(M) <= r.pending /\ r.pending \in 0 .. n + 1
  <2>1. Cardinality(L) <= e.pending /\ e.pending \in 0 .. n
    BY DEF Settled, L
  <2>2. CASE r.pending = e.pending + 1
    <3>1. M \subseteq L \cup {p} /\ IsFiniteSet(L \cup {p}) /\ Cardinality(L \cup {p}) <= Cardinality(L) + 1
      <4>1. M \subseteq L \cup {p}
        BY <1>3
      <4>2. /\ IsFiniteSet(L \cup {p})
            /\ Cardinality(L \cup {p}) = IF p \in L THEN Cardinality(L) ELSE Cardinality(L) + 1
        BY <1>2, FS_AddElement
      <4> HIDE DEF p
      <4> QED BY <1>2, <4>1, <4>2
    <3>2. Cardinality(L \cup {p}) \in Nat /\ Cardinality(M) <= Cardinality(L \cup {p})
      BY <3>1, FS_Subset, FS_CardinalityType
    <3> QED BY <1>2, <2>1, <2>2, <3>1, <3>2
  <2>3. CASE r.pending = e.pending /\ ~(p \in DOMAIN q /\ Wanted(e.known[p], q[p]))
    <3>1. M \subseteq L
      BY <1>3, <1>4, <2>3
    <3>2. Cardinality(M) <= Cardinality(L)
      BY <1>2, <3>1, FS_Subset
    <3> QED BY <1>2, <2>1, <2>3, <3>2
  <2> QED BY <2>2, <2>3
<1> QED BY <1>5 DEF Settled, M

LEMMA VisitSettles ==
  ASSUME NEW q \in Pictures, NEW k0, NEW cap \in Nat, NEW thr, NEW n \in Nat, NEW e,
         IsPass(e), Settled(e, k0, q, cap, n), n + 1 <= Cardinality(Extent(q)),
         NEW p, p = Raster(Extent(q))[n + 1]
  PROVE  IsPass(Visit(q, thr, cap, e, p)) /\ Settled(Visit(q, thr, cap, e, p), k0, q, cap, n + 1)
<1> DEFINE b == BinOf(CellScore(e.known[p], q[p]))
           d == Spend(q, thr, cap, e, p, b)
           s == Send(q, cap, d, Append(Gap(e.wire, q, p, cap), p))
           k == [d EXCEPT !.pending = @ + 1]
<1>1. CASE p \notin DOMAIN q \/ ~Wanted(e.known[p], q[p])
  <2>1. Visit(q, thr, cap, e, p) = e
    BY <1>1 DEF Visit
  <2> QED BY <1>1, <2>1, KeepSettles
<1>2. CASE p \in DOMAIN q /\ Wanted(e.known[p], q[p])
  <2>1. Visit(q, thr, cap, e, p) = Try(q, thr, cap, e, p, b)
    BY <1>2 DEF Visit
  <2>2. \/ Try(q, thr, cap, e, p, b) = s /\ e.wire.len + 80 + 12 <= cap
        \/ Try(q, thr, cap, e, p, b) = k
    BY DEF Try, CELL_MAX_BYTES
  <2>3. /\ d.known = e.known /\ d.wire = e.wire /\ d.pending = e.pending
        /\ IsPass(k) /\ k.known = e.known /\ k.wire = e.wire /\ k.pending = e.pending + 1
    BY SpendIs
  <2>4. IsPass(s)
    BY DEF IsPass, Send
  <2> HIDE DEF b, d, k
  <2>5. CASE Try(q, thr, cap, e, p, b) = s /\ e.wire.len + 80 + 12 <= cap
    <3>1. Settled(s, k0, q, cap, n + 1)
      BY <1>2, <2>3, <2>5, SendSettles
    <3> QED BY <2>1, <2>4, <2>5, <3>1
  <2>6. CASE Try(q, thr, cap, e, p, b) = k
    <3>1. Settled(k, k0, q, cap, n + 1)
      BY <2>3, KeepSettles
    <3> QED BY <2>1, <2>3, <2>6, <3>1
  <2> QED BY <2>2, <2>5, <2>6
<1> QED BY <1>1, <1>2

\* The passes after each of n positions, from e0 on.
IsPassed(f, e0, q, thr, cap, cells, n) ==
  f = [i \in 0 .. n |-> IF i = 0 THEN e0 ELSE Visit(q, thr, cap, f[i - 1], cells[i])]

LEMMA PassedStep ==
  ASSUME NEW f, NEW e0, NEW q, NEW thr, NEW cap, NEW cells, NEW n \in Nat,
         IsPassed(f, e0, q, thr, cap, cells, n), NEW i \in 0 .. n
  PROVE  f[i] = IF i = 0 THEN e0 ELSE Visit(q, thr, cap, f[i - 1], cells[i])
<1> DEFINE step == [k \in 0 .. n |-> IF k = 0 THEN e0 ELSE Visit(q, thr, cap, f[k - 1], cells[k])]
<1>1. f = step
  BY Zenon DEF IsPassed
<1>2. step[i] = IF i = 0 THEN e0 ELSE Visit(q, thr, cap, f[i - 1], cells[i])
  OBVIOUS
<1> HIDE DEF step
<1> QED BY <1>1, <1>2

LEMMA PassedExists ==
  ASSUME NEW e0, NEW q, NEW thr, NEW cap, NEW cells, NEW m \in Nat
  PROVE  \E f : IsPassed(f, e0, q, thr, cap, cells, m)
<1> DEFINE T == {n \in Nat : \E f : IsPassed(f, e0, q, thr, cap, cells, n)}
<1>1. 0 \in T
  <2> DEFINE f == [i \in 0 .. 0 |-> e0]
  <2>1. f = [i \in 0 .. 0 |-> IF i = 0 THEN e0 ELSE Visit(q, thr, cap, f[i - 1], cells[i])]
    OBVIOUS
  <2> HIDE DEF f
  <2> QED BY <2>1 DEF IsPassed
<1>2. ASSUME NEW n \in Nat, n \in T PROVE n + 1 \in T
  <2>1. PICK f : IsPassed(f, e0, q, thr, cap, cells, n)
    BY <1>2
  <2> DEFINE newest == Visit(q, thr, cap, f[n], cells[n + 1])
             g == [i \in 0 .. n + 1 |-> IF i <= n THEN f[i] ELSE newest]
             s(i) == IF i = 0 THEN e0 ELSE Visit(q, thr, cap, g[i - 1], cells[i])
  <2>2. \A i \in 0 .. n : f[i] = IF i = 0 THEN e0 ELSE Visit(q, thr, cap, f[i - 1], cells[i])
    BY <2>1, PassedStep
  <2>3. (\A i \in 0 .. n : g[i] = f[i]) /\ g[n + 1] = newest
    <3> HIDE DEF newest
    <3> QED OBVIOUS
  <2>4. g = [i \in 0 .. n + 1 |-> g[i]]
    OBVIOUS
  <2> HIDE DEF g
  <2>5. ASSUME NEW i \in 0 .. n + 1 PROVE g[i] = s(i)
    <3>1. CASE i \in 0 .. n
      <4>1. g[i] = f[i] /\ (i # 0 => i - 1 \in 0 .. n)
        BY <2>3, <3>1
      <4>2. i # 0 => g[i - 1] = f[i - 1]
        BY <2>3, <4>1
      <4> QED BY <2>2, <3>1, <4>1, <4>2
    <3>2. CASE i = n + 1
      <4>1. i # 0 /\ i - 1 = n /\ g[i - 1] = f[n] /\ g[i] = newest
        BY <2>3, <3>2
      <4> QED BY Zenon, <3>2, <4>1
    <3> QED BY <3>1, <3>2
  <2>6. g = [i \in 0 .. n + 1 |-> s(i)]
    <3> HIDE DEF s
    <3> QED BY <2>4, <2>5
  <2>7. IsPassed(g, e0, q, thr, cap, cells, n + 1)
    BY Zenon, <2>6 DEF IsPassed
  <2> QED BY <2>7
<1> HIDE DEF T
<1>3. m \in T
  BY <1>1, <1>2, Induction
<1> QED BY <1>3 DEF T

LEMMA PassesSettle ==
  ASSUME NEW q \in Pictures, NEW known, DOMAIN known = Extent(q), NEW cap \in Nat, NEW c,
         DOMAIN screen = Positions
  PROVE  Settled(Passes(known, q, cap, c), known, q, cap, Cardinality(Extent(q)))
<1> DEFINE N == Cardinality(Extent(q))
           cells == Raster(Extent(q))
           e0 == [known |-> known, room |-> c.room, pending |-> 0,
                  wire |-> [screen |-> screen, pen |-> pen, len |-> 0,
                            at |-> <<0, 0>>, sel |-> Plain]]
           g == CHOOSE f : IsPassed(f, e0, q, c.thr, cap, cells, N)
           Fine(i) == IsPass(g[i]) /\ Settled(g[i], known, q, cap, i)
           T == {k \in Nat : k <= N => Fine(k)}
<1>1. N \in Nat /\ Len(Raster(Extent(q))) = N
  BY RasterIs
<1>2. Passes(known, q, cap, c) = g[N]
  <2>1. Len(Raster(DOMAIN known)) = N /\ Raster(DOMAIN known) = cells
    BY <1>1
  <2> HIDE DEF N, cells
  <2> QED BY Zenon, <2>1 DEF Passes, IsPassed
<1> HIDE DEF N
<1>3. IsPassed(g, e0, q, c.thr, cap, cells, N)
  <2> HIDE DEF cells, e0
  <2> QED BY <1>1, PassedExists
<1> HIDE DEF g
<1>4. g[0] = e0 /\ \A k \in 1 .. N : g[k] = Visit(q, c.thr, cap, g[k - 1], cells[k])
  <2> HIDE DEF cells, e0
  <2>1. g[0] = e0
    BY <1>1, <1>3, PassedStep
  <2>2. ASSUME NEW k \in 1 .. N PROVE g[k] = Visit(q, c.thr, cap, g[k - 1], cells[k])
    <3>1. k \in 0 .. N /\ k # 0
      OBVIOUS
    <3>2. g[k] = IF k = 0 THEN e0 ELSE Visit(q, c.thr, cap, g[k - 1], cells[k])
      BY <1>1, <1>3, <3>1, PassedStep
    <3> QED BY <3>1, <3>2
  <2> QED BY <2>1, <2>2
<1>5. 0 \in T
  <2>1. IsPass(e0)
    BY DEF IsPass
  <2>2. /\ e0.known = known /\ e0.pending = 0 /\ e0.wire.screen = screen
        /\ Wired(e0.wire, pen) /\ e0.wire.len = 0
    BY DEF Wired
  <2>3. Left(e0, q, 0) = {}
    BY DEF Left
  <2>4. Cardinality(Left(e0, q, 0)) = 0
    BY <2>3, FS_EmptySet
  <2> HIDE DEF e0
  <2>5. Settled(e0, known, q, cap, 0)
    BY <2>2, <2>4 DEF Settled
  <2>6. Fine(0)
    BY <1>4, <2>1, <2>5
  <2> HIDE DEF Fine
  <2> QED BY <2>6
<1>6. ASSUME NEW k \in Nat, k \in T PROVE k + 1 \in T
  <2>1. SUFFICES ASSUME k + 1 <= N PROVE Fine(k + 1)
    <3> HIDE DEF Fine
    <3> QED OBVIOUS
  <2>2. Fine(k) /\ k + 1 \in 1 .. N /\ (k + 1) - 1 = k
    <3> HIDE DEF Fine
    <3> QED BY <1>1, <1>6, <2>1
  <2>3. g[k + 1] = Visit(q, c.thr, cap, g[k], cells[k + 1])
    BY <1>4, <2>2
  <2>4. IsPass(g[k + 1]) /\ Settled(g[k + 1], known, q, cap, k + 1)
    BY <2>1, <2>2, <2>3, VisitSettles DEF N
  <2> QED BY <2>4
<1> HIDE DEF Fine, T
<1>7. N \in T
  BY <1>1, <1>5, <1>6, Induction
<1>8. Fine(N)
  BY <1>1, <1>7 DEF T
<1> QED BY <1>2, <1>8 DEF Fine, N

\* A frame of picture q, encoded over what was known: each cell is as it was,
\* on the screen and in memory, or the picture's in both; what is missing is
\* counted; what was written leaves no colour selected.
FrameIs(f, k0, q, cap) ==
  /\ DOMAIN f.known = Extent(q) /\ f.pending \in 0 .. Height * Width
  /\ DOMAIN f.screen = Positions
  /\ \A x \in Positions :
        \/ f.screen[x] = screen[x] /\ (x \in Extent(q) => f.known[x] = k0[x])
        \/ x \in DOMAIN q /\ f.known[x] = q[x] /\ f.screen[x] = q[x]
  /\ Cardinality({x \in DOMAIN q : Wanted(f.known[x], q[x])}) <= f.pending
  /\ f.len <= cap
  /\ f.len > 0 => f.pen = Plain

LEMMA PassThroughFits ==
  ASSUME NEW known, NEW q, NEW cap, PassThrough(known, q, cap)
  PROVE  RawBytes(q) <= cap
  BY Zenon DEF PassThrough

LEMMA RawFrameIs ==
  ASSUME NEW q \in Pictures, NEW known, DOMAIN known = Extent(q), NEW cap \in Nat,
         PassThrough(known, q, cap)
  PROVE  FrameIs(Encode(known, q, cap), known, q, cap)
<1> DEFINE k == [p \in DOMAIN known |-> IF p \in DOMAIN q THEN q[p] ELSE known[p]]
           scr == [p \in Positions |-> IF p \in DOMAIN q THEN q[p] ELSE screen[p]]
           f == Encode(known, q, cap)
           M == {x \in DOMAIN q : Wanted(f.known[x], q[x])}
<1>1. f = [known |-> k, pending |-> 0, screen |-> scr, pen |-> Plain, len |-> RawBytes(q)]
  BY Zenon DEF Encode, Painted
<1> HIDE DEF f
<1>2. f.known = k /\ f.pending = 0 /\ f.screen = scr /\ f.pen = Plain /\ f.len = RawBytes(q)
  <2> HIDE DEF k, scr
  <2> QED BY <1>1
<1>3. DOMAIN q \subseteq Extent(q) /\ Extent(q) \subseteq Positions
  BY ExtentIs
<1>4. f.len <= cap
  BY <1>2, PassThroughFits
<1>5. \A x \in DOMAIN q : k[x] = q[x]
  BY <1>3
<1>6. Cardinality(M) <= f.pending
  <2>1. \A x \in DOMAIN q : q[x] \in Cell
    BY PicturesAssumption DEF Cell
  <2>2. M = {}
    <3> HIDE DEF k
    <3> QED BY <1>2, <1>5, <2>1, WantedIs
  <2>3. Cardinality(M) = 0
    BY <2>2, FS_EmptySet
  <2> QED BY <1>2, <2>3
<1>7. ASSUME NEW x \in Positions
      PROVE  \/ f.screen[x] = screen[x] /\ (x \in Extent(q) => f.known[x] = known[x])
             \/ x \in DOMAIN q /\ f.known[x] = q[x] /\ f.screen[x] = q[x]
  <2>1. scr[x] = IF x \in DOMAIN q THEN q[x] ELSE screen[x]
    OBVIOUS
  <2>2. x \in Extent(q) => k[x] = IF x \in DOMAIN q THEN q[x] ELSE known[x]
    OBVIOUS
  <2> HIDE DEF k, scr
  <2> QED BY <1>2, <1>3, <2>1, <2>2
<1>8. DOMAIN f.known = Extent(q) /\ DOMAIN f.screen = Positions
  BY <1>2
<1>9. 0 \in 0 .. Height * Width
  BY ScreenAssumption
<1> HIDE DEF k, scr
<1>10. FrameIs(f, known, q, cap)
  BY <1>2, <1>4, <1>6, <1>7, <1>8, <1>9 DEF FrameIs
<1> QED BY <1>10 DEF f

LEMMA DeltaFrameIs ==
  ASSUME NEW q \in Pictures, NEW known, DOMAIN known = Extent(q), NEW cap \in Nat,
         DOMAIN screen = Positions, ~PassThrough(known, q, cap)
  PROVE  FrameIs(Encode(known, q, cap), known, q, cap)
<1> DEFINE e == Passes(known, q, cap, Choice(known, q))
           N == Cardinality(Extent(q))
           f == Encode(known, q, cap)
           reset == e.wire.sel # Plain /\ e.wire.len + 4 <= cap
           M == {x \in DOMAIN q : Wanted(f.known[x], q[x])}
<1>1. Settled(e, known, q, cap, N)
  BY PassesSettle
<1>2. f = Finish(e, cap)
  BY Zenon DEF Encode
<1>3. N \in 0 .. Height * Width /\ \A p \in Extent(q) : \E i \in 1 .. N : Raster(Extent(q))[i] = p
  BY RasterIs
<1>4. DOMAIN q \subseteq Extent(q)
  BY ExtentIs
<1> HIDE DEF e, f, N
<1>5. /\ f.known = e.known /\ f.pending = e.pending /\ f.screen = e.wire.screen
      /\ f.pen = IF reset THEN Plain ELSE e.wire.pen
      /\ f.len = e.wire.len + (IF reset THEN 4 ELSE 0)
  BY <1>2 DEF Finish
<1>6. M = Left(e, q, N)
  <2>1. \A x \in DOMAIN q : \E j \in 1 .. N : Raster(Extent(q))[j] = x
    BY <1>3, <1>4
  <2>2. Left(e, q, N) = {x \in DOMAIN q : Wanted(e.known[x], q[x])}
    BY <2>1 DEF Left
  <2> QED BY <1>5, <2>2
<1>7. Cardinality(M) <= f.pending /\ f.pending \in 0 .. Height * Width
  <2>1. e.pending \in 0 .. N /\ Cardinality(Left(e, q, N)) <= e.pending
    BY <1>1 DEF Settled
  <2>2. Height * Width \in Int
    BY ScreenAssumption
  <2> QED BY <1>3, <1>5, <1>6, <2>1, <2>2
<1>8. /\ e.wire.len \in Nat /\ (e.wire.len > 0 => e.wire.len + 12 <= cap)
      /\ IF e.wire.len = 0 THEN e.wire.sel = Plain /\ e.wire.pen = pen ELSE e.wire.pen = e.wire.sel
  BY <1>1 DEF Settled, Wired
<1>9. f.len <= cap
  BY <1>5, <1>8
<1>10. f.len > 0 => f.pen = Plain
  <2>1. CASE e.wire.len = 0
    BY <1>5, <1>8, <2>1
  <2>2. CASE e.wire.len > 0
    BY <1>5, <1>8, <2>2
  <2> QED BY <1>8, <2>1, <2>2
<1>11. /\ DOMAIN f.known = Extent(q) /\ DOMAIN f.screen = Positions
       /\ \A x \in Positions :
            \/ f.screen[x] = screen[x] /\ (x \in Extent(q) => f.known[x] = known[x])
            \/ x \in DOMAIN q /\ f.known[x] = q[x] /\ f.screen[x] = q[x]
  BY <1>1, <1>5 DEF Settled, Wired
<1>12. FrameIs(f, known, q, cap)
  BY <1>7, <1>9, <1>10, <1>11 DEF FrameIs
<1> QED BY <1>12 DEF f

LEMMA EncodeIs ==
  ASSUME NEW q \in Pictures, NEW known, DOMAIN known = Extent(q), NEW cap \in Nat,
         DOMAIN screen = Positions
  PROVE  FrameIs(Encode(known, q, cap), known, q, cap)
  BY RawFrameIs, DeltaFrameIs

-----------------------------------------------------------------------------
(* The encoder: what it remembers is what the terminal shows *)

\* What the encoder remembers of a cell is on the screen, outside some cells.
Remembers(known, scr, out) ==
  \A p \in DOMAIN known \ out : known[p].fg # Unknown.fg => scr[p] = known[p]

Missing(scr, q, out) == {p \in DOMAIN q \ out : ~Alike(scr[p], Look(q)[p])}
Counted == last.wire = "delta" => Cardinality(Missing(screen, last.pic, untold)) <= pending

LastOK ==
  last.wire = "delta" =>
    /\ last.bytes <= last.room /\ (last.bytes > 0 => last.pen = Plain)
    /\ last.pic \in Pictures

NetInv ==
  /\ NetTypeOK /\ bufCap \in Nat
  /\ Undisturbed => Remembers(prev, screen, untold \union Marked(pic)) /\ Counted
  /\ LastOK

LEMMA NetInitInv == NetInit => NetInv
<1> SUFFICES ASSUME NetInit PROVE NetInv
  OBVIOUS
<1>1. NetTypeOK
  <2>1. DOMAIN prev = {} /\ 0 \in 0 .. Height * Width /\ 0 \in 0 .. AgeLimit
    BY ScreenAssumption DEF NetInit
  <2> QED BY <2>1 DEF NetInit, NetTypeOK
<1>2. DOMAIN prev = {} /\ bufCap \in Nat /\ last.wire # "delta"
  BY DEF NetInit
<1> QED BY <1>1, <1>2 DEF NetInv, Remembers, Counted, LastOK

\* A picture's missing cells are no more than its cells.
LEMMA FewerMissing ==
  ASSUME NEW q \in Pictures, NEW S, NEW T, T \subseteq DOMAIN q, S \subseteq T, NEW n \in Nat,
         Cardinality(T) <= n
  PROVE  Cardinality(S) <= n
<1>1. IsFiniteSet(T)
  BY ExtentIs, FS_Subset
<1>2. IsFiniteSet(S) /\ Cardinality(S) <= Cardinality(T)
  BY <1>1, FS_Subset
<1>3. Cardinality(S) \in Nat /\ Cardinality(T) \in Nat
  BY <1>1, <1>2, FS_CardinalityType
<1> QED BY <1>2, <1>3

\* Encoding over what is remembered leaves it remembered: a cell the encoder
\* was not told of is sent, or known to be wrong, or right by chance.
LEMMA FrameKeeps ==
  ASSUME NEW k0, NEW cap, NEW f, FrameIs(f, k0, pic, cap), pic \in Pictures,
         DOMAIN k0 = Extent(pic), NEW out, Remembers(k0, screen, out \union Marked(pic)),
         NEW out2, out2 = WrongOf(out, f.known, f.screen)
  PROVE  /\ Remembers(f.known, f.screen, out2 \union Marked(pic))
         /\ \A p \in DOMAIN pic \ (out2 \union Marked(pic)) :
               ~Alike(f.screen[p], pic[p]) => Wanted(f.known[p], pic[p])
<1>1. DOMAIN f.known = Extent(pic) /\ DOMAIN pic \subseteq Extent(pic) /\ Extent(pic) \subseteq Positions
  BY ExtentIs DEF FrameIs
<1>2. ASSUME NEW p \in Positions
      PROVE  \/ f.screen[p] = screen[p] /\ (p \in Extent(pic) => f.known[p] = k0[p])
             \/ p \in DOMAIN pic /\ f.known[p] = pic[p] /\ f.screen[p] = pic[p]
  BY DEF FrameIs
<1>3. ASSUME NEW p \in Extent(pic) \ (out2 \union Marked(pic)), f.known[p].fg # Unknown.fg
      PROVE  f.screen[p] = f.known[p]
  <2>1. CASE f.known[p] = f.screen[p]
    BY <2>1
  <2>2. CASE f.screen[p] = screen[p] /\ f.known[p] = k0[p]
    <3>1. CASE p \in out
      BY <1>1, <1>3, <3>1 DEF WrongOf
    <3>2. CASE p \notin out
      BY <1>3, <2>2, <3>2 DEF Remembers
    <3> QED BY <3>1, <3>2
  <2> QED BY <1>1, <1>2, <2>1, <2>2
<1>4. Remembers(f.known, f.screen, out2 \union Marked(pic))
  BY <1>1, <1>3 DEF Remembers
<1>5. ASSUME NEW p \in DOMAIN pic \ (out2 \union Marked(pic)), ~Alike(f.screen[p], pic[p])
      PROVE  Wanted(f.known[p], pic[p])
  <2>1. Wanted(f.screen[p], pic[p]) /\ pic[p] \in Cell
    BY <1>5, PicturesAssumption DEF Alike, Cell
  <2>2. CASE f.known[p].fg = Unknown.fg
    BY <2>1, <2>2, WantedIs
  <2>3. CASE f.known[p].fg # Unknown.fg
    BY <1>1, <1>3, <2>1, <2>3
  <2> QED BY <2>2, <2>3
<1> QED BY <1>4, <1>5

\* With no overlay on the screen, only the marks are put on a frame.
LEMMA MarksOnly ==
  ASSUME ~Overlay, NEW scr
  PROVE  \A p \in Positions : Overlaid(scr)[p] = IF p \in Marked(pic) THEN Mark ELSE scr[p]
  BY DEF Overlay, Overlaid

\* Nothing is missing under a mark.
LEMMA MarkIsSeen ==
  ASSUME NEW q, NEW p \in DOMAIN q, p \in Marked(q)
  PROVE  Alike(Mark, Look(q)[p])
<1>1. Mark \in Cell
  BY DEF Mark, Cell
<1> QED BY <1>1, WantedIs DEF Alike, Look

LEMMA EncodedInv ==
  ASSUME NetInv, NEW cap \in Nat, bufCap' = cap, Encoded(cap),
         UNCHANGED <<link, pic, uiVars>>
  PROVE  NetInv'
<1>1. NetTypeOK /\ (Undisturbed => Remembers(prev, screen, untold \union Marked(pic)))
  BY DEF NetInv
<1>2. pic \in Pictures /\ DOMAIN screen = Positions
  BY <1>1 DEF NetTypeOK
<1> DEFINE stale == dirty \/ Old
           known == IF stale THEN Invalidate(prev) ELSE prev
           a == IF stale THEN 0 ELSE age + 1
           k0 == Grid(known, pic)
           f == Encode(k0, pic, cap)
           Sent == /\ prev' = f.known /\ pending' = f.pending /\ screen' = Overlaid(f.screen)
                   /\ untold' = WrongOf(untold, f.known, f.screen)
                   /\ last' = [wire |-> "delta", bytes |-> f.len, room |-> cap, pic |-> pic,
                               pen |-> f.pen]
           Whole == /\ prev' \in {Invalidate(known), <<>>}
                  /\ screen' = Overlaid(Painted(pic))
                  /\ last'.wire = "raw" /\ pending' = pending
<1>3. (Sent \/ Whole) /\ After(FALSE, a)
  <2> HIDE DEF known, a, k0, f
  <2>1. /\ \/ \E g \in {f} :
                /\ prev' = g.known /\ pending' = g.pending /\ screen' = Overlaid(g.screen)
                /\ untold' = WrongOf(untold, g.known, g.screen)
                /\ last' = [wire |-> "delta", bytes |-> g.len, room |-> cap, pic |-> pic,
                            pen |-> g.pen]
           \/ /\ prev' = IF pic \in Odd THEN Invalidate(known) ELSE <<>>
              /\ screen' = Overlaid(Painted(pic))
              /\ last' = [wire |-> "raw", bytes |-> RawBytes(pic), room |-> cap, pic |-> pic,
                          pen |-> Plain]
              /\ pending' = pending
        /\ After(FALSE, a)
    BY Zenon DEF Encoded, known, a, k0, f, stale
  <2>2. ASSUME last' = [wire |-> "raw", bytes |-> RawBytes(pic), room |-> cap, pic |-> pic,
                        pen |-> Plain]
        PROVE  last'.wire = "raw"
    BY <2>2
  <2>3. \A x : x = (IF pic \in Odd THEN Invalidate(known) ELSE <<>>)
                 => x \in {Invalidate(known), <<>>}
    OBVIOUS
  <2> QED BY Zenon, <2>1, <2>2, <2>3
<1>4. dirty' = (prevOverlay /\ ~Overlay) /\ age' = a /\ prevOverlay' = Overlay
  BY <1>3 DEF After
<1>5. UNCHANGED <<link, pic, dragging, outline, browser, notice>>
  BY DEF uiVars
<1>6. DOMAIN k0 = Extent(pic) /\ DOMAIN known = DOMAIN prev
  BY DEF Grid, Forgotten, Invalidate
<1>7. FrameIs(f, k0, pic, cap)
  <2> HIDE DEF k0
  <2> QED BY <1>2, <1>6, EncodeIs
<1>8. Undisturbed' => ~Overlay /\ Remembers(k0, screen, untold \union Marked(pic))
  <2> SUFFICES ASSUME Undisturbed'
               PROVE  ~Overlay /\ Remembers(k0, screen, untold \union Marked(pic))
    OBVIOUS
  <2>1. ~Overlay /\ ~prevOverlay
    BY <1>4 DEF Undisturbed
  <2>2. CASE k0 = Forgotten(DOMAIN k0)
    BY <2>1, <2>2 DEF Remembers, Forgotten
  <2>3. CASE k0 = prev /\ ~stale
    BY <1>1, <2>1, <2>3 DEF Undisturbed
  <2>4. k0 = Forgotten(DOMAIN k0) \/ (k0 = prev /\ ~stale)
    BY DEF Grid, Invalidate, Forgotten
  <2> QED BY <2>2, <2>3, <2>4
<1>9. a \in 0 .. AgeLimit
  BY <1>1, ScreenAssumption DEF NetTypeOK, Old
<1>10. \A scr : DOMAIN Overlaid(scr) = Positions
  BY DEF Overlaid
<1>11. DOMAIN f.known = Extent(pic) /\ f.pending \in 0 .. Height * Width
       /\ f.len <= cap /\ (f.len > 0 => f.pen = Plain)
       /\ Cardinality({x \in DOMAIN pic : Wanted(f.known[x], pic[x])}) <= f.pending
  BY <1>7 DEF FrameIs
<1> HIDE DEF stale, known, a, k0, f
<1>12. CASE Sent
  <2>1. NetTypeOK'
    BY <1>1, <1>4, <1>5, <1>9, <1>10, <1>11, <1>12 DEF NetTypeOK, Overlay
  <2>2. LastOK'
    BY <1>2, <1>11, <1>12 DEF LastOK
  <2>3. ASSUME Undisturbed' PROVE Remembers(prev, screen, untold \union Marked(pic))' /\ Counted'
    <3>1. /\ Remembers(f.known, f.screen, untold' \union Marked(pic))
          /\ \A p \in DOMAIN pic \ (untold' \union Marked(pic)) :
                ~Alike(f.screen[p], pic[p]) => Wanted(f.known[p], pic[p])
      BY <1>2, <1>6, <1>7, <1>8, <1>12, <2>3, FrameKeeps
    <3>2. \A p \in Positions : screen'[p] = IF p \in Marked(pic) THEN Mark ELSE f.screen[p]
      BY <1>8, <1>12, <2>3, MarksOnly
    <3>3. DOMAIN pic \subseteq Positions /\ Extent(pic) \subseteq Positions
      BY <1>2, ExtentIs
    <3>4. Marked(pic)' = Marked(pic)
      BY <1>5 DEF Marked, Corners
    <3>5. Remembers(prev, screen, untold \union Marked(pic))'
      BY <1>11, <1>12, <3>1, <3>2, <3>3, <3>4 DEF Remembers
    <3>6. ASSUME NEW p \in Missing(screen', pic, untold')
          PROVE  p \in DOMAIN pic /\ Wanted(f.known[p], pic[p])
      <4>1. p \in DOMAIN pic \ untold' /\ ~Alike(screen'[p], Look(pic)[p])
        BY <3>6 DEF Missing
      <4>2. p \notin Marked(pic)
        BY <3>2, <3>3, <4>1, MarkIsSeen
      <4>3. Look(pic)[p] = pic[p] /\ screen'[p] = f.screen[p]
        BY <3>2, <3>3, <4>1, <4>2 DEF Look
      <4> QED BY <3>1, <4>1, <4>2, <4>3
    <3> DEFINE W == {x \in DOMAIN pic : Wanted(f.known[x], pic[x])}
               S == Missing(screen', pic, untold')
    <3>7. S \subseteq W /\ W \subseteq DOMAIN pic
      BY <3>6
    <3>8. f.pending \in Nat /\ Cardinality(W) <= f.pending
      <4>1. Height * Width \in Nat
        BY ScreenAssumption
      <4> QED BY <1>11, <4>1
    <3> HIDE DEF W, S
    <3>9. Cardinality(S) <= f.pending
      BY <1>2, <3>7, <3>8, FewerMissing
    <3>10. last'.pic = pic /\ link' = link /\ pic' = pic
      BY <1>5, <1>12
    <3>11. Missing(screen, last.pic, untold)' = S
      BY Zenon, <3>10 DEF S, Missing, Alike, Wanted, Look, Marked, Corners
    <3> QED BY <1>12, <3>5, <3>9, <3>11 DEF Counted
  <2> QED BY <2>1, <2>2, <2>3 DEF NetInv
<1>13. CASE Whole
  <2>1. /\ DOMAIN prev' \in {DOMAIN prev, {}}
        /\ \A p \in DOMAIN prev' : prev'[p].fg = Unknown.fg
    <3>1. CASE prev' = Invalidate(known)
      BY <1>6, <3>1 DEF Invalidate, Forgotten
    <3>2. CASE prev' = <<>>
      BY <3>2
    <3> QED BY <1>13, <3>1, <3>2
  <2>2. NetTypeOK'
    BY <1>1, <1>4, <1>5, <1>9, <1>10, <1>13, <2>1 DEF NetTypeOK, Overlay
  <2>3. last'.wire # "delta"
    BY <1>13
  <2> QED BY <2>1, <2>2, <2>3 DEF NetInv, Remembers, Counted, LastOK
<1> QED BY <1>3, <1>12, <1>13

\* A frame that goes past the encoder: what it painted is untold, where the
\* encoder remembers something else.
LEMMA UnencodedInv ==
  ASSUME NetInv, bufCap' = 0, Unencoded, UNCHANGED <<link, pic, uiVars>>
  PROVE  NetInv'
<1>1. /\ prev' = prev /\ pending' = pending /\ screen' = Overlaid(Painted(pic))
      /\ untold' = WrongOf(untold \union DOMAIN pic, prev, Painted(pic))
      /\ last'.wire = "raw"
      /\ dirty' = (dirty \/ Old \/ (prevOverlay /\ ~Overlay)) /\ prevOverlay' = Overlay
      /\ age' = age + (IF age < AgeLimit THEN 1 ELSE 0)
  BY DEF Unencoded, After
<1>2. UNCHANGED <<link, pic, dragging, outline, browser, notice>>
  BY DEF uiVars
<1>3. NetTypeOK'
  <2>1. DOMAIN screen' = Positions
    BY <1>1 DEF Overlaid
  <2>2. age' \in 0 .. AgeLimit
    BY <1>1, ScreenAssumption DEF NetInv, NetTypeOK
  <2>3. dirty' \in BOOLEAN /\ prevOverlay' \in BOOLEAN
    BY <1>1 DEF NetInv, NetTypeOK, Overlay
  <2> QED BY <1>1, <1>2, <2>1, <2>2, <2>3 DEF NetInv, NetTypeOK
<1>4. ASSUME Undisturbed' PROVE Remembers(prev, screen, untold \union Marked(pic))'
  <2>1. ~Overlay /\ Undisturbed
    BY <1>1, <1>4 DEF Undisturbed
  <2>2. Remembers(prev, screen, untold \union Marked(pic))
    BY <2>1 DEF NetInv
  <2>3. \A p \in Positions : screen'[p] = IF p \in Marked(pic) THEN Mark ELSE Painted(pic)[p]
    BY <1>1, <2>1, MarksOnly
  <2>4. DOMAIN prev \subseteq Positions
    BY ExtentIs DEF NetInv, NetTypeOK
  <2>5. Marked(pic)' = Marked(pic)
    BY <1>2 DEF Marked, Corners
  <2>6. ASSUME NEW p \in DOMAIN prev \ (untold' \union Marked(pic)), prev[p].fg # Unknown.fg
        PROVE  screen'[p] = prev[p]
    <3>1. screen'[p] = Painted(pic)[p]
      BY <2>3, <2>4, <2>6
    <3>2. CASE p \in untold \union DOMAIN pic
      BY <1>1, <2>6, <3>1, <3>2 DEF WrongOf
    <3>3. CASE p \notin untold \union DOMAIN pic
      BY <2>2, <2>4, <2>6, <3>1, <3>3 DEF Painted, Remembers
    <3> QED BY <3>2, <3>3
  <2> QED BY <1>1, <2>5, <2>6 DEF Remembers
<1> QED BY <1>1, <1>3, <1>4 DEF NetInv, Counted, LastOK

LEMMA SendFrameInv == ASSUME NetInv, SendFrame PROVE NetInv'
<1>1. PICK cap \in Grown : bufCap' = cap /\ (Encoded(cap) \/ (cap = 0 /\ Unencoded))
  BY DEF SendFrame
<1>2. UNCHANGED <<link, pic, uiVars>>
  BY DEF SendFrame
<1>3. cap \in Nat
  <2>1. Need(pic) \in Nat
    BY RawBytesIs DEF NetInv, NetTypeOK
  <2> QED BY <1>1, <2>1 DEF Grown, NetInv
<1>4. CASE Encoded(cap)
  BY <1>1, <1>2, <1>3, <1>4, EncodedInv
<1>5. CASE cap = 0 /\ Unencoded
  BY <1>1, <1>2, <1>5, UnencodedInv
<1> QED BY <1>1, <1>4, <1>5

\* Between frames the encoder is wrong only about what it was not told of.
LEMMA BehindInv ==
  ASSUME NetInv, NetTypeOK', NEW cells, Behind(cells),
         UNCHANGED <<link, pic, prev, pending, bufCap, dirty, prevOverlay, last>>,
         \A p \in Positions \ cells : screen'[p] = screen[p]
  PROVE  NetInv'
<1>1. LastOK' /\ bufCap' \in Nat
  BY DEF NetInv, LastOK
<1>2. ASSUME Undisturbed' PROVE Remembers(prev, screen, untold \union Marked(pic))' /\ Counted'
  <2>1. Undisturbed /\ untold' = untold \union cells
    BY <1>2 DEF Undisturbed, Behind
  <2>2. Remembers(prev, screen, untold \union Marked(pic)) /\ Counted
    BY <2>1 DEF NetInv
  <2>3. Marked(pic)' = Marked(pic)
    BY DEF Marked, Corners
  <2>4. DOMAIN prev \subseteq Positions
    BY ExtentIs DEF NetInv, NetTypeOK
  <2>5. Remembers(prev, screen, untold \union Marked(pic))'
    BY <2>1, <2>2, <2>3, <2>4 DEF Remembers
  <2>6. ASSUME last.wire = "delta" PROVE Cardinality(Missing(screen, last.pic, untold)') <= pending
    <3>1. last.pic \in Pictures /\ DOMAIN last.pic \subseteq Positions
      BY <2>6, PicturesAssumption DEF NetInv, LastOK
    <3>2. pending \in Nat
      <4>1. Height * Width \in Nat
        BY ScreenAssumption
      <4> QED BY <4>1 DEF NetInv, NetTypeOK
    <3>3. Missing(screen, last.pic, untold)' = Missing(screen', last.pic, untold')
      BY Zenon DEF Missing, Alike, Wanted, Look, Marked, Corners
    <3>4. ASSUME NEW x \in Missing(screen', last.pic, untold')
          PROVE  x \in Missing(screen, last.pic, untold)
      <4>1. x \in DOMAIN last.pic /\ x \notin untold /\ x \notin cells
            /\ ~Alike(screen'[x], Look(last.pic)[x])
        BY <2>1, <3>4 DEF Missing
      <4>2. screen'[x] = screen[x]
        BY <3>1, <4>1
      <4> QED BY <4>1, <4>2 DEF Missing
    <3> DEFINE T == Missing(screen, last.pic, untold)
               S == Missing(screen', last.pic, untold')
    <3>5. S \subseteq T /\ T \subseteq DOMAIN last.pic /\ Cardinality(T) <= pending
      BY <2>2, <2>6, <3>4 DEF Missing, Counted
    <3> HIDE DEF S, T
    <3>6. Cardinality(S) <= pending
      BY <3>1, <3>2, <3>5, FewerMissing
    <3> QED BY <3>3, <3>6 DEF S
  <2> QED BY <2>5, <2>6 DEF Counted
<1> QED BY <1>1, <1>2 DEF NetInv

\* Steps that write nothing on the screen.
LEMMA SameScreen ==
  ASSUME NetInv, NetTypeOK',
         UNCHANGED <<link, prev, pending, bufCap, dirty, prevOverlay, last, screen, untold>>,
         Rect(pic') = Rect(pic)
  PROVE  NetInv'
<1>1. LastOK' /\ bufCap' \in Nat
  BY DEF NetInv, LastOK
<1>2. Missing(screen, last.pic, untold)' = Missing(screen, last.pic, untold)
  BY Zenon DEF Missing, Alike, Wanted, Look, Marked, Corners
<1>3. Marked(pic)' = Marked(pic)
  BY DEF Marked, Corners
<1>4. Undisturbed' => Remembers(prev, screen, untold \union Marked(pic))' /\ Counted'
  BY <1>2, <1>3 DEF NetInv, Undisturbed, Remembers, Counted
<1> QED BY <1>1, <1>4 DEF NetInv

LEMMA RefitInv ==
  ASSUME NetInv, Refit, UNCHANGED <<link, encVars, browser, notice, last, prevOverlay, age>>
  PROVE  NetInv'
<1>1. NetTypeOK'
  BY DEF NetInv, NetTypeOK, Refit, encVars
<1>2. ~Undisturbed' /\ last' = last /\ bufCap' = bufCap
  BY DEF Refit, Undisturbed, encVars
<1> QED BY <1>1, <1>2 DEF NetInv, LastOK

LEMMA QuietInv ==
  ASSUME NetInv, Grab \/ OpenBrowser \/ SceneMoves \/ Notify \/ PressOutside
  PROVE  NetInv'
<1>1. /\ UNCHANGED <<link, prev, pending, bufCap, last, screen, untold, age, prevOverlay, dirty,
                     outline>>
      /\ dragging \in BOOLEAN => dragging' \in BOOLEAN
      /\ browser \in BOOLEAN => browser' \in BOOLEAN
      /\ notice \in BOOLEAN => notice' \in BOOLEAN
      /\ pic \in Pictures => pic' \in Pictures
      /\ Rect(pic') = Rect(pic)
  <2>1. CASE Grab
    BY <2>1 DEF Grab, encVars, loopVars, ttyVars
  <2>2. CASE OpenBrowser
    BY <2>2 DEF OpenBrowser, encVars, loopVars, ttyVars
  <2>3. CASE SceneMoves
    BY <2>3 DEF SceneMoves, encVars, loopVars, uiVars, ttyVars
  <2>4. CASE Notify
    BY <2>4 DEF Notify, encVars, loopVars, ttyVars
  <2>5. CASE PressOutside
    BY <2>5 DEF PressOutside, encVars, loopVars, ttyVars
  <2> QED BY <2>1, <2>2, <2>3, <2>4, <2>5
<1>2. NetTypeOK'
  BY <1>1 DEF NetInv, NetTypeOK
<1> QED BY <1>1, <1>2, SameScreen

LEMMA DragInv == ASSUME NetInv, Drag PROVE NetInv'
<1>1. PICK o \in Outlines :
        /\ outline' = o
        /\ screen' = [p \in Positions |-> IF p \in o THEN Rule ELSE Erased(screen)[p]]
        /\ Behind(o \union outline)
  BY DEF Drag
<1>2. UNCHANGED <<link, pic, prev, pending, bufCap, dirty, age, prevOverlay, dragging, browser,
                  notice, last>>
  BY DEF Drag, encVars, loopVars
<1>3. NetTypeOK'
  BY <1>1, <1>2 DEF NetInv, NetTypeOK
<1>4. \A p \in Positions \ (o \union outline) : screen'[p] = screen[p]
  BY <1>1 DEF Erased
<1> QED BY <1>1, <1>2, <1>3, <1>4, BehindInv

LEMMA ReleaseInv == ASSUME NetInv, Release PROVE NetInv'
<1>1. /\ UNCHANGED <<link, pic, prev, pending, bufCap, dirty, age, prevOverlay, browser, notice,
                     last>>
      /\ dragging' = FALSE /\ outline' = {} /\ screen' = Erased(screen) /\ Behind(outline)
  BY DEF Release, encVars, loopVars
<1>2. NetTypeOK'
  BY <1>1 DEF NetInv, NetTypeOK, Erased
<1>3. \A p \in Positions \ outline : screen'[p] = screen[p]
  BY <1>1 DEF Erased
<1> QED BY <1>1, <1>2, <1>3, BehindInv

LEMMA PanelInv == ASSUME NetInv, CloseBrowser \/ Preview PROVE NetInv'
<1>1. /\ UNCHANGED <<link, pic, prev, pending, bufCap, dirty, age, prevOverlay, dragging, outline,
                     notice, last>>
      /\ DOMAIN screen' = Positions /\ (browser \in BOOLEAN => browser' \in BOOLEAN)
  BY DEF CloseBrowser, Preview, Cleared, encVars, loopVars, uiVars
<1>2. NetTypeOK'
  BY <1>1 DEF NetInv, NetTypeOK
<1>3. CASE CloseBrowser
  <2>1. Behind(Panel) /\ \A p \in Positions \ Panel : screen'[p] = screen[p]
    BY <1>3 DEF CloseBrowser, Cleared
  <2> QED BY <1>1, <1>2, <2>1, BehindInv
<1>4. CASE Preview
  <2>1. Behind(Positions) /\ \A p \in Positions \ Positions : screen'[p] = screen[p]
    BY <1>4 DEF Preview
  <2> QED BY <1>1, <1>2, <2>1, BehindInv
<1> QED BY <1>3, <1>4

LEMMA StrayInv == ASSUME NetInv, Stray PROVE NetInv'
<1>1. PICK p \in Positions : screen' = [screen EXCEPT ![p] = Mess] /\ Behind({p})
  BY DEF Stray
<1>2. UNCHANGED <<link, pic, prev, pending, bufCap, dirty, age, prevOverlay, dragging, outline,
                  browser, notice, last>>
  BY DEF Stray, encVars, loopVars, uiVars
<1>3. NetTypeOK' /\ \A x \in Positions \ {p} : screen'[x] = screen[x]
  BY <1>1, <1>2 DEF NetInv, NetTypeOK
<1> QED BY <1>1, <1>2, <1>3, BehindInv

LEMMA NetNextInv == ASSUME NetInv, [NetNext]_netVars PROVE NetInv'
<1>1. CASE SendFrame
  BY <1>1, SendFrameInv
<1>2. CASE Grab \/ OpenBrowser \/ SceneMoves \/ Notify \/ PressOutside
  BY <1>2, QuietInv
<1>3. CASE Winch \/ Apply
  BY <1>3, RefitInv DEF Winch, Apply
<1>4. CASE Drag
  BY <1>4, DragInv
<1>5. CASE Release
  BY <1>5, ReleaseInv
<1>6. CASE CloseBrowser \/ Preview
  BY <1>6, PanelInv
<1>7. CASE Stray
  BY <1>7, StrayInv
<1>8. CASE UNCHANGED netVars
  <2>1. UNCHANGED <<link, pic, prev, pending, bufCap, dirty, age, prevOverlay, dragging, outline,
                    browser, notice, screen, untold, last>>
    BY <1>8 DEF netVars, encVars, loopVars, uiVars, ttyVars
  <2>2. NetTypeOK' /\ Rect(pic') = Rect(pic)
    BY <2>1 DEF NetInv, NetTypeOK
  <2> QED BY <2>1, <2>2, SameScreen
<1> QED BY <1>1, <1>2, <1>3, <1>4, <1>5, <1>6, <1>7, <1>8 DEF NetNext

(***************************************************************************)
(* Whatever is drawn over the picture, and whatever spoils it: a cell the  *)
(* encoder remembers is the one the terminal shows, unless it is under a   *)
(* mark that follows every frame or is one the encoder was not told of     *)
(* (untold): for any size of terminal, pictures, budget, allocations that  *)
(* fail and sequence of events (netenc.c: prev is "what terminal shows",   *)
(* and main.c keeps it so with net_dirty as far as net_dirty goes).        *)
(***************************************************************************)
THEOREM EncoderIsSound == NetSpec => []EncoderSound
<1>1. NetInv => EncoderSound
  BY DEF EncoderSound, EncoderKnowsScreen, NetInv, Remembers
<1> QED BY <1>1, NetInitInv, NetNextInv, PTL DEF NetSpec

(***************************************************************************)
(* An encoded frame leaves no cell behind that is not counted as pending   *)
(* or untold, stays within the buffer main.c gave it, and leaves no colour *)
(* selected (netenc_frame, emit_cell).                                     *)
(***************************************************************************)
THEOREM FrameIsSent == NetSpec => []FrameSent
<1>1. NetInv => FrameSent
  BY DEF FrameSent, MissingIsPending, FitsAndClean, NetInv, Counted, Missing, LastOK
<1> QED BY <1>1, NetInitInv, NetNextInv, PTL DEF NetSpec

-----------------------------------------------------------------------------
(* Replay: sequences one after the other *)
\* FlattenSeq, step by step.
IsFlat(f, ss, n) == f = [i \in 1 .. n |-> IF i = 1 THEN ss[i] ELSE f[i - 1] \o ss[i]]

LEMMA FlatValue ==
  ASSUME NEW ss, NEW n, NEW f, IsFlat(f, ss, n), NEW i \in 1 .. n
  PROVE  f[i] = IF i = 1 THEN ss[i] ELSE f[i - 1] \o ss[i]
<1> DEFINE step == [j \in 1 .. n |-> IF j = 1 THEN ss[j] ELSE f[j - 1] \o ss[j]]
<1>1. f = step
  BY Zenon DEF IsFlat
<1>2. step[i] = IF i = 1 THEN ss[i] ELSE f[i - 1] \o ss[i]
  OBVIOUS
<1> HIDE DEF step
<1> QED BY <1>1, <1>2

IsFlatAt(f, ss, n) ==
  \A i \in 1 .. n : f[i] = IF i = 1 THEN ss[i] ELSE f[i - 1] \o ss[i]

LEMMA FlatValues ==
  ASSUME NEW ss, NEW n, NEW f, IsFlat(f, ss, n)
  PROVE  IsFlatAt(f, ss, n)
<1> SUFFICES ASSUME NEW i \in 1 .. n
             PROVE  f[i] = IF i = 1 THEN ss[i] ELSE f[i - 1] \o ss[i]
  BY DEF IsFlatAt
<1> QED BY FlatValue

LEMMA FlatUnique ==
  ASSUME NEW ss, NEW n \in Nat, NEW m \in Nat, NEW f, NEW g, IsFlat(f, ss, n), IsFlat(g, ss, m)
  PROVE  \A i \in Nat : 1 <= i /\ i <= n /\ i <= m => f[i] = g[i]
<1> DEFINE T == {i \in Nat : 1 <= i /\ i <= n /\ i <= m => f[i] = g[i]}
<1>1. 0 \in T
  OBVIOUS
<1>2. ASSUME NEW i \in Nat, i \in T PROVE i + 1 \in T
  <2> SUFFICES ASSUME i + 1 <= n, i + 1 <= m PROVE f[i + 1] = g[i + 1]
    OBVIOUS
  <2>0. i + 1 \in 1 .. n /\ i + 1 \in 1 .. m /\ (i + 1) - 1 = i
    OBVIOUS
  <2>1. f[i + 1] = IF i + 1 = 1 THEN ss[i + 1] ELSE f[(i + 1) - 1] \o ss[i + 1]
    BY <2>0, FlatValue
  <2>2. g[i + 1] = IF i + 1 = 1 THEN ss[i + 1] ELSE g[(i + 1) - 1] \o ss[i + 1]
    BY <2>0, FlatValue
  <2>3. i = 0 \/ f[i] = g[i]
    BY <1>2
  <2> QED BY <2>0, <2>1, <2>2, <2>3
<1> HIDE DEF T
<1>3. Nat \subseteq T
  BY <1>1, <1>2, Induction
<1> QED BY <1>3 DEF T

LEMMA FlatExists ==
  ASSUME NEW S, NEW ss \in Seq(Seq(S))
  PROVE  \E f : /\ IsFlat(f, ss, Len(ss))
                /\ \A i \in 1 .. Len(ss) : f[i] \in Seq(S)
                /\ Len(ss) > 0 => FlattenSeq(ss) = f[Len(ss)]
<1> DEFINE Good(g, n) == IsFlat(g, ss, n) /\ \A i \in 1 .. n : g[i] \in Seq(S)
           T == {n \in Nat : n <= Len(ss) => \E g : Good(g, n)}
<1>1. 0 \in T
  <2> DEFINE g == [i \in 1 .. 0 |-> ss[i]]
  <2>1. Good(g, 0)
    BY DEF IsFlat
  <2> QED BY <2>1
<1>2. ASSUME NEW n \in Nat, n \in T PROVE n + 1 \in T
  <2> SUFFICES ASSUME n + 1 <= Len(ss) PROVE \E g : Good(g, n + 1)
    OBVIOUS
  <2>1. PICK g : Good(g, n)
    BY <1>2
  <2> DEFINE new == IF n = 0 THEN ss[1] ELSE g[n] \o ss[n + 1]
             k == [i \in 1 .. n + 1 |-> IF i <= n THEN g[i] ELSE new]
  <2>2. \A i \in 1 .. n : k[i] = g[i]
    OBVIOUS
  <2>3. k[n + 1] = new
    OBVIOUS
  <2>4. new \in Seq(S)
    <3>1. ss[n + 1] \in Seq(S)
      OBVIOUS
    <3>2. CASE n = 0
      BY <3>1, <3>2
    <3>3. CASE n # 0
      <4>1. g[n] \in Seq(S)
        BY <2>1, <3>3
      <4> QED BY <3>1, <3>3, <4>1, ConcatProperties
    <3> QED BY <3>2, <3>3
  <2>5. ASSUME NEW i \in 1 .. n + 1
        PROVE  /\ k[i] = IF i = 1 THEN ss[i] ELSE k[i - 1] \o ss[i]
               /\ k[i] \in Seq(S)
    <3>1. CASE i <= n
      <4>1. g[i] = IF i = 1 THEN ss[i] ELSE g[i - 1] \o ss[i]
        <5>1. IsFlat(g, ss, n) /\ i \in 1 .. n
          BY <2>1, <3>1
        <5> HIDE DEF k, new, Good
        <5>2. IsFlatAt(g, ss, n)
          BY <5>1, FlatValues, Zenon
        <5> QED BY <5>1, <5>2 DEF IsFlatAt
      <4>2. g[i] \in Seq(S)
        BY <2>1, <3>1
      <4>3. k[i] = g[i] /\ (i # 1 => k[i - 1] = g[i - 1])
        BY <2>2, <3>1
      <4> HIDE DEF k, Good
      <4> QED BY <4>1, <4>2, <4>3
    <3>2. CASE i = n + 1
      <4>1. k[i] = new /\ (i # 1 => k[i - 1] = g[n] /\ n # 0)
        BY <2>2, <2>3, <3>2
      <4> HIDE DEF k, Good
      <4> QED BY <2>4, <3>2, <4>1
    <3> QED BY <3>1, <3>2
  <2>6. IsFlat(k, ss, n + 1)
    <3>1. k = [i \in 1 .. n + 1 |-> k[i]]
      OBVIOUS
    <3> HIDE DEF k
    <3> QED BY <2>5, <3>1 DEF IsFlat
  <2>7. Good(k, n + 1)
    <3> HIDE DEF k
    <3> QED BY <2>5, <2>6
  <2> HIDE DEF k, Good
  <2> QED BY <2>7
<1> HIDE DEF T
<1>3. Nat \subseteq T
  BY <1>1, <1>2, Induction
<1>4. Len(ss) \in Nat /\ Len(ss) \in T
  BY <1>3
<1>5. PICK f : Good(f, Len(ss))
  BY <1>4 DEF T
<1>6. Len(ss) > 0 => FlattenSeq(ss) = f[Len(ss)]
  <2> SUFFICES ASSUME Len(ss) > 0 PROVE FlattenSeq(ss) = f[Len(ss)]
    OBVIOUS
  <2> DEFINE flatten[i \in 1 .. Len(ss)] == IF i = 1 THEN ss[i] ELSE flatten[i - 1] \o ss[i]
  <2>1. FlattenSeq(ss) = flatten[Len(ss)]
    BY <1>4 DEF FlattenSeq
  <2>2. flatten = CHOOSE g : g = [i \in 1 .. Len(ss) |-> IF i = 1 THEN ss[i] ELSE g[i - 1] \o ss[i]]
    BY DEF flatten
  <2>3. flatten = CHOOSE g : IsFlat(g, ss, Len(ss))
    BY <2>2 DEF IsFlat
  <2> HIDE DEF flatten
  <2>4. IsFlat(flatten, ss, Len(ss))
    BY <1>5, <2>3
  <2>5. IsFlat(f, ss, Len(ss))
    BY <1>5
  <2>6. flatten[Len(ss)] = f[Len(ss)]
    <3> DEFINE n == Len(ss)
    <3>1. n \in Nat /\ 1 <= n /\ n <= n
      BY <1>4
    <3>2. IsFlat(flatten, ss, n) /\ IsFlat(f, ss, n)
      BY <2>4, <2>5
    <3> HIDE DEF n
    <3>3. \A i \in Nat : 1 <= i /\ i <= n /\ i <= n => flatten[i] = f[i]
      BY <3>1, <3>2, FlatUnique
    <3> QED BY <3>1, <3>3 DEF n
  <2> QED BY <2>1, <2>6
<1> QED BY <1>5, <1>6

LEMMA FlattenAppend ==
  ASSUME NEW S, NEW ss \in Seq(Seq(S)), NEW s \in Seq(S)
  PROVE  FlattenSeq(ss) \in Seq(S) /\ FlattenSeq(Append(ss, s)) = FlattenSeq(ss) \o s
<1> DEFINE tt == Append(ss, s)
           n == Len(ss)
<1>1. /\ tt \in Seq(Seq(S)) /\ n \in Nat /\ Len(tt) = n + 1 /\ tt[n + 1] = s
      /\ \A i \in 1 .. n : tt[i] = ss[i]
  BY AppendProperties, LenProperties
<1> HIDE DEF tt
<1>2. PICK f : IsFlat(f, ss, n) /\ (\A i \in 1 .. n : f[i] \in Seq(S)) /\ (n > 0 => FlattenSeq(ss) = f[n])
  BY FlatExists
<1>3. PICK g : IsFlat(g, tt, n + 1) /\ FlattenSeq(tt) = g[n + 1]
  <2>1. PICK g : /\ IsFlat(g, tt, Len(tt)) /\ (\A i \in 1 .. Len(tt) : g[i] \in Seq(S))
                 /\ (Len(tt) > 0 => FlattenSeq(tt) = g[Len(tt)])
    BY <1>1, FlatExists
  <2> QED BY <1>1, <2>1
<1>4. g[n + 1] = IF n + 1 = 1 THEN tt[n + 1] ELSE g[(n + 1) - 1] \o tt[n + 1]
  <2>1. n + 1 \in 1 .. n + 1
    BY <1>1
  <2> QED BY <1>3, <2>1, FlatValue
<1>5. CASE n = 0
  <2>1. ss = <<>> /\ FlattenSeq(ss) = ss
    BY <1>5, EmptySeq DEF FlattenSeq
  <2>2. <<>> \o s = s /\ <<>> \in Seq(S)
    BY ConcatEmptySeq
  <2>3. g[n + 1] = tt[n + 1]
    BY <1>4, <1>5
  <2>4. FlattenSeq(tt) = s
    BY <1>1, <1>3, <2>3
  <2>5. FlattenSeq(ss) = <<>>
    BY <2>1
  <2>6. FlattenSeq(Append(ss, s)) = s
    BY <2>4 DEF tt
  <2> QED BY Zenon, <2>2, <2>5, <2>6
<1>6. CASE n > 0
  <2>1. IsFlat(f, tt, n)
    <3>1. \A i \in 1 .. n : f[i] = IF i = 1 THEN ss[i] ELSE f[i - 1] \o ss[i]
      BY <1>2, FlatValue
    <3>2. \A i \in 1 .. n : f[i] = IF i = 1 THEN tt[i] ELSE f[i - 1] \o tt[i]
      BY <1>1, <3>1
    <3>3. f = [i \in 1 .. n |-> f[i]]
      BY <1>2 DEF IsFlat
    <3> QED BY <3>2, <3>3 DEF IsFlat
  <2>2. f[n] = g[n]
    <3> HIDE DEF n
    <3>1. 1 <= n /\ n <= n /\ n <= n + 1 /\ n + 1 \in Nat
      BY <1>1, <1>6
    <3>2. \A i \in Nat : 1 <= i /\ i <= n /\ i <= n + 1 => f[i] = g[i]
      BY <1>1, <1>3, <2>1, <3>1, FlatUnique
    <3> QED BY <1>1, <3>1, <3>2
  <2>3. g[n + 1] = f[n] \o s
    BY <1>1, <1>4, <1>6, <2>2
  <2>4. FlattenSeq(ss) = f[n] /\ f[n] \in Seq(S)
    BY <1>1, <1>2, <1>6
  <2> QED BY <1>3, <2>3, <2>4 DEF tt
<1> QED BY <1>1, <1>5, <1>6

\* Where the k-th of some sequences ends in all of them together.
EndOf(ss, k) == Len(FlattenSeq(SubSeq(ss, 1, k)))

LEMMA FlattenStep ==
  ASSUME NEW S, NEW ss \in Seq(Seq(S)), NEW k \in 0 .. Len(ss) - 1
  PROVE  /\ FlattenSeq(SubSeq(ss, 1, k)) \in Seq(S) /\ ss[k + 1] \in Seq(S)
         /\ FlattenSeq(SubSeq(ss, 1, k + 1)) = FlattenSeq(SubSeq(ss, 1, k)) \o ss[k + 1]
<1> DEFINE a == SubSeq(ss, 1, k)
           b == SubSeq(ss, 1, k + 1)
<1>1. Len(ss) \in Nat /\ \A i \in 1 .. Len(ss) : ss[i] \in Seq(S)
  OBVIOUS
<1>2. /\ a \in Seq(Seq(S)) /\ Len(a) = k /\ \A i \in 1 .. k : a[i] = ss[i]
      /\ b \in Seq(Seq(S)) /\ Len(b) = k + 1 /\ \A i \in 1 .. k + 1 : b[i] = ss[i]
  <2>1. (\A i \in 1 .. k : ss[i] \in Seq(S)) /\ (\A i \in 1 .. k + 1 : ss[i] \in Seq(S))
    BY <1>1
  <2>2. a \in Seq(Seq(S)) /\ Len(a) = k /\ \A i \in 1 .. k : a[i] = ss[i]
    OBVIOUS
  <2>3. b \in Seq(Seq(S)) /\ Len(b) = k + 1 /\ \A i \in 1 .. k + 1 : b[i] = ss[i]
    OBVIOUS
  <2> QED BY <2>2, <2>3
<1>3. ss[k + 1] \in Seq(S)
  BY <1>1
<1> HIDE DEF a, b
<1>4. b = Append(a, ss[k + 1])
  <2>1. Append(a, ss[k + 1]) \in Seq(Seq(S)) /\ Len(Append(a, ss[k + 1])) = k + 1
        /\ \A i \in 1 .. k + 1 : Append(a, ss[k + 1])[i] = ss[i]
    BY <1>2, <1>3
  <2> QED BY <1>2, <2>1, SeqEqual
<1>5. FlattenSeq(a) \in Seq(S) /\ FlattenSeq(b) = FlattenSeq(a) \o ss[k + 1]
  BY <1>2, <1>3, <1>4, FlattenAppend
<1> QED BY <1>3, <1>5 DEF a, b

\* The sequences lie one after the other.
Joined(S, ss) ==
  /\ FlattenSeq(ss) \in Seq(S) /\ EndOf(ss, 0) = 0 /\ EndOf(ss, Len(ss)) = Len(FlattenSeq(ss))
  /\ \A k \in 0 .. Len(ss) : EndOf(ss, k) \in 0 .. Len(FlattenSeq(ss))
  /\ \A k \in 1 .. Len(ss) :
       /\ EndOf(ss, k) = EndOf(ss, k - 1) + Len(ss[k])
       /\ \A j \in 1 .. Len(ss[k]) : FlattenSeq(ss)[EndOf(ss, k - 1) + j] = ss[k][j]

LEMMA FlattenAt ==
  ASSUME NEW S, NEW ss \in Seq(Seq(S))
  PROVE  Joined(S, ss)
<1> DEFINE n == Len(ss)
           G(k) == FlattenSeq(SubSeq(ss, 1, k))
<1>1. n \in Nat /\ SubSeq(ss, 1, n) = ss /\ SubSeq(ss, 1, 0) = <<>>
  BY SubSeqFull, SubSeqEmpty
<1>2. \A k \in 0 .. n - 1 : G(k) \in Seq(S) /\ ss[k + 1] \in Seq(S) /\ G(k + 1) = G(k) \o ss[k + 1]
  BY FlattenStep
<1>3. FlattenSeq(<<>>) = <<>>
  BY DEF FlattenSeq
<1>4. G(0) = <<>> /\ G(n) = FlattenSeq(ss) /\ FlattenSeq(ss) \in Seq(S)
  <2>1. FlattenSeq(ss) \in Seq(S)
    <3>1. <<>> \in Seq(S)
      OBVIOUS
    <3> QED BY <3>1, FlattenAppend
  <2> QED BY <1>1, <1>3, <2>1
<1>5. \A k : EndOf(ss, k) = Len(G(k))
  BY DEF EndOf
<1> HIDE DEF G, n
<1>6. \A k \in 0 .. n : G(k) \in Seq(S)
  <2> TAKE k \in 0 .. n
  <2>1. CASE k = n
    BY <1>4, <2>1
  <2>2. CASE k # n
    <3>1. k \in 0 .. n - 1
      BY <1>1, <2>2
    <3> QED BY <1>2, <3>1
  <2> QED BY <2>1, <2>2
<1>7. ASSUME NEW k \in 1 .. n
      PROVE  /\ k - 1 \in 0 .. n - 1 /\ G(k - 1) \in Seq(S) /\ ss[k] \in Seq(S)
             /\ G(k) = G(k - 1) \o ss[k]
  <2>1. k - 1 \in 0 .. n - 1 /\ (k - 1) + 1 = k
    BY <1>1
  <2> QED BY <1>2, <2>1
<1>8. ASSUME NEW k \in 0 .. n
      PROVE  \A m \in Nat : k + m <= n =>
               Len(G(k)) <= Len(G(k + m)) /\ \A j \in 1 .. Len(G(k)) : G(k + m)[j] = G(k)[j]
  <2> DEFINE T == {m \in Nat : k + m <= n =>
               Len(G(k)) <= Len(G(k + m)) /\ \A j \in 1 .. Len(G(k)) : G(k + m)[j] = G(k)[j]}
  <2>1. 0 \in T
    <3>1. G(k) \in Seq(S) /\ k + 0 = k /\ Len(G(k)) \in Nat
      BY <1>6
    <3> QED BY <3>1
  <2>2. ASSUME NEW m \in Nat, m \in T PROVE m + 1 \in T
    <3> SUFFICES ASSUME k + (m + 1) <= n
                 PROVE  Len(G(k)) <= Len(G(k + (m + 1)))
                        /\ \A j \in 1 .. Len(G(k)) : G(k + (m + 1))[j] = G(k)[j]
      OBVIOUS
    <3>1. k + m \in 0 .. n - 1 /\ k + (m + 1) = (k + m) + 1
      BY <1>1
    <3>2. G(k + m) \in Seq(S) /\ ss[k + m + 1] \in Seq(S) /\ G(k) \in Seq(S)
          /\ G(k + (m + 1)) = G(k + m) \o ss[k + m + 1]
      BY <1>2, <1>6, <3>1
    <3>3. Len(G(k)) <= Len(G(k + m)) /\ \A j \in 1 .. Len(G(k)) : G(k + m)[j] = G(k)[j]
      BY <2>2, <3>1, <1>1
    <3> DEFINE a == G(k + m)
               b == ss[k + m + 1]
               c == G(k)
    <3> HIDE DEF a, b, c
    <3>4. a \in Seq(S) /\ b \in Seq(S) /\ c \in Seq(S) /\ G(k + (m + 1)) = a \o b
      BY <3>2 DEF a, b, c
    <3>5. Len(c) <= Len(a) /\ \A j \in 1 .. Len(c) : a[j] = c[j]
      BY <3>3 DEF a, c
    <3>6. Len(c) <= Len(a \o b) /\ \A j \in 1 .. Len(c) : (a \o b)[j] = c[j]
      BY <3>4, <3>5
    <3> QED BY <3>4, <3>6 DEF c
  <2> HIDE DEF T
  <2>3. Nat \subseteq T
    BY <2>1, <2>2, Induction
  <2> QED BY <2>3 DEF T
<1>9. ASSUME NEW k \in 0 .. n
      PROVE  Len(G(k)) <= Len(G(n)) /\ \A j \in 1 .. Len(G(k)) : G(n)[j] = G(k)[j]
  <2>1. PICK m \in Nat : k + m = n
    <3>1. n - k \in Nat /\ k + (n - k) = n
      BY <1>1
    <3> QED BY <3>1
  <2>2. Len(G(k)) <= Len(G(k + m)) /\ \A j \in 1 .. Len(G(k)) : G(k + m)[j] = G(k)[j]
    <3>1. \A i \in Nat : k + i <= n =>
            Len(G(k)) <= Len(G(k + i)) /\ \A j \in 1 .. Len(G(k)) : G(k + i)[j] = G(k)[j]
      BY Zenon, <1>8
    <3>2. k + m <= n
      BY <1>1, <2>1
    <3> QED BY Zenon, <3>1, <3>2
  <2> QED BY <2>1, <2>2
<1>10. ASSUME NEW k \in 0 .. n PROVE EndOf(ss, k) \in 0 .. Len(FlattenSeq(ss))
  <2>1. Len(G(k)) \in Nat /\ Len(G(n)) \in Nat
    BY <1>1, <1>6
  <2> QED BY <1>4, <1>5, <1>9, <2>1
<1>11. ASSUME NEW k \in 1 .. n
       PROVE  /\ EndOf(ss, k) = EndOf(ss, k - 1) + Len(ss[k])
              /\ \A j \in 1 .. Len(ss[k]) : FlattenSeq(ss)[EndOf(ss, k - 1) + j] = ss[k][j]
  <2> DEFINE a == G(k - 1)
             b == ss[k]
  <2>1. a \in Seq(S) /\ b \in Seq(S) /\ G(k) = a \o b
    BY <1>7
  <2>2. EndOf(ss, k) = Len(a \o b) /\ EndOf(ss, k - 1) = Len(a)
    BY <1>5, <2>1
  <2>3. \A j \in 1 .. Len(a \o b) : FlattenSeq(ss)[j] = (a \o b)[j]
    <3>1. k \in 0 .. n
      BY <1>1
    <3> QED BY <1>4, <1>9, <2>1, <3>1
  <2> HIDE DEF a, b
  <2>4. \A j \in 1 .. Len(b) : FlattenSeq(ss)[Len(a) + j] = b[j]
    <3> TAKE j \in 1 .. Len(b)
    <3>1. Len(a) + j \in 1 .. Len(a \o b) /\ (a \o b)[Len(a) + j] = b[j]
      BY <2>1
    <3> QED BY <2>3, <3>1
  <2>5. Len(a \o b) = Len(a) + Len(b)
    BY <2>1
  <2> QED BY <2>2, <2>4, <2>5 DEF b
<1>12. EndOf(ss, 0) = 0 /\ EndOf(ss, n) = Len(FlattenSeq(ss))
  BY <1>4, <1>5
<1> QED BY <1>4, <1>10, <1>11, <1>12 DEF n, Joined

LEMMA PartIs ==
  ASSUME NEW S, NEW s \in Seq(S), NEW m \in 1 .. Len(s) + 1, NEW n \in m - 1 .. Len(s)
  PROVE  /\ SubSeq(s, m, n) \in Seq(S) /\ Len(SubSeq(s, m, n)) = n - m + 1
         /\ \A i \in 1 .. n - m + 1 : SubSeq(s, m, n)[i] = s[m + i - 1]
<1>1. Len(s) \in Nat /\ m \in Nat /\ n \in Nat /\ m >= 1 /\ n <= Len(s) /\ n >= m - 1
  OBVIOUS
<1>2. \A i \in m .. n : s[i] \in S
  BY <1>1
<1>3. /\ SubSeq(s, m, n) \in Seq(S) /\ Len(SubSeq(s, m, n)) = IF m <= n THEN n - m + 1 ELSE 0
      /\ \A i \in 1 .. n - m + 1 : SubSeq(s, m, n)[i] = s[m + i - 1]
  BY <1>1, <1>2, SubSeqProperties
<1>4. ~(m <= n) => n - m + 1 = 0
  BY <1>1
<1> QED BY <1>3, <1>4

-----------------------------------------------------------------------------
(* Replay: a line and what is read from it *)

Chars == UNION {Range(x) : x \in Texts}
Marks == {"{}", "NL", "[", ", \"o\", \"", "\"", "]", "\\", "u", "000a", "000d", "001b"}
Sym == Chars \cup Marks \cup {Digits[i] : i \in 1 .. 10}
CastEvent == [t : 0 .. 9, data : Seq(Chars)]

LEMMA TextIs ==
  ASSUME NEW x \in Texts
  PROVE  x \in Seq(Chars) /\ x # <<>> /\ Len(x) > 0
<1>1. x \in Seq(Range(x)) /\ x # <<>>
  BY TextsAssumption
<1>2. Range(x) \subseteq Chars
  BY DEF Chars
<1>3. x \in Seq(Chars)
  BY <1>1, <1>2, SeqMonotonic
<1> QED BY <1>1, <1>3, EmptySeq

LEMMA DigitsAre ==
  /\ DOMAIN Digits = 1 .. 10
  /\ \A i \in 1 .. 10 : Digits[i] # "NL" /\ \A j \in 1 .. 10 : Digits[i] = Digits[j] => i = j
<1>1. DOMAIN Digits = 1 .. 10 /\ Len(Digits) = 10
  BY DEF Digits
<1>2. /\ Digits[1] = "0" /\ Digits[2] = "1" /\ Digits[3] = "2" /\ Digits[4] = "3" /\ Digits[5] = "4"
      /\ Digits[6] = "5" /\ Digits[7] = "6" /\ Digits[8] = "7" /\ Digits[9] = "8" /\ Digits[10] = "9"
  BY DEF Digits
<1>3. \A i \in 1 .. 10 : Digits[i] # "NL"
  BY <1>2
<1>4. \A i, j \in 1 .. 10 : Digits[i] = Digits[j] => i = j
  BY <1>2
<1> QED BY <1>1, <1>3, <1>4

LEMMA HexIs ==
  /\ DOMAIN Hex = {"NL", "CR", "ESC"}
  /\ Hex["NL"] = "000a" /\ Hex["CR"] = "000d" /\ Hex["ESC"] = "001b"
  BY DEF Hex

LEMMA OneIs ==
  ASSUME NEW S, NEW a \in S
  PROVE  <<a>> \in Seq(S) /\ Len(<<a>>) = 1 /\ <<a>>[1] = a
  OBVIOUS

LEMMA TwoIs ==
  ASSUME NEW S, NEW a \in S, NEW b \in S
  PROVE  <<a, b>> \in Seq(S) /\ Len(<<a, b>>) = 2 /\ <<a, b>>[1] = a /\ <<a, b>>[2] = b
  OBVIOUS

LEMMA ThreeIs ==
  ASSUME NEW S, NEW a \in S, NEW b \in S, NEW c \in S
  PROVE  /\ <<a, b, c>> \in Seq(S) /\ Len(<<a, b, c>>) = 3
         /\ <<a, b, c>>[1] = a /\ <<a, b, c>>[2] = b /\ <<a, b, c>>[3] = c
  OBVIOUS

LEMMA EscapedIs ==
  ASSUME NEW c \in Chars
  PROVE  /\ Escaped(c) \in Seq(Sym) /\ Len(Escaped(c)) \in 1 .. 3
         /\ \A j \in 1 .. Len(Escaped(c)) : Escaped(c)[j] # "NL"
         /\ \/ c \notin {"\"", "\\"} /\ c \notin DOMAIN Hex /\ Escaped(c) = <<c>>
            \/ c \in {"\"", "\\"} /\ Escaped(c) = <<"\\", c>>
            \/ c \notin {"\"", "\\"} /\ c \in DOMAIN Hex /\ Escaped(c) = <<"\\", "u", Hex[c]>>
<1>1. /\ {"\\", "u", "\"", "000a", "000d", "001b"} \subseteq Sym /\ c \in Sym
  BY DEF Sym, Marks
<1>2. CASE c \in {"\"", "\\"}
  <2>1. Escaped(c) = <<"\\", c>>
    BY <1>2 DEF Escaped
  <2> DEFINE b == "\\"
             s == <<b, c>>
  <2>2. b \in Sym /\ b # "NL" /\ c # "NL"
    BY <1>1, <1>2
  <2>3. Escaped(c) = s
    BY <2>1
  <2> HIDE DEF b
  <2>4. s \in Seq(Sym) /\ Len(s) = 2 /\ s[1] = b /\ s[2] = c
    BY <1>1, <2>2, TwoIs
  <2> HIDE DEF s
  <2>5. \A j \in 1 .. 2 : s[j] # "NL"
    BY <2>2, <2>4
  <2>6. Escaped(c) \in Seq(Sym) /\ Len(Escaped(c)) = 2
    BY <2>3, <2>4
  <2>7. \A j \in 1 .. Len(Escaped(c)) : Escaped(c)[j] # "NL"
    BY <2>3, <2>4, <2>5
  <2>8. Len(Escaped(c)) \in 1 .. 3
    BY <2>6
  <2> QED BY <1>2, <2>1, <2>6, <2>7, <2>8, Zenon
<1>3. CASE c \notin {"\"", "\\"} /\ c \in DOMAIN Hex
  <2>1. Escaped(c) = <<"\\", "u", Hex[c]>>
    BY <1>3 DEF Escaped
  <2>2. Hex[c] \in Sym /\ Hex[c] # "NL"
    BY <1>1, <1>3, HexIs
  <2> DEFINE b == "\\"
             u == "u"
             h == Hex[c]
             s == <<b, u, h>>
  <2>3. b \in Sym /\ b # "NL" /\ u \in Sym /\ u # "NL" /\ h \in Sym /\ h # "NL"
    BY <1>1, <2>2
  <2>4. Escaped(c) = s
    BY <2>1
  <2> HIDE DEF b, u, h
  <2>5. s \in Seq(Sym) /\ Len(s) = 3 /\ s[1] = b /\ s[2] = u /\ s[3] = h
    BY <2>3, ThreeIs
  <2> HIDE DEF s
  <2>6. \A j \in 1 .. 3 : s[j] # "NL"
    BY <2>3, <2>5
  <2>7. Escaped(c) \in Seq(Sym) /\ Len(Escaped(c)) = 3
    BY <2>4, <2>5
  <2>8. \A j \in 1 .. Len(Escaped(c)) : Escaped(c)[j] # "NL"
    BY <2>4, <2>5, <2>6
  <2>9. Len(Escaped(c)) \in 1 .. 3
    BY <2>7
  <2>10. Escaped(c) = <<"\\", "u", Hex[c]>>
    BY <2>1
  <2> QED BY <1>3, <2>7, <2>8, <2>9, <2>10, Zenon
<1>4. CASE c \notin {"\"", "\\"} /\ c \notin DOMAIN Hex
  <2>1. Escaped(c) = <<c>> /\ c # "NL"
    BY <1>4, HexIs DEF Escaped
  <2> DEFINE s == <<c>>
  <2>2. s \in Seq(Sym) /\ Len(s) = 1 /\ s[1] = c /\ Escaped(c) = s
    BY <1>1, <2>1, OneIs
  <2> HIDE DEF s
  <2>3. \A j \in 1 .. 1 : s[j] # "NL"
    BY <2>1, <2>2
  <2>4. Escaped(c) \in Seq(Sym) /\ Len(Escaped(c)) = 1
    BY <2>2
  <2>5. \A j \in 1 .. Len(Escaped(c)) : Escaped(c)[j] # "NL"
    BY <2>2, <2>3
  <2>6. Len(Escaped(c)) \in 1 .. 3
    BY <2>4
  <2> QED BY <1>4, <2>1, <2>4, <2>5, <2>6, Zenon
<1> QED BY <1>2, <1>3, <1>4

\* The symbols of some data, and where the k-th character ends in them.
Escapes(d) == [i \in DOMAIN d |-> Escaped(d[i])]
Coded(d) == FlattenSeq(Escapes(d))

LEMMA CodedIs ==
  ASSUME NEW d \in Seq(Chars)
  PROVE  /\ Coded(d) \in Seq(Sym)
         /\ EndOf(Escapes(d), 0) = 0 /\ EndOf(Escapes(d), Len(d)) = Len(Coded(d))
         /\ \A k \in 0 .. Len(d) : EndOf(Escapes(d), k) \in 0 .. Len(Coded(d))
         /\ \A k \in 1 .. Len(d) :
              /\ EndOf(Escapes(d), k) = EndOf(Escapes(d), k - 1) + Len(Escaped(d[k]))
              /\ \A j \in 1 .. Len(Escaped(d[k])) :
                   Coded(d)[EndOf(Escapes(d), k - 1) + j] = Escaped(d[k])[j]
         /\ \A j \in 1 .. Len(Coded(d)) : Coded(d)[j] # "NL"
<1> DEFINE ss == Escapes(d)
           n == Len(d)
<1>1. n \in Nat /\ DOMAIN d = 1 .. n /\ \A i \in 1 .. n : d[i] \in Chars
  OBVIOUS
<1>2. \A i \in 1 .. n : Escaped(d[i]) \in Seq(Sym)
  BY <1>1, EscapedIs
<1>3. ss \in Seq(Seq(Sym)) /\ Len(ss) = n /\ \A i \in 1 .. n : ss[i] = Escaped(d[i])
  <2>1. ss = [i \in 1 .. n |-> Escaped(d[i])]
    BY <1>1 DEF Escapes
  <2> HIDE DEF ss, n
  <2> QED BY <1>1, <1>2, <2>1
<1> HIDE DEF ss, n
<1>4. /\ FlattenSeq(ss) \in Seq(Sym) /\ EndOf(ss, 0) = 0 /\ EndOf(ss, n) = Len(FlattenSeq(ss))
      /\ \A k \in 0 .. n : EndOf(ss, k) \in 0 .. Len(FlattenSeq(ss))
      /\ \A k \in 1 .. n :
           /\ EndOf(ss, k) = EndOf(ss, k - 1) + Len(ss[k])
           /\ \A j \in 1 .. Len(ss[k]) : FlattenSeq(ss)[EndOf(ss, k - 1) + j] = ss[k][j]
  <2>1. Joined(Sym, ss)
    BY <1>3, FlattenAt
  <2> QED BY <1>3, <2>1 DEF Joined
<1>5. Coded(d) = FlattenSeq(ss)
  BY DEF Coded, ss
<1>6. \A k \in 1 .. n :
        /\ EndOf(ss, k) = EndOf(ss, k - 1) + Len(Escaped(d[k]))
        /\ \A j \in 1 .. Len(Escaped(d[k])) :
             FlattenSeq(ss)[EndOf(ss, k - 1) + j] = Escaped(d[k])[j]
  BY <1>3, <1>4
<1>7. ASSUME NEW k \in 0 .. n PROVE \A j \in 1 .. EndOf(ss, k) : FlattenSeq(ss)[j] # "NL"
  <2> DEFINE T == {m \in Nat : m <= n => \A j \in 1 .. EndOf(ss, m) : FlattenSeq(ss)[j] # "NL"}
  <2>1. 0 \in T
    BY <1>4
  <2>2. ASSUME NEW m \in Nat, m \in T PROVE m + 1 \in T
    <3> SUFFICES ASSUME m + 1 <= n, NEW j \in 1 .. EndOf(ss, m + 1)
                 PROVE  FlattenSeq(ss)[j] # "NL"
      OBVIOUS
    <3>1. m + 1 \in 1 .. n /\ m \in 0 .. n /\ (m + 1) - 1 = m
      BY <1>1
    <3>2. /\ EndOf(ss, m + 1) = EndOf(ss, m) + Len(Escaped(d[m + 1]))
          /\ \A i \in 1 .. Len(Escaped(d[m + 1])) :
                FlattenSeq(ss)[EndOf(ss, m) + i] = Escaped(d[m + 1])[i]
      BY <1>6, <3>1
    <3>3. \A i \in 1 .. Len(Escaped(d[m + 1])) : Escaped(d[m + 1])[i] # "NL"
      BY <1>1, <3>1, EscapedIs
    <3>4. EndOf(ss, m) \in Nat /\ Len(Escaped(d[m + 1])) \in Nat
      <4>1. d[m + 1] \in Chars
        BY <1>1, <3>1
      <4>2. Len(Escaped(d[m + 1])) \in 1 .. 3
        BY <4>1, EscapedIs
      <4>3. EndOf(ss, m) \in 0 .. Len(FlattenSeq(ss)) /\ Len(FlattenSeq(ss)) \in Nat
        BY <1>4, <3>1
      <4> QED BY <4>2, <4>3
    <3>5. CASE j <= EndOf(ss, m)
      BY <2>2, <3>1, <3>5, <1>1
    <3>6. CASE j > EndOf(ss, m)
      <4>1. j - EndOf(ss, m) \in 1 .. Len(Escaped(d[m + 1])) /\ EndOf(ss, m) + (j - EndOf(ss, m)) = j
        BY <3>2, <3>4, <3>6
      <4> QED BY <3>2, <3>3, <4>1
    <3> QED BY <3>4, <3>5, <3>6
  <2> HIDE DEF T
  <2>3. Nat \subseteq T
    BY <2>1, <2>2, Induction
  <2> QED BY <1>1, <2>3 DEF T
<1>8. n \in 0 .. n
  BY <1>1
<1> QED BY <1>4, <1>5, <1>6, <1>7, <1>8 DEF ss, n

\* An event's line: its time, its data escaped, a quote, a bracket and the newline.
LEMMA EventLineIs ==
  ASSUME NEW e \in CastEvent
  PROVE  LET l == Len(Coded(e.data))
             L == EventLine(e)
         IN  /\ L \in Seq(Sym) /\ l \in Nat /\ Len(L) = l + 6
             /\ L[1] = "[" /\ L[2] = Digits[e.t + 1] /\ L[3] = ", \"o\", \""
             /\ \A j \in 1 .. l : L[3 + j] = Coded(e.data)[j]
             /\ L[l + 4] = "\"" /\ L[l + 5] = "]" /\ L[l + 6] = "NL"
             /\ \A j \in 1 .. l + 5 : L[j] # "NL"
<1> DEFINE d == e.data
           E == Coded(d)
           l == Len(E)
           h == <<"[", Digits[e.t + 1], ", \"o\", \"">>
           z == <<"\"", "]", "NL">>
           L == EventLine(e)
<1>1. d \in Seq(Chars) /\ e.t + 1 \in 1 .. 10
  <2>2. d \in Seq(Chars)
    BY DEF CastEvent
  <2>3. e.t \in 0 .. 9
    BY DEF CastEvent
  <2> HIDE DEF d
  <2> QED BY <2>2, <2>3
<1>2. E \in Seq(Sym) /\ l \in Nat /\ \A j \in 1 .. l : E[j] # "NL"
  <2> HIDE DEF d
  <2> QED BY <1>1, CodedIs
<1>3. L = h \o E \o z
  BY DEF EventLine, Coded, Escapes
<1>4. {"[", Digits[e.t + 1], ", \"o\", \"", "\"", "]", "NL"} \subseteq Sym /\ Digits[e.t + 1] # "NL"
  BY <1>1, DigitsAre DEF Sym, Marks
<1>5. h \in Seq(Sym) /\ Len(h) = 3 /\ h[1] = "[" /\ h[2] = Digits[e.t + 1] /\ h[3] = ", \"o\", \""
  <2> DEFINE a == "["
             b == Digits[e.t + 1]
             c == ", \"o\", \""
  <2>1. a \in Sym /\ b \in Sym /\ c \in Sym /\ h = <<a, b, c>>
    BY <1>4
  <2> HIDE DEF a, b, c, h
  <2>2. h \in Seq(Sym) /\ Len(h) = 3 /\ h[1] = a /\ h[2] = b /\ h[3] = c
    BY <2>1, ThreeIs
  <2> QED BY <2>2 DEF a, b, c
<1>6. z \in Seq(Sym) /\ Len(z) = 3 /\ z[1] = "\"" /\ z[2] = "]" /\ z[3] = "NL"
  <2> DEFINE a == "\""
             b == "]"
             c == "NL"
  <2>1. a \in Sym /\ b \in Sym /\ c \in Sym /\ z = <<a, b, c>>
    BY <1>4
  <2> HIDE DEF a, b, c, z
  <2>2. z \in Seq(Sym) /\ Len(z) = 3 /\ z[1] = a /\ z[2] = b /\ z[3] = c
    BY <2>1, ThreeIs
  <2> QED BY <2>2 DEF a, b, c
<1> HIDE DEF E, h, z, L
<1> DEFINE he == h \o E
<1>7. /\ he \in Seq(Sym) /\ Len(he) = l + 3
      /\ \A i \in 1 .. l + 3 : he[i] = IF i <= 3 THEN h[i] ELSE E[i - 3]
  <2>1. /\ he \in Seq(Sym) /\ Len(he) = Len(h) + Len(E)
        /\ \A i \in 1 .. Len(h) + Len(E) : he[i] = IF i <= Len(h) THEN h[i] ELSE E[i - Len(h)]
    BY <1>2, <1>5, ConcatProperties
  <2>2. Len(h) = 3
    BY <1>5
  <2>3. Len(E) = l /\ l \in Nat
    BY <1>2
  <2> HIDE DEF l, he
  <2>4. Len(h) + Len(E) = l + 3
    BY <2>2, <2>3
  <2>5. Len(he) = l + 3 /\ he \in Seq(Sym)
    BY <2>1, <2>4
  <2>6. \A i \in 1 .. l + 3 : he[i] = IF i <= 3 THEN h[i] ELSE E[i - 3]
    BY <2>1, <2>2, <2>4
  <2> QED BY <2>5, <2>6
<1>8. L = he \o z
  BY <1>3
<1> HIDE DEF he
<1>9. /\ L \in Seq(Sym) /\ Len(L) = l + 6
      /\ \A i \in 1 .. l + 6 : L[i] = IF i <= l + 3 THEN he[i] ELSE z[i - (l + 3)]
  <2>1. /\ L \in Seq(Sym) /\ Len(L) = Len(he) + Len(z)
        /\ \A i \in 1 .. Len(he) + Len(z) : L[i] = IF i <= Len(he) THEN he[i] ELSE z[i - Len(he)]
    BY <1>6, <1>7, <1>8, ConcatProperties
  <2>2. Len(z) = 3
    BY <1>6
  <2>3. l \in Nat
    BY <1>2
  <2> HIDE DEF l
  <2>4. Len(he) = l + 3
    BY <1>7
  <2>5. Len(he) + Len(z) = l + 6
    BY <2>2, <2>3, <2>4
  <2>6. Len(L) = l + 6 /\ L \in Seq(Sym)
    BY <2>1, <2>5
  <2>7. \A i \in 1 .. l + 6 : L[i] = IF i <= l + 3 THEN he[i] ELSE z[i - (l + 3)]
    BY <2>1, <2>4, <2>5
  <2> QED BY <2>6, <2>7
<1>14. l \in Nat
  BY <1>2
<1>15. \A j \in 1 .. l : E[j] # "NL"
  BY <1>2
<1>16. h[1] = "[" /\ h[2] = Digits[e.t + 1] /\ h[3] = ", \"o\", \""
  BY <1>5
<1>17. z[1] = "\"" /\ z[2] = "]" /\ z[3] = "NL"
  BY <1>6
<1> HIDE DEF l
<1>18. \A i \in 1 .. l + 3 : he[i] = IF i <= 3 THEN h[i] ELSE E[i - 3]
  BY <1>7
<1>19. \A i \in 1 .. l + 6 : L[i] = IF i <= l + 3 THEN he[i] ELSE z[i - (l + 3)]
  BY <1>9
<1>20. L[1] = h[1] /\ L[2] = h[2] /\ L[3] = h[3]
  BY <1>14, <1>18, <1>19
<1>21. L[l + 4] = z[1] /\ L[l + 5] = z[2] /\ L[l + 6] = z[3]
  BY <1>14, <1>19
<1>10. L[1] = "[" /\ L[2] = Digits[e.t + 1] /\ L[3] = ", \"o\", \""
  BY <1>16, <1>20
<1>11. \A j \in 1 .. l : L[3 + j] = E[j]
  BY <1>14, <1>18, <1>19
<1>12. L[l + 4] = "\"" /\ L[l + 5] = "]" /\ L[l + 6] = "NL"
  BY <1>17, <1>21
<1>13. ASSUME NEW j \in 1 .. l + 5 PROVE L[j] # "NL"
  <2>1. CASE j <= 3
    <3>1. j = 1 \/ j = 2 \/ j = 3
      BY <1>14, <2>1
    <3> QED BY <1>4, <1>10, <3>1
  <2>2. CASE j > 3 /\ j <= l + 3
    <3>1. j - 3 \in 1 .. l /\ 3 + (j - 3) = j
      BY <1>14, <2>2
    <3>2. E[j - 3] # "NL"
      BY <1>15, <3>1
    <3> QED BY <1>11, <3>1, <3>2
  <2>3. CASE j > l + 3
    <3>1. j = l + 4 \/ j = l + 5
      BY <1>14, <2>3
    <3> QED BY <1>12, <3>1
  <2> QED BY <1>14, <2>1, <2>2, <2>3
<1> QED BY <1>9, <1>10, <1>11, <1>12, <1>13, <1>14 DEF l, E, L

-----------------------------------------------------------------------------
(* Replay: the data of a line, whole or cut off *)

\* What parse_event does at a symbol, when f is what it reads further on.
ReadStep(f, p, line) ==
  IF p > Len(line) \/ line[p] = "\"" THEN [ok |-> TRUE, data |-> <<>>]
  ELSE IF line[p] # "\\" THEN Before(line[p], f[p + 1])
  ELSE IF p = Len(line) THEN Bad
  ELSE IF line[p + 1] \in {"\"", "\\"} THEN Before(line[p + 1], f[p + 2])
  ELSE IF line[p + 1] # "u" \/ p + 1 = Len(line) THEN Bad
  ELSE IF \E c \in DOMAIN Hex : Hex[c] = line[p + 2]
       THEN Before(CHOOSE c \in DOMAIN Hex : Hex[c] = line[p + 2], f[p + 3])
  ELSE Bad

IsRead(f, line, lo) == f = [p \in lo .. Len(line) + 1 |-> ReadStep(f, p, line)]

LEMMA ReadStepAgrees ==
  ASSUME NEW line, Len(line) \in Nat, NEW f, NEW g, NEW p \in 1 .. Len(line) + 1,
         \A q \in p + 1 .. Len(line) + 1 : f[q] = g[q]
  PROVE  ReadStep(f, p, line) = ReadStep(g, p, line)
<1>1. CASE p > Len(line)
  BY <1>1 DEF ReadStep
<1>2. CASE p <= Len(line)
  <2>1. f[p + 1] = g[p + 1]
    BY <1>2
  <2>2. p # Len(line) => f[p + 2] = g[p + 2]
    BY <1>2
  <2>3. p # Len(line) /\ p + 1 # Len(line) => f[p + 3] = g[p + 3]
    BY <1>2
  <2> QED BY <2>1, <2>2, <2>3, Zenon DEF ReadStep
<1> QED BY <1>1, <1>2

LEMMA ReadExists ==
  ASSUME NEW line, Len(line) \in Nat, Len(line) >= 3
  PROVE  \E f : IsRead(f, line, 4)
<1> DEFINE N == Len(line)
           T == {k \in Nat : k <= N - 2 => \E f : IsRead(f, line, N + 2 - k)}
<1>1. 0 \in T
  <2> DEFINE f == [p \in {} |-> 0]
  <2>1. N + 2 - 0 .. N + 1 = {}
    OBVIOUS
  <2>2. f = [p \in N + 2 - 0 .. N + 1 |-> ReadStep(f, p, line)]
    BY <2>1
  <2>3. IsRead(f, line, N + 2 - 0)
    BY <2>2 DEF IsRead
  <2> HIDE DEF f
  <2> QED BY <2>3
<1>2. ASSUME NEW k \in Nat, k \in T PROVE k + 1 \in T
  <2> SUFFICES ASSUME k + 1 <= N - 2 PROVE \E g : IsRead(g, line, N + 2 - (k + 1))
    OBVIOUS
  <2> DEFINE lo == N + 2 - k
  <2>1. lo \in 5 .. N + 2 /\ N + 2 - (k + 1) = lo - 1
    OBVIOUS
  <2>2. PICK f : IsRead(f, line, lo)
    BY <1>2
  <2> DEFINE g == [p \in lo - 1 .. N + 1 |-> IF p = lo - 1 THEN ReadStep(f, p, line) ELSE f[p]]
  <2> HIDE DEF lo, T
  <2>3. \A q \in lo .. N + 1 : f[q] = g[q]
    BY <2>1
  <2>4. ASSUME NEW p \in lo - 1 .. N + 1 PROVE g[p] = ReadStep(g, p, line)
    <3> HIDE DEF g
    <3>1. p \in 1 .. N + 1 /\ \A q \in p + 1 .. N + 1 : f[q] = g[q]
      BY <2>1, <2>3
    <3>2. ReadStep(f, p, line) = ReadStep(g, p, line)
      BY <3>1, ReadStepAgrees
    <3>3. CASE p = lo - 1
      BY <3>2, <3>3 DEF g
    <3>4. CASE p # lo - 1
      <4>1. p \in lo .. N + 1
        BY <2>1, <3>4
      <4>2. f[p] = ReadStep(f, p, line)
        BY <2>2, <4>1 DEF IsRead
      <4> QED BY <2>3, <3>2, <4>1, <4>2
    <3> QED BY <3>3, <3>4
  <2> DEFINE h == [p \in lo - 1 .. N + 1 |-> ReadStep(g, p, line)]
  <2>5. g = h
    <3>1. \A p \in lo - 1 .. N + 1 : g[p] = h[p]
      <4> HIDE DEF g
      <4> QED BY <2>4
    <3>2. DOMAIN g = lo - 1 .. N + 1 /\ DOMAIN h = lo - 1 .. N + 1
      OBVIOUS
    <3>3. g = [p \in lo - 1 .. N + 1 |-> g[p]] /\ h = [p \in lo - 1 .. N + 1 |-> h[p]]
      OBVIOUS
    <3> HIDE DEF g, h
    <3> QED BY <3>1, <3>3
  <2> HIDE DEF g
  <2>6. IsRead(g, line, lo - 1)
    BY <2>5 DEF IsRead
  <2> QED BY <2>1, <2>6
<1> HIDE DEF T
<1>3. N - 2 \in T
  <2>1. Nat \subseteq T
    BY <1>1, <1>2, Induction
  <2> QED BY <2>1
<1>4. \E f : IsRead(f, line, N + 2 - (N - 2))
  BY <1>3 DEF T
<1>5. N + 2 - (N - 2) = 4
  OBVIOUS
<1> QED BY <1>4, <1>5

LEMMA DataAtValue ==
  ASSUME NEW line, Len(line) \in Nat, Len(line) >= 3
  PROVE  \E f : /\ DataAt(line) = f[4]
                /\ \A p \in 4 .. Len(line) + 1 : f[p] = ReadStep(f, p, line)
<1> DEFINE f == CHOOSE g : IsRead(g, line, 4)
<1>1. IsRead(f, line, 4)
  BY ReadExists
<1>2. DataAt(line) = f[4]
  BY Zenon DEF DataAt, IsRead, ReadStep
<1> HIDE DEF f
<1>3. \A p \in 4 .. Len(line) + 1 : f[p] = ReadStep(f, p, line)
  BY <1>1 DEF IsRead
<1> QED BY <1>2, <1>3

\* What a reader returns, and that it is the d there is after k characters.
ReadSet == [ok : BOOLEAN, data : Seq(Chars)]
Starts(x, d, k) == Len(x) <= Len(d) - k /\ \A i \in 1 .. Len(x) : x[i] = d[k + i]
ReadsOn(r, d, k, full) ==
  /\ r \in ReadSet
  /\ r.ok => Starts(r.data, d, k)
  /\ full => r.ok /\ Len(r.data) = Len(d) - k

LEMMA NothingRead ==
  ASSUME NEW d \in Seq(Chars), NEW k \in 0 .. Len(d)
  PROVE  /\ ReadsOn([ok |-> TRUE, data |-> <<>>], d, k, k = Len(d))
         /\ ReadsOn(Bad, d, k, FALSE)
<1>1. <<>> \in Seq(Chars) /\ Len(<<>>) = 0
  OBVIOUS
<1>2. [ok |-> TRUE, data |-> <<>>] \in ReadSet /\ Bad \in ReadSet
  BY <1>1 DEF ReadSet, Bad
<1>3. Starts(<<>>, d, k)
  BY <1>1 DEF Starts
<1> QED BY <1>1, <1>2, <1>3 DEF ReadsOn, Bad

LEMMA BeforeReads ==
  ASSUME NEW d \in Seq(Chars), NEW k \in 0 .. Len(d) - 1, NEW r, NEW full \in BOOLEAN,
         ReadsOn(r, d, k + 1, full)
  PROVE  ReadsOn(Before(d[k + 1], r), d, k, full)
<1> DEFINE c == d[k + 1]
           x == <<c>> \o r.data
<1>1. c \in Chars /\ r \in ReadSet /\ r.data \in Seq(Chars)
  BY DEF ReadsOn, ReadSet
<1> DEFINE n == Len(r.data)
<1>2. /\ x \in Seq(Chars) /\ Len(x) = n + 1 /\ x[1] = c
      /\ \A i \in 1 .. n : x[i + 1] = r.data[i]
  <2> DEFINE y == r.data
  <2>1. y \in Seq(Chars) /\ n = Len(y) /\ n \in Nat
    BY <1>1
  <2> HIDE DEF y, c, n
  <2>2. <<c>> \in Seq(Chars) /\ Len(<<c>>) = 1 /\ <<c>>[1] = c
    BY <1>1
  <2> DEFINE o == <<c>>
  <2> HIDE DEF o
  <2>3. /\ o \o y \in Seq(Chars) /\ Len(o \o y) = Len(o) + Len(y)
        /\ \A i \in 1 .. Len(o) + Len(y) : (o \o y)[i] = IF i <= Len(o) THEN o[i] ELSE y[i - Len(o)]
    BY <2>1, <2>2, ConcatProperties DEF o
  <2>4. Len(o) = 1 /\ o[1] = c
    BY <2>2 DEF o
  <2>5. \A i \in 1 .. n : (o \o y)[i + 1] = y[i]
    BY <2>1, <2>3, <2>4
  <2>6. (o \o y)[1] = c /\ Len(o \o y) = n + 1 /\ o \o y \in Seq(Chars)
    BY <2>1, <2>3, <2>4
  <2>7. x = o \o y
    BY DEF o, y
  <2> QED BY <2>5, <2>6, <2>7 DEF y
<1> HIDE DEF x
<1>3. CASE r.ok
  <2>1. Before(c, r) = [r EXCEPT !.data = x]
    BY <1>3, Zenon DEF Before, x
  <2>2. Before(c, r) \in ReadSet /\ Before(c, r).ok /\ Before(c, r).data = x
    BY <1>1, <1>2, <1>3, <2>1 DEF ReadSet
  <2>3. Starts(r.data, d, k + 1)
    BY <1>3 DEF ReadsOn
  <2>4. n <= Len(d) - (k + 1) /\ n \in Nat /\ Len(d) \in Nat /\ k \in Nat
    BY <1>1, <2>3 DEF Starts
  <2>5. Len(x) <= Len(d) - k
    BY <1>2, <2>4
  <2>6. ASSUME NEW i \in 1 .. Len(x) PROVE x[i] = d[k + i]
    <3>1. CASE i = 1
      BY <1>2, <3>1
    <3>2. CASE i # 1
      <4>1. i - 1 \in 1 .. n /\ (i - 1) + 1 = i /\ (k + 1) + (i - 1) = k + i
        BY <1>2, <2>4, <3>2
      <4>2. x[i] = r.data[i - 1]
        BY <1>2, <4>1
      <4>3. r.data[i - 1] = d[(k + 1) + (i - 1)]
        BY <2>3, <4>1 DEF Starts
      <4> QED BY <4>1, <4>2, <4>3
    <3> QED BY <3>1, <3>2
  <2>7. Starts(x, d, k)
    BY <2>5, <2>6 DEF Starts
  <2>8. full => Len(x) = Len(d) - k
    <3>1. full => n = Len(d) - (k + 1)
      BY DEF ReadsOn
    <3> QED BY <1>2, <2>4, <3>1
  <2> QED BY <2>2, <2>7, <2>8 DEF ReadsOn
<1>4. CASE ~r.ok
  <2>1. Before(c, r) = Bad /\ ~full
    BY <1>4 DEF Before, ReadsOn
  <2>2. k \in 0 .. Len(d)
    OBVIOUS
  <2>3. ReadsOn(Bad, d, k, FALSE)
    BY <2>2, NothingRead
  <2> QED BY <2>1, <2>3 DEF ReadsOn
<1> QED BY <1>3, <1>4

\* The data of the first m symbols of an event's line.
LEMMA DataAtIs ==
  ASSUME NEW e \in CastEvent, NEW m \in 3 .. Len(Coded(e.data)) + 5, NEW line,
         line = SubSeq(EventLine(e), 1, m)
  PROVE  ReadsOn(DataAt(line), e.data, 0, m >= Len(Coded(e.data)) + 4)
<1> DEFINE d == e.data
           E == Coded(d)
           l == Len(E)
           n == Len(d)
           L == EventLine(e)
           Ends(k) == EndOf(Escapes(d), k)
           full == m >= l + 4
<1>1. d \in Seq(Chars)
  BY DEF CastEvent
<1> HIDE DEF d
<1>2. n \in Nat /\ \A k \in 1 .. n : d[k] \in Chars
  BY <1>1
<1>3. /\ L \in Seq(Sym) /\ l \in Nat /\ Len(L) = l + 6
      /\ \A j \in 1 .. l : L[3 + j] = E[j]
      /\ L[l + 4] = "\""
  BY EventLineIs DEF d
<1>4. /\ Ends(0) = 0 /\ Ends(n) = l
      /\ \A k \in 0 .. n : Ends(k) \in 0 .. l
      /\ \A k \in 1 .. n : /\ Ends(k) = Ends(k - 1) + Len(Escaped(d[k]))
                           /\ \A j \in 1 .. Len(Escaped(d[k])) : E[Ends(k - 1) + j] = Escaped(d[k])[j]
  BY <1>1, CodedIs
<1>0. l \in Nat
  BY <1>3
<1> HIDE DEF E, L, Ends
<1>5. m \in 3 .. l + 5
  BY DEF E, d
<1>51. L \in Seq(Sym) /\ Len(L) = l + 6
  BY <1>3
<1>6. Len(line) = m /\ \A p \in 1 .. m : line[p] = L[p]
  <2>1. line = SubSeq(L, 1, m)
    BY DEF L
  <2>2. 1 \in 1 .. Len(L) + 1 /\ m \in 1 - 1 .. Len(L)
    BY <1>0, <1>5, <1>51
  <2> HIDE DEF l
  <2> QED BY <1>0, <1>5, <1>51, <2>1, <2>2, SubSeqProperties
<1> HIDE DEF l
<1>7. PICK f : DataAt(line) = f[4] /\ \A p \in 4 .. Len(line) + 1 : f[p] = ReadStep(f, p, line)
  <2>1. Len(line) \in Nat /\ Len(line) >= 3
    BY <1>5, <1>6
  <2> QED BY <2>1, DataAtValue
<1> HIDE DEF full, n
<1>8. full \in BOOLEAN /\ (full <=> m >= l + 4)
  BY DEF full
<1> DEFINE P(k) == 4 + Ends(k) <= m + 1 => ReadsOn(f[4 + Ends(k)], d, k, full)
<1>9. P(n)
  <2> SUFFICES ASSUME 4 + l <= m + 1 PROVE ReadsOn(f[4 + l], d, n, full)
    BY <1>4
  <2>1. 4 + l \in 4 .. m + 1
    BY <1>0, <1>5
  <2>2. f[4 + l] = [ok |-> TRUE, data |-> <<>>]
    <3>1. f[4 + l] = ReadStep(f, 4 + l, line)
      BY <1>6, <1>7, <2>1
    <3>2. 4 + l > Len(line) \/ line[4 + l] = "\""
      <4>1. CASE 4 + l > m
        BY <4>1, <1>6
      <4>2. CASE 4 + l <= m
        <5>1. 4 + l \in 1 .. m /\ 4 + l = l + 4
          BY <4>2, <1>0, <1>5
        <5> QED BY <5>1, <1>3, <1>6
      <4>3. 4 + l > m \/ 4 + l <= m
        BY <1>0, <1>5
      <4> QED BY <4>1, <4>2, <4>3
    <3> QED BY <3>1, <3>2 DEF ReadStep
  <2>3. n \in 0 .. Len(d) /\ n = Len(d)
    BY <1>2 DEF n
  <2> QED BY <1>1, <1>8, <2>2, <2>3, NothingRead DEF ReadsOn
<1>10. ASSUME NEW k \in 0 .. n - 1, P(k + 1) PROVE P(k)
  <2> SUFFICES ASSUME 4 + Ends(k) <= m + 1 PROVE ReadsOn(f[4 + Ends(k)], d, k, full)
    OBVIOUS
  <2> DEFINE p == 4 + Ends(k)
             c == d[k + 1]
             s == Escaped(c)
             q == 4 + Ends(k + 1)
  <2>1. k + 1 \in 1 .. n /\ k \in 0 .. n /\ (k + 1) - 1 = k /\ k \in Nat /\ k + 1 \in 0 .. n
    BY <1>2
  <2>2. c \in Chars /\ Ends(k) \in 0 .. l /\ Ends(k + 1) \in 0 .. l
    BY <1>2, <1>4, <2>1
  <2>3. /\ s \in Seq(Sym) /\ Len(s) \in 1 .. 3
        /\ \/ c \notin {"\"", "\\"} /\ c \notin DOMAIN Hex /\ s = <<c>>
           \/ c \in {"\"", "\\"} /\ s = <<"\\", c>>
           \/ c \notin {"\"", "\\"} /\ c \in DOMAIN Hex /\ s = <<"\\", "u", Hex[c]>>
    BY <2>2, EscapedIs
  <2>4. Ends(k + 1) = Ends(k) + Len(s) /\ \A j \in 1 .. Len(s) : E[Ends(k) + j] = s[j]
    BY <1>4, <2>1
  <2> HIDE DEF s
  <2>30. Len(s) \in 1 .. 3
    BY <2>3
  <2>40. Ends(k + 1) = Ends(k) + Len(s)
    BY <2>4
  <2>20. Ends(k) \in 0 .. l /\ Ends(k + 1) \in 0 .. l
    BY <2>2
  <2>5. p \in 4 .. m + 1 /\ q = p + Len(s) /\ p + Len(s) <= l + 4 /\ p \in Nat
    <3>1. p \in Nat /\ p \in 4 .. m + 1
      BY <1>0, <1>5, <2>20
    <3>2. q = p + Len(s)
      BY <2>20, <2>30, <2>40
    <3>3. p + Len(s) <= l + 4
      BY <1>0, <2>20, <2>30, <2>40
    <3> QED BY <3>1, <3>2, <3>3
  <2>6. ASSUME NEW j \in 1 .. Len(s), p + (j - 1) <= m PROVE line[p + (j - 1)] = s[j]
    <3>0. j \in Nat /\ j >= 1
      BY <2>30
    <3>1. p + (j - 1) \in 1 .. m /\ p + (j - 1) = 3 + (Ends(k) + j)
      <4>1. p \in Nat /\ 4 <= p /\ p = 4 + Ends(k) /\ Ends(k) \in Nat
        BY <1>0, <2>20
      <4>2. m \in Nat /\ p + (j - 1) <= m
        BY <1>0, <1>5, <2>6
      <4> HIDE DEF p
      <4> QED BY <3>0, <4>1, <4>2
    <3>2. Ends(k) + j \in 1 .. l
      BY <1>0, <2>20, <2>30, <2>40
    <3>3. L[3 + (Ends(k) + j)] = E[Ends(k) + j]
      BY <1>3, <3>2
    <3> QED BY <1>6, <2>4, <3>1, <3>3
  <2>7. f[p] = ReadStep(f, p, line)
    BY <1>6, <1>7, <2>5
  <2>8. q <= m + 1 => ReadsOn(f[q], d, k + 1, full)
    BY <1>10
  <2>9. k \in 0 .. Len(d) - 1 /\ k \in 0 .. Len(d)
    BY <2>1, <1>2 DEF n
  <2>10. q <= m + 1 => ReadsOn(Before(c, f[q]), d, k, full)
    BY <1>1, <1>8, <2>8, <2>9, BeforeReads
  <2>11. full => q <= m + 1 /\ p < m
    <3>1. m >= l + 4 => q <= m + 1 /\ p < m
      <4>1. /\ p \in Int /\ Len(s) \in Int /\ l \in Int /\ m \in Int /\ q = p + Len(s)
            /\ p + Len(s) <= l + 4 /\ 1 <= Len(s)
        <5>1. q = p + Len(s) /\ p + Len(s) <= l + 4 /\ p \in Nat
          BY <2>5
        <5>2. 1 <= Len(s) /\ Len(s) \in Int
          BY <2>30
        <5>3. m \in Int /\ l \in Int
          BY <1>0, <1>5
        <5> HIDE DEF q, p, P
        <5> QED BY <5>1, <5>2, <5>3
      <4> HIDE DEF q, p, P
      <4> QED BY <4>1
    <3> QED BY <1>8, <3>1
  <2>12. ~full => ReadsOn(Bad, d, k, full) /\ ReadsOn([ok |-> TRUE, data |-> <<>>], d, k, full)
    BY <1>1, <1>8, <2>9, NothingRead DEF ReadsOn
  <2> HIDE DEF p, q, c, P
  <2>50. p > m \/ p <= m
    BY <1>0, <1>5, <2>5
  <2>13. CASE p > m
    <3>1. ReadStep(f, p, line) = [ok |-> TRUE, data |-> <<>>]
      BY <1>6, <2>13 DEF ReadStep
    <3>2. ~full
      BY <1>5, <2>5, <2>11, <2>13
    <3>3. ReadsOn(f[p], d, k, full)
      BY <2>7, <2>12, <3>1, <3>2
    <3> QED BY <3>3 DEF p
  <2>14. CASE p <= m /\ c \notin {"\"", "\\"} /\ c \notin DOMAIN Hex /\ s = <<c>>
    <3>10. p <= m
      BY <2>14
    <3>1. Len(s) = 1 /\ s[1] = c
      BY <2>14
    <3>11. Len(s) = 1
      BY <3>1
    <3>2. line[p] = c
      <4>1. 1 \in 1 .. Len(s) /\ p + (1 - 1) = p
        BY <2>5, <3>1
      <4> QED BY <2>6, <2>14, <3>1, <4>1
    <3>3. q = p + 1 /\ q <= m + 1 /\ ~(p > Len(line))
      BY <1>5, <1>6, <2>5, <3>10, <3>11
    <3>4. ReadStep(f, p, line) = Before(c, f[q])
      BY <2>14, <3>2, <3>3, Zenon DEF ReadStep
    <3>5. ReadsOn(f[p], d, k, full)
      BY <2>7, <2>10, <3>3, <3>4
    <3> QED BY <3>5 DEF p
  <2>15. CASE p <= m /\ c \in {"\"", "\\"} /\ s = <<"\\", c>>
    <3>10. p <= m
      BY <2>15
    <3>1. Len(s) = 2 /\ s[1] = "\\" /\ s[2] = c
      BY <2>15
    <3>11. Len(s) = 2
      BY <3>1
    <3>2. line[p] = "\\" /\ q = p + 2 /\ ~(p > Len(line))
      <4>1. 1 \in 1 .. Len(s) /\ p + (1 - 1) = p
        BY <2>5, <3>1
      <4>2. q = p + 2 /\ ~(p > m)
        BY <1>5, <2>5, <3>10, <3>11
      <4> QED BY <1>6, <2>6, <2>15, <3>1, <4>1, <4>2
    <3>12. q = p + Len(s)
      BY <2>5
    <3>3. CASE p = m
      <4>1. ReadStep(f, p, line) = Bad
        BY <1>6, <3>2, <3>3 DEF ReadStep
      <4>2. ~full
        BY <1>5, <2>5, <2>11, <3>3
      <4>3. ReadsOn(f[p], d, k, full)
        BY <2>7, <2>12, <4>1, <4>2
      <4> QED BY <4>3 DEF p
    <3>4. CASE p # m
      <4>1. 2 \in 1 .. Len(s) /\ p + (2 - 1) = p + 1 /\ p + 1 <= m /\ q <= m + 1
        BY <1>5, <2>5, <3>10, <3>11, <3>12, <3>4
      <4>2. line[p + 1] = c
        BY <2>6, <3>1, <4>1
      <4>3. ReadStep(f, p, line) = Before(c, f[q])
        <5>1. p # Len(line)
          BY <1>6, <3>4
        <5> QED BY <2>15, <3>2, <4>2, <5>1 DEF ReadStep
      <4>4. ReadsOn(f[p], d, k, full)
        BY <2>7, <2>10, <4>1, <4>3
      <4> QED BY <4>4 DEF p
    <3> QED BY <3>3, <3>4
  <2>16. CASE p <= m /\ c \in DOMAIN Hex /\ s = <<"\\", "u", Hex[c]>>
    <3>10. p <= m
      BY <2>16
    <3> DEFINE h == Hex[c]
    <3>0. s = <<"\\", "u", h>>
      BY <2>16
    <3> HIDE DEF h
    <3>1. Len(s) = 3 /\ s[1] = "\\" /\ s[2] = "u" /\ s[3] = h
      BY <3>0
    <3>11. Len(s) = 3
      BY <3>1
    <3>2. line[p] = "\\" /\ q = p + 3 /\ ~(p > Len(line))
      <4>1. 1 \in 1 .. Len(s) /\ p + (1 - 1) = p
        BY <2>5, <3>1
      <4>2. q = p + 3 /\ ~(p > m)
        BY <1>5, <2>5, <3>10, <3>11
      <4> QED BY <1>6, <2>6, <2>16, <3>1, <4>1, <4>2
    <3>12. q = p + Len(s)
      BY <2>5
    <3>3. CASE p = m
      <4>1. ReadStep(f, p, line) = Bad
        BY <1>6, <3>2, <3>3 DEF ReadStep
      <4>2. ~full
        BY <1>5, <2>5, <2>11, <3>3
      <4>3. ReadsOn(f[p], d, k, full)
        BY <2>7, <2>12, <4>1, <4>2
      <4> QED BY <4>3 DEF p
    <3>4. CASE p # m
      <4>1. 2 \in 1 .. Len(s) /\ p + (2 - 1) = p + 1 /\ p + 1 <= m
        BY <1>5, <2>5, <3>10, <3>11, <3>12, <3>4
      <4>2. line[p + 1] = "u"
        BY <2>6, <3>1, <4>1
      <4>3. CASE p + 1 = m
        <5>1. ReadStep(f, p, line) = Bad
          BY <1>6, <3>2, <3>4, <4>2, <4>3 DEF ReadStep
        <5>2. ~full
          BY <1>5, <2>5, <2>11, <3>2, <4>3
        <5>3. ReadsOn(f[p], d, k, full)
          BY <2>7, <2>12, <5>1, <5>2
        <5> QED BY <5>3 DEF p
      <4>4. CASE p + 1 # m
        <5>1. 3 \in 1 .. Len(s) /\ p + (3 - 1) = p + 2 /\ p + 2 <= m /\ q <= m + 1
          BY <1>5, <2>5, <3>11, <3>12, <4>1, <4>4
        <5>2. line[p + 2] = h
          BY <2>6, <3>1, <5>1
        <5>3. (\E x \in DOMAIN Hex : Hex[x] = line[p + 2])
              /\ (CHOOSE x \in DOMAIN Hex : Hex[x] = line[p + 2]) = c
          <6>1. Hex[c] = line[p + 2] /\ c \in DOMAIN Hex
            BY <2>16, <5>2 DEF h
          <6>2. \A x, y \in DOMAIN Hex : Hex[x] = Hex[y] => x = y
            BY HexIs
          <6> QED BY <6>1, <6>2
        <5>4. p # Len(line) /\ p + 1 # Len(line)
          BY <1>6, <3>4, <4>4
        <5>5. ReadStep(f, p, line) = Before(c, f[q])
          BY <3>2, <4>2, <5>3, <5>4 DEF ReadStep
        <5>6. ReadsOn(f[p], d, k, full)
          BY <2>7, <2>10, <5>1, <5>5
        <5> QED BY <5>6 DEF p
      <4> QED BY <4>3, <4>4
    <3> QED BY <3>3, <3>4
  <2> QED BY <1>0, <1>5, <2>3, <2>50, <2>13, <2>14, <2>15, <2>16
<1>11. P(0)
  <2> DEFINE T == {k \in Nat : k <= n => P(n - k)}
  <2> HIDE DEF P
  <2>1. 0 \in T
    <3>1. n - 0 = n
      BY <1>2
    <3> QED BY <1>9, <3>1
  <2>2. ASSUME NEW k \in Nat, k \in T PROVE k + 1 \in T
    <3> SUFFICES ASSUME k + 1 <= n PROVE P(n - (k + 1))
      OBVIOUS
    <3>1. n - (k + 1) \in 0 .. n - 1 /\ (n - (k + 1)) + 1 = n - k
      BY <1>2
    <3>2. P(n - k)
      BY <2>2, <1>2
    <3>3. P((n - (k + 1)) + 1)
      BY <3>1, <3>2, Zenon
    <3> DEFINE i == n - (k + 1)
    <3> HIDE DEF i
    <3>4. P(i)
      BY <1>10, <3>1, <3>3 DEF i
    <3> QED BY <3>4 DEF i
  <2> HIDE DEF T
  <2>3. Nat \subseteq T
    BY <2>1, <2>2, Induction
  <2>4. P(n - n)
    BY <1>2, <2>3 DEF T
  <2>5. n - n = 0
    BY <1>2
  <2> QED BY <2>4, <2>5, Zenon
<1> QED
  <2>1. 4 + Ends(0) = 4 /\ 4 <= m + 1
    BY <1>4, <1>5
  <2>2. ReadsOn(f[4], d, 0, full)
    BY <1>11, <2>1
  <2>3. ReadsOn(DataAt(line), d, 0, full)
    BY <1>7, <2>2
  <2> QED BY <2>3 DEF full, l, E, d

\* A sequence that starts as d does, in the words of SequencesExt.
LEMMA PrefixIs ==
  ASSUME NEW d \in Seq(Chars), NEW x \in Seq(Chars), Starts(x, d, 0)
  PROVE  IsPrefix(x, d) /\ (Len(x) = Len(d) => x = d)
<1>1. Len(x) \in Nat /\ Len(d) \in Nat /\ Len(x) <= Len(d) /\ \A i \in 1 .. Len(x) : x[i] = d[i]
  BY DEF Starts
<1>2. SubSeq(x, 1, Len(x)) = SubSeq(d, 1, Len(x))
  <2> DEFINE u == SubSeq(x, 1, Len(x))
             v == SubSeq(d, 1, Len(x))
  <2>1. /\ u \in Seq(Chars) /\ Len(u) = Len(x) /\ \A i \in 1 .. Len(x) : u[i] = x[i]
        /\ v \in Seq(Chars) /\ Len(v) = Len(x) /\ \A i \in 1 .. Len(x) : v[i] = d[i]
    BY <1>1, SubSeqProperties
  <2> HIDE DEF u, v
  <2>2. u = v
    BY <1>1, <2>1, SeqEqual
  <2> QED BY <2>2 DEF u, v
<1>3. Len(x) = Len(d) => x = d
  BY <1>1, SeqEqual
<1> QED BY <1>1, <1>2, <1>3 DEF IsPrefix

LEMMA ParsedIs ==
  ASSUME NEW line, Len(line) \in Nat
  PROVE  /\ Parsed(line).ok => Len(line) >= 3 /\ line[1] = "[" /\ line[3] = ", \"o\", \""
         /\ Len(line) >= 3 /\ line[1] = "[" /\ line[3] = ", \"o\", \"" =>
              /\ Parsed(line).ok = DataAt(line).ok /\ Parsed(line).data = DataAt(line).data
              /\ Parsed(line).t = (CHOOSE n \in DOMAIN Digits : Digits[n] = line[2]) - 1
<1> DEFINE A == line[1] = "["
           B == line[3] = ", \"o\", \""
           three == Len(line) >= 3
<1>0. ~three <=> Len(line) < 3
  OBVIOUS
<1>1. CASE Len(line) < 3 \/ line[1] # "[" \/ line[3] # ", \"o\", \""
  <2>1. Parsed(line) = [ok |-> FALSE]
    BY <1>1, Zenon DEF Parsed
  <2>2. ~Parsed(line).ok
    BY <2>1
  <2>3. ~(three /\ A /\ B)
    <3>1. ~three \/ ~A \/ ~B
      <4> HIDE DEF three
      <4> QED BY <1>0, <1>1, Zenon
    <3> HIDE DEF three, A, B
    <3> QED BY <3>1
  <2> HIDE DEF three, A, B
  <2>4. three /\ A /\ B => FALSE
    BY <2>3
  <2> QED BY <2>2, <2>4, Zenon DEF three, A, B
<1>2. CASE ~(Len(line) < 3 \/ line[1] # "[" \/ line[3] # ", \"o\", \"")
  <2> DEFINE o == DataAt(line).ok
             d == DataAt(line).data
             t == (CHOOSE n \in DOMAIN Digits : Digits[n] = line[2]) - 1
  <2>1. Parsed(line) = [ok |-> o, data |-> d, t |-> t]
    BY <1>2, Zenon DEF Parsed
  <2> HIDE DEF o, d, t
  <2>2. Parsed(line).ok = o /\ Parsed(line).data = d /\ Parsed(line).t = t
    BY <2>1
  <2>3. Len(line) >= 3 /\ line[1] = "[" /\ line[3] = ", \"o\", \""
    <3>1. ~(Len(line) < 3) /\ A /\ B
      BY <1>2, Zenon
    <3> HIDE DEF A, B
    <3>2. three
      BY <1>0, <3>1
    <3> QED BY <3>1, <3>2, Zenon DEF A, B
  <2> QED BY <2>2, <2>3 DEF o, d, t
<1> QED BY <1>1, <1>2

LEMMA ParsedPart ==
  ASSUME NEW e \in CastEvent, NEW m \in 0 .. Len(Coded(e.data)) + 5, NEW line,
         line = SubSeq(EventLine(e), 1, m)
  PROVE  /\ Parsed(line).ok => /\ Parsed(line).data \in Seq(Chars)
                                /\ IsPrefix(Parsed(line).data, e.data)
         /\ m >= Len(Coded(e.data)) + 4 =>
              Parsed(line).ok /\ [t |-> Parsed(line).t, data |-> Parsed(line).data] = e
<1> DEFINE l == Len(Coded(e.data))
           L == EventLine(e)
<1>1. /\ L \in Seq(Sym) /\ l \in Nat /\ Len(L) = l + 6
      /\ L[1] = "[" /\ L[2] = Digits[e.t + 1] /\ L[3] = ", \"o\", \""
  BY EventLineIs
<1>2. l \in Nat /\ Len(L) = l + 6 /\ L \in Seq(Sym)
  BY <1>1
<1>3. e.data \in Seq(Chars) /\ e.t \in 0 .. 9 /\ e = [t |-> e.t, data |-> e.data]
  BY DEF CastEvent
<1> HIDE DEF l, L
<1>4. m \in 0 .. l + 5
  BY DEF l
<1>5. Len(line) = m /\ \A p \in 1 .. m : line[p] = L[p]
  <2>1. line = SubSeq(L, 1, m)
    BY DEF L
  <2>2. 1 \in 1 .. Len(L) + 1 /\ m \in 1 - 1 .. Len(L)
    BY <1>2, <1>4
  <2> QED BY <1>2, <1>4, <2>1, <2>2, SubSeqProperties
<1>6. Len(line) \in Nat /\ Len(line) = m
  BY <1>4, <1>5, <1>2
<1>7. CASE m < 3
  <2>1. ~Parsed(line).ok
    <3>1. ~(Len(line) >= 3)
      BY <1>2, <1>4, <1>6, <1>7
    <3> QED BY <3>1, <1>6, ParsedIs
  <2>2. ~(m >= l + 4)
    BY <1>2, <1>4, <1>7
  <2> QED BY <2>1, <2>2 DEF l
<1>8. CASE m >= 3
  <2>1. m \in 3 .. l + 5
    BY <1>2, <1>4, <1>8
  <2>2. 1 \in 1 .. m /\ 2 \in 1 .. m /\ 3 \in 1 .. m /\ Len(line) >= 3
    BY <1>2, <2>1, <1>6
  <2>3. line[1] = "[" /\ line[2] = Digits[e.t + 1] /\ line[3] = ", \"o\", \""
    BY <1>1, <1>5, <2>2
  <2>4. /\ Parsed(line).ok = DataAt(line).ok /\ Parsed(line).data = DataAt(line).data
        /\ Parsed(line).t = (CHOOSE n \in DOMAIN Digits : Digits[n] = line[2]) - 1
    BY <1>6, <2>2, <2>3, ParsedIs
  <2>5. Parsed(line).t = e.t
    <3>1. e.t + 1 \in 1 .. 10
      BY <1>3
    <3>2. (CHOOSE n \in DOMAIN Digits : Digits[n] = line[2]) = e.t + 1
      BY <2>3, <3>1, DigitsAre
    <3>3. (e.t + 1) - 1 = e.t
      BY <1>3
    <3> QED BY <2>4, <3>2, <3>3
  <2>6. ReadsOn(DataAt(line), e.data, 0, m >= l + 4)
    <3>1. m \in 3 .. Len(Coded(e.data)) + 5
      BY <2>1 DEF l
    <3> QED BY <3>1, DataAtIs DEF l
  <2> DEFINE r == DataAt(line)
  <2>7. /\ r \in ReadSet /\ (r.ok => Starts(r.data, e.data, 0))
        /\ (m >= l + 4 => r.ok /\ Len(r.data) = Len(e.data) - 0)
    BY <2>6 DEF ReadsOn
  <2> HIDE DEF r
  <2>8. r.data \in Seq(Chars)
    BY <2>7 DEF ReadSet
  <2>9. r.ok => IsPrefix(r.data, e.data)
    BY <1>3, <2>7, <2>8, PrefixIs
  <2>10. m >= l + 4 => r.ok /\ r.data = e.data
    <3>1. Len(e.data) - 0 = Len(e.data)
      BY <1>3
    <3> QED BY <1>3, <2>7, <2>8, <3>1, PrefixIs
  <2> QED BY <1>3, <2>4, <2>5, <2>8, <2>9, <2>10 DEF r, l
<1> QED BY <1>2, <1>4, <1>7, <1>8

\* The header is no event.
LEMMA ParsedHeader ==
  ASSUME NEW line, Len(line) \in 0 .. 2
  PROVE  ~Parsed(line).ok
<1>1. Len(line) \in Nat /\ ~(Len(line) >= 3)
  <2>1. \A n \in 0 .. 2 : n \in Nat /\ ~(n >= 3)
    OBVIOUS
  <2> QED BY <2>1
<1> QED BY <1>1, ParsedIs

-----------------------------------------------------------------------------
(* Replay: the text of a recording *)

LinesOf(es) == [k \in DOMAIN es |-> EventLine(es[k])]

\* Where the k-th event's line ends.
LineEnd(es, k) == 2 + EndOf(LinesOf(es), k)

\* The header, the lines one after the other, and the start of one more.
Laid(x, es, cutoff, left) ==
  /\ x \in Seq(Sym) /\ Len(x) = LineEnd(es, Len(es)) + left
  /\ LineEnd(es, 0) = 2 /\ x[1] # "NL" /\ x[2] = "NL"
  /\ \A k \in 0 .. Len(es) : LineEnd(es, k) \in 2 .. LineEnd(es, Len(es))
  /\ \A k \in 1 .. Len(es) :
       /\ LineEnd(es, k) = LineEnd(es, k - 1) + Len(EventLine(es[k]))
       /\ \A j \in 1 .. Len(EventLine(es[k])) : x[LineEnd(es, k - 1) + j] = EventLine(es[k])[j]
  /\ \A j \in 1 .. left : x[LineEnd(es, Len(es)) + j] = EventLine(cutoff)[j]

LEMMA TextIsLaid ==
  ASSUME NEW es \in Seq(CastEvent), NEW cutoff \in CastEvent,
         NEW left \in 0 .. Len(EventLine(cutoff)) - 1
  PROVE  Laid(CastText(es) \o SubSeq(EventLine(cutoff), 1, left), es, cutoff, left)
<1> DEFINE n == Len(es)
           ss == LinesOf(es)
           F == FlattenSeq(ss)
           C == EventLine(cutoff)
           z == SubSeq(C, 1, left)
           h == <<"{}", "NL">>
           ct == CastText(es)
           x == ct \o z
<1>1. n \in Nat /\ \A k \in 1 .. n : es[k] \in CastEvent /\ EventLine(es[k]) \in Seq(Sym)
  <2>1. n \in Nat /\ \A k \in 1 .. n : es[k] \in CastEvent
    OBVIOUS
  <2> HIDE DEF n
  <2>2. ASSUME NEW k \in 1 .. n PROVE EventLine(es[k]) \in Seq(Sym)
    <3>1. es[k] \in CastEvent
      BY <2>1
    <3> QED BY <3>1, EventLineIs
  <2> QED BY <2>1, <2>2
<1>2. ss \in Seq(Seq(Sym)) /\ Len(ss) = n /\ \A k \in 1 .. n : ss[k] = EventLine(es[k])
  <2>1. ss = [k \in 1 .. n |-> EventLine(es[k])]
    BY DEF LinesOf
  <2> HIDE DEF ss, n
  <2> QED BY <1>1, <2>1
<1>3. /\ C \in Seq(Sym) /\ Len(C) \in Nat /\ left \in Nat /\ left <= Len(C)
  <2>1. C \in Seq(Sym)
    BY EventLineIs
  <2> HIDE DEF C
  <2>2. Len(C) \in Nat
    BY <2>1
  <2>3. left \in 0 .. Len(C) - 1
    BY DEF C
  <2> QED BY <2>1, <2>2, <2>3
<1> HIDE DEF ss, n, C
<1>4. z \in Seq(Sym) /\ Len(z) = left /\ \A j \in 1 .. left : z[j] = C[j]
  <2>1. 1 \in 1 .. Len(C) + 1 /\ left \in 1 - 1 .. Len(C)
    BY <1>3
  <2> QED BY <1>3, <2>1, PartIs
<1>5. /\ F \in Seq(Sym) /\ EndOf(ss, 0) = 0 /\ EndOf(ss, n) = Len(F)
      /\ \A k \in 0 .. n : EndOf(ss, k) \in 0 .. Len(F)
      /\ \A k \in 1 .. n :
           /\ EndOf(ss, k) = EndOf(ss, k - 1) + Len(ss[k])
           /\ \A j \in 1 .. Len(ss[k]) : F[EndOf(ss, k - 1) + j] = ss[k][j]
  <2>1. Joined(Sym, ss)
    BY <1>2, FlattenAt
  <2> QED BY <1>2, <2>1 DEF Joined
<1>6. h \in Seq(Sym) /\ Len(h) = 2 /\ h[1] # "NL" /\ h[2] = "NL"
  <2> DEFINE a == "{}"
             b == "NL"
  <2>1. a \in Sym /\ b \in Sym /\ a # "NL"
    BY DEF Sym, Marks
  <2>2. h = <<a, b>>
    OBVIOUS
  <2> HIDE DEF a, b, h
  <2>3. h \in Seq(Sym) /\ Len(h) = 2 /\ h[1] = a /\ h[2] = b
    BY <2>1, <2>2, TwoIs
  <2> QED BY <2>1, <2>3 DEF b
<1>7. ct = h \o F
  BY DEF CastText, LinesOf, ss
<1> HIDE DEF F, z, h, ct
<1> DEFINE f == Len(F)
<1>8. f \in Nat /\ Len(h) = 2 /\ Len(z) = left /\ left \in Nat
  BY <1>3, <1>4, <1>5, <1>6
<1>9. /\ ct \in Seq(Sym) /\ Len(ct) = f + 2 /\ ct[1] = h[1] /\ ct[2] = h[2]
      /\ \A j \in 1 .. f : ct[2 + j] = F[j]
  <2>1. /\ h \o F \in Seq(Sym) /\ Len(h \o F) = Len(h) + Len(F)
        /\ \A i \in 1 .. Len(h) + Len(F) : (h \o F)[i] = IF i <= Len(h) THEN h[i] ELSE F[i - Len(h)]
    BY <1>5, <1>6, ConcatProperties
  <2>2. /\ ct \in Seq(Sym) /\ Len(ct) = 2 + f
        /\ \A i \in 1 .. 2 + f : ct[i] = IF i <= 2 THEN h[i] ELSE F[i - 2]
    BY <1>7, <1>8, <2>1
  <2> HIDE DEF f
  <2> QED BY <1>8, <2>2
<1>10. /\ x \in Seq(Sym) /\ Len(x) = f + 2 + left
       /\ \A i \in 1 .. f + 2 : x[i] = ct[i]
       /\ \A j \in 1 .. left : x[f + 2 + j] = z[j]
  <2>1. /\ ct \o z \in Seq(Sym) /\ Len(ct \o z) = Len(ct) + Len(z)
        /\ \A i \in 1 .. Len(ct) + Len(z) : (ct \o z)[i] = IF i <= Len(ct) THEN ct[i] ELSE z[i - Len(ct)]
    BY <1>4, <1>9, ConcatProperties
  <2>2. Len(ct) = f + 2
    BY <1>9
  <2> HIDE DEF f
  <2>3. /\ x \in Seq(Sym) /\ Len(x) = (f + 2) + left
        /\ \A i \in 1 .. (f + 2) + left : x[i] = IF i <= f + 2 THEN ct[i] ELSE z[i - (f + 2)]
    BY <1>8, <2>1, <2>2
  <2> HIDE DEF x
  <2> QED BY <1>8, <2>3
<1> HIDE DEF x
<1>11. \A k : LineEnd(es, k) = 2 + EndOf(ss, k)
  BY DEF LineEnd, ss
<1>12. LineEnd(es, 0) = 2 /\ LineEnd(es, n) = 2 + f
  BY <1>5, <1>11
<1> HIDE DEF f
<1>13. ASSUME NEW k \in 0 .. n PROVE LineEnd(es, k) \in 2 .. LineEnd(es, n) /\ EndOf(ss, k) \in 0 .. f
  <2>1. EndOf(ss, k) \in 0 .. f /\ LineEnd(es, k) = 2 + EndOf(ss, k)
    BY <1>5, <1>11 DEF f
  <2> QED BY <1>8, <1>12, <2>1
<1>14. ASSUME NEW k \in 1 .. n
       PROVE  /\ LineEnd(es, k) = LineEnd(es, k - 1) + Len(EventLine(es[k]))
              /\ \A j \in 1 .. Len(EventLine(es[k])) : x[LineEnd(es, k - 1) + j] = EventLine(es[k])[j]
  <2>1. k \in 0 .. n /\ k - 1 \in 0 .. n
    BY <1>1
  <2> DEFINE a == EndOf(ss, k - 1)
             s == ss[k]
  <2>2. EndOf(ss, k) \in 0 .. f /\ a \in 0 .. f /\ LineEnd(es, k - 1) = 2 + a /\ LineEnd(es, k) = 2 + EndOf(ss, k)
    BY <1>11, <1>13, <2>1
  <2>3. EndOf(ss, k) = a + Len(s) /\ \A j \in 1 .. Len(s) : F[a + j] = s[j]
    BY <1>5
  <2>4. s = EventLine(es[k]) /\ Len(s) \in Nat
    <3>1. s = EventLine(es[k]) /\ s \in Seq(Sym)
      BY <1>1, <1>2
    <3> QED BY <3>1
  <2> HIDE DEF a, s
  <2>5. LineEnd(es, k) = LineEnd(es, k - 1) + Len(s)
    BY <2>2, <2>3, <2>4
  <2>6. ASSUME NEW j \in 1 .. Len(s) PROVE x[LineEnd(es, k - 1) + j] = s[j]
    <3>1. a + j \in 1 .. f /\ LineEnd(es, k - 1) + j = 2 + (a + j) /\ 2 + (a + j) \in 1 .. f + 2
      BY <1>8, <2>2, <2>3, <2>4
    <3>2. x[2 + (a + j)] = ct[2 + (a + j)]
      BY <1>10, <3>1
    <3>3. ct[2 + (a + j)] = F[a + j]
      BY <1>9, <3>1
    <3> QED BY <2>3, <3>1, <3>2, <3>3
  <2> QED BY <2>4, <2>5, <2>6
<1>15. ASSUME NEW j \in 1 .. left PROVE x[LineEnd(es, n) + j] = C[j]
  <2>1. LineEnd(es, n) + j = f + 2 + j
    BY <1>8, <1>12
  <2> QED BY <1>4, <1>10, <2>1
<1>16. x[1] # "NL" /\ x[2] = "NL"
  <2>1. 1 \in 1 .. f + 2 /\ 2 \in 1 .. f + 2
    BY <1>8
  <2> QED BY <1>6, <1>9, <1>10, <2>1
<1>17. x \in Seq(Sym) /\ Len(x) = LineEnd(es, n) + left
  <2>1. Len(x) = f + 2 + left /\ LineEnd(es, n) = 2 + f
    BY <1>10, <1>12
  <2> QED BY <1>8, <1>10, <2>1
<1>18. Laid(x, es, cutoff, left)
  BY <1>12, <1>13, <1>14, <1>15, <1>16, <1>17 DEF Laid, n, C
<1> QED BY <1>18 DEF x, ct, z, C

\* What is found from the start of the file or of a line on.
LEMMA NextLine ==
  ASSUME NEW es \in Seq(CastEvent), NEW cutoff \in CastEvent,
         NEW left \in 0 .. Len(EventLine(cutoff)) - 1, NEW x, Laid(x, es, cutoff, left),
         NEW k \in 0 .. Len(es) - 1
  PROVE  LET a == LineEnd(es, k)
             b == LineEnd(es, k + 1)
             r == Parsed(SubSeq(x, a + 1, b - 1))
         IN  /\ a \in Nat /\ b \in a + 1 .. LineEnd(es, Len(es)) /\ x[b] = "NL"
             /\ \A i \in a + 1 .. b - 1 : x[i] # "NL"
             /\ r.ok /\ [t |-> r.t, data |-> r.data] = es[k + 1]
<1> DEFINE n == Len(es)
           a == LineEnd(es, k)
           b == LineEnd(es, k + 1)
           e == es[k + 1]
           L == EventLine(e)
           l == Len(Coded(e.data))
           z == SubSeq(x, a + 1, b - 1)
           N == LineEnd(es, n)
<1>1. n \in Nat /\ k \in Nat /\ k + 1 \in 1 .. n /\ k \in 0 .. n /\ k + 1 \in 0 .. n /\ (k + 1) - 1 = k
  OBVIOUS
<1>2. e \in CastEvent
  BY <1>1
<1>3. /\ L \in Seq(Sym) /\ l \in Nat /\ Len(L) = l + 6 /\ L[l + 6] = "NL"
      /\ \A j \in 1 .. l + 5 : L[j] # "NL"
  <2> HIDE DEF e
  <2> QED BY <1>2, EventLineIs
<1>4. l \in Nat /\ Len(L) = l + 6 /\ L \in Seq(Sym)
  BY <1>3
<1>5. /\ x \in Seq(Sym) /\ Len(x) = N + left /\ a \in 2 .. N /\ b \in 2 .. N
      /\ b = a + Len(L) /\ \A j \in 1 .. Len(L) : x[a + j] = L[j]
  BY <1>1 DEF Laid
<1>6. left \in Nat
  <2>1. EventLine(cutoff) \in Seq(Sym)
    BY EventLineIs
  <2> QED BY <2>1
<1> HIDE DEF n, a, b, e, L, l, N
<1>7. N \in Nat /\ a \in Nat /\ b = a + (l + 6) /\ b <= N /\ Len(x) \in Nat /\ b <= Len(x)
  <2>1. a \in 2 .. N /\ b \in 2 .. N /\ b = a + Len(L) /\ Len(x) = N + left
    BY <1>5
  <2>2. Len(L) = l + 6 /\ l \in Nat
    BY <1>4
  <2>3. N \in 2 .. N
    <3>1. n \in 0 .. n
      BY <1>1 DEF n
    <3> QED BY <3>1 DEF Laid, N, n
  <2>4. b = a + (l + 6) /\ N \in Int
    BY <2>1, <2>2, <2>3
  <2> QED BY <1>6, <2>1, <2>2, <2>4
<1>8. b \in a + 1 .. N
  BY <1>4, <1>7
<1>9. x[b] = "NL"
  <2>1. l + 6 \in 1 .. Len(L)
    BY <1>4
  <2>2. x[a + (l + 6)] = L[l + 6]
    BY <1>5, <2>1
  <2> QED BY <1>3, <1>7, <2>2
<1>10. ASSUME NEW i \in a + 1 .. b - 1 PROVE x[i] # "NL"
  <2>1. i - a \in 1 .. l + 5 /\ i - a \in 1 .. Len(L) /\ a + (i - a) = i
    BY <1>4, <1>7
  <2> QED BY <1>3, <1>5, <2>1
<1>11. z = SubSeq(L, 1, l + 5)
  <2> DEFINE v == SubSeq(L, 1, l + 5)
             u == SubSeq(x, a + 1, b - 1)
  <2>1. /\ v \in Seq(Sym) /\ Len(v) = l + 5 /\ \A j \in 1 .. l + 5 : v[j] = L[j]
    <3>1. 1 \in 1 .. Len(L) + 1 /\ l + 5 \in 1 - 1 .. Len(L) /\ (l + 5) - 1 + 1 = l + 5
          /\ \A j : 1 + j - 1 \in Int => TRUE
      BY <1>4
    <3>2. /\ v \in Seq(Sym) /\ Len(v) = (l + 5) - 1 + 1 /\ \A j \in 1 .. (l + 5) - 1 + 1 : v[j] = L[1 + j - 1]
      BY <1>4, <3>1, PartIs
    <3> HIDE DEF v
    <3>3. \A j \in 1 .. l + 5 : 1 + j - 1 = j
      OBVIOUS
    <3> QED BY <3>1, <3>2, <3>3
  <2>2. /\ u \in Seq(Sym) /\ Len(u) = l + 5 /\ \A j \in 1 .. l + 5 : u[j] = x[a + j]
    <3>1. a + 1 \in 1 .. Len(x) + 1 /\ b - 1 \in (a + 1) - 1 .. Len(x) /\ (b - 1) - (a + 1) + 1 = l + 5
      BY <1>4, <1>7
    <3>2. /\ u \in Seq(Sym) /\ Len(u) = (b - 1) - (a + 1) + 1
          /\ \A j \in 1 .. (b - 1) - (a + 1) + 1 : u[j] = x[(a + 1) + j - 1]
      <4>1. x \in Seq(Sym)
        BY <1>5
      <4> QED BY <3>1, <4>1, PartIs
    <3> HIDE DEF u
    <3>3. \A j \in 1 .. l + 5 : (a + 1) + j - 1 = a + j
      BY <1>7
    <3> QED BY <3>1, <3>2, <3>3
  <2> HIDE DEF u, v
  <2>3. \A j \in 1 .. l + 5 : u[j] = v[j]
    <3>1. \A j \in 1 .. l + 5 : j \in 1 .. Len(L)
      BY <1>4
    <3> QED BY <1>5, <2>1, <2>2, <3>1
  <2>4. u = v
    BY <2>1, <2>2, <2>3, SeqEqual
  <2> QED BY <2>4 DEF u, v
<1> DEFINE r == Parsed(z)
<1>12. r.ok /\ [t |-> r.t, data |-> r.data] = e
  <2>1. l + 5 \in 0 .. Len(Coded(e.data)) + 5 /\ l + 5 >= Len(Coded(e.data)) + 4
    BY <1>4 DEF l
  <2>2. z = SubSeq(EventLine(e), 1, l + 5)
    BY <1>11 DEF L
  <2> HIDE DEF z, l
  <2> QED BY <1>2, <2>1, <2>2, ParsedPart
<1> QED BY <1>7, <1>8, <1>9, <1>10, <1>12 DEF a, b, e, N, n

\* After the last line there is only what was cut off.
LEMMA AfterLines ==
  ASSUME NEW es \in Seq(CastEvent), NEW cutoff \in CastEvent,
         NEW left \in 0 .. Len(EventLine(cutoff)) - 1, NEW x, Laid(x, es, cutoff, left)
  PROVE  LET a == LineEnd(es, Len(es))
             r == Parsed(SubSeq(x, a + 1, Len(x)))
         IN  /\ a \in Nat /\ Len(x) \in Nat /\ a >= 2 /\ Len(x) >= a
             /\ \A i \in a + 1 .. Len(x) : x[i] # "NL"
             /\ r.ok => r.data \in Seq(Chars) /\ IsPrefix(r.data, cutoff.data)
<1> DEFINE a == LineEnd(es, Len(es))
           L == EventLine(cutoff)
           l == Len(Coded(cutoff.data))
           z == SubSeq(x, a + 1, Len(x))
<1>1. /\ L \in Seq(Sym) /\ l \in Nat /\ Len(L) = l + 6 /\ \A j \in 1 .. l + 5 : L[j] # "NL"
  BY EventLineIs
<1>2. l \in Nat /\ Len(L) = l + 6 /\ L \in Seq(Sym)
  BY <1>1
<1>3. /\ x \in Seq(Sym) /\ Len(x) = a + left /\ a \in 2 .. a
      /\ \A j \in 1 .. left : x[a + j] = L[j]
  <2>1. Len(es) \in 0 .. Len(es)
    OBVIOUS
  <2> QED BY <2>1 DEF Laid
<1>4. left \in 0 .. Len(L) - 1
  BY DEF L
<1> HIDE DEF a, L, l
<1>5. left \in Nat /\ left <= l + 5
  BY <1>2, <1>4
<1>6. a \in Nat /\ a >= 2 /\ Len(x) \in Nat /\ Len(x) = a + left
  BY <1>3, <1>5
<1>7. ASSUME NEW i \in a + 1 .. Len(x) PROVE x[i] # "NL"
  <2>1. i - a \in 1 .. left /\ i - a \in 1 .. l + 5 /\ a + (i - a) = i
    BY <1>2, <1>5, <1>6
  <2> QED BY <1>1, <1>3, <2>1
<1>8. z = SubSeq(L, 1, left)
  <2> DEFINE v == SubSeq(L, 1, left)
             u == SubSeq(x, a + 1, Len(x))
  <2>1. /\ v \in Seq(Sym) /\ Len(v) = left /\ \A j \in 1 .. left : v[j] = L[j]
    <3>1. 1 \in 1 .. Len(L) + 1 /\ left \in 1 - 1 .. Len(L) /\ left - 1 + 1 = left
      BY <1>2, <1>5
    <3>2. /\ v \in Seq(Sym) /\ Len(v) = left - 1 + 1 /\ \A j \in 1 .. left - 1 + 1 : v[j] = L[1 + j - 1]
      BY <1>2, <3>1, PartIs
    <3> HIDE DEF v
    <3>3. \A j \in 1 .. left : 1 + j - 1 = j
      BY <1>5
    <3> QED BY <3>1, <3>2, <3>3
  <2>2. /\ u \in Seq(Sym) /\ Len(u) = left /\ \A j \in 1 .. left : u[j] = x[a + j]
    <3>1. a + 1 \in 1 .. Len(x) + 1 /\ Len(x) \in (a + 1) - 1 .. Len(x) /\ Len(x) - (a + 1) + 1 = left
      BY <1>5, <1>6
    <3>2. /\ u \in Seq(Sym) /\ Len(u) = Len(x) - (a + 1) + 1
          /\ \A j \in 1 .. Len(x) - (a + 1) + 1 : u[j] = x[(a + 1) + j - 1]
      <4>1. x \in Seq(Sym)
        BY <1>3
      <4> QED BY <3>1, <4>1, PartIs
    <3> HIDE DEF u
    <3>3. \A j \in 1 .. left : (a + 1) + j - 1 = a + j
      BY <1>5, <1>6
    <3> QED BY <3>1, <3>2, <3>3
  <2> HIDE DEF u, v
  <2>3. \A j \in 1 .. left : u[j] = v[j]
    BY <1>3, <2>1, <2>2
  <2>4. u = v
    BY <2>1, <2>2, <2>3, SeqEqual
  <2> QED BY <2>4 DEF u, v
<1> DEFINE r == Parsed(z)
<1>9. r.ok => r.data \in Seq(Chars) /\ IsPrefix(r.data, cutoff.data)
  <2>1. left \in 0 .. Len(Coded(cutoff.data)) + 5
    BY <1>5 DEF l
  <2>2. z = SubSeq(EventLine(cutoff), 1, left)
    BY <1>8 DEF L
  <2> HIDE DEF z
  <2> QED BY <2>1, <2>2, ParsedPart
<1> QED BY <1>5, <1>6, <1>7, <1>9 DEF a

-----------------------------------------------------------------------------
(* Replay: the invariant *)

Speeds ==
  CHOOSE S \in SUBSET (SLOWEST .. FASTEST) :
     /\ {ONE, FASTEST} \subseteq S
     /\ \A s \in S : /\ s < FASTEST => 2 * s \in S
                     /\ s > SLOWEST => s \div 2 \in S

\* The file is a recording, the last line of which may be cut off.
TextOK ==
  /\ told.events \in Seq(CastEvent) /\ told.cut \in CastEvent
  /\ \A k \in 1 .. Len(told.events) : told.events[k].data # <<>>
  /\ \E left \in 0 .. Len(EventLine(told.cut)) - 1 :
       text = CastText(told.events) \o SubSeq(EventLine(told.cut), 1, left)

\* The buffer is the part of the file that was read last.
WindowOK ==
  /\ at \in 0 .. Len(text) /\ buf \in Seq(Sym) /\ Len(buf) <= at
  /\ \A i \in 1 .. Len(buf) : buf[i] = text[at - Len(buf) + i]
  /\ start \in 0 .. Len(buf) /\ eof \in BOOLEAN /\ (eof => at = Len(text))
  /\ rp = "refill" => start = 0

\* How much of the file was looked at, and that k events were shown.
Looked == at - Len(buf) + start
Showing(k) ==
  /\ shown \in Seq(Seq(Chars)) /\ Len(shown) = k
  /\ \A i \in 1 .. k : shown[i] = told.events[i].data

AtLine ==
  \/ Looked = 0 /\ Showing(0)
  \/ \E k \in 0 .. Len(told.events) : Looked = LineEnd(told.events, k) /\ Showing(k)

NoLine == \A i \in start + 1 .. Len(buf) : buf[i] # "NL"
AllShown == ShownIsRecorded /\ Len(shown) >= Len(told.events)

\* At each place what was looked at is what was shown, but for the event at hand.
PlaceOK ==
  /\ rp \in {"refill", "lines", "wait", "tail", "move", "over", "closed"}
  /\ rp \in {"refill", "lines", "tail"} => AtLine
  /\ rp = "tail" => NoLine
  /\ rp = "wait" => \E k \in 1 .. Len(told.events) :
                      /\ Looked = LineEnd(told.events, k) /\ Showing(k - 1)
                      /\ ev = told.events[k]
  /\ rp = "move" => IF eof THEN start = Len(buf) /\ AllShown ELSE AtLine
  /\ rp \in {"over", "closed"} => ShownIsRecorded /\ (aborted \/ broke \/ AllShown)

\* The clock does not run ahead, with what the next tick will add.
ClockOK ==
  /\ cur \in Nat /\ owed \in Nat /\ ran \in Nat /\ speed \in Speeds /\ ev.t \in Nat
  /\ cur + owed * FASTEST <= ran * FASTEST
  /\ opt.panel => speed = ONE /\ ~paused /\ cur + owed * ONE = ran * ONE
  /\ paused \in BOOLEAN
  /\ paused => cur < ONE * ev.t /\ rp \in {"wait", "over", "closed"}

On == TextOK /\ WindowOK /\ PlaceOK /\ ClockOK
ReplayInv == IF rp = "off" THEN NoReplay ELSE On

LEMMA SpeedsAre ==
  /\ Speeds \subseteq SLOWEST .. FASTEST /\ ONE \in Speeds /\ FASTEST \in Speeds
  /\ \A s \in Speeds : /\ s \in Nat \ {0} /\ s <= FASTEST
                       /\ s < FASTEST => 2 * s \in Speeds
                       /\ s > SLOWEST => s \div 2 \in Speeds
  /\ ONE \in Nat \ {0} /\ FASTEST \in Nat \ {0} /\ STEP \in Nat \ {0} /\ LAG \in Nat
<1>1. /\ Speeds \in SUBSET (SLOWEST .. FASTEST) /\ {ONE, FASTEST} \subseteq Speeds
      /\ \A s \in Speeds : /\ s < FASTEST => 2 * s \in Speeds
                           /\ s > SLOWEST => s \div 2 \in Speeds
  BY SpeedsAssumption, Zenon DEF Speeds
<1>2. /\ SLOWEST \in Nat \ {0} /\ FASTEST \in Nat \ {0} /\ ONE \in Nat \ {0}
      /\ STEP \in Nat \ {0} /\ LAG \in Nat
  BY ReplayAssumption
<1>3. \A s \in Speeds : s \in Nat \ {0} /\ s <= FASTEST
  BY <1>1, <1>2
<1> QED BY <1>1, <1>2, <1>3

LEMMA TextFacts ==
  ASSUME TextOK
  PROVE  \E left \in 0 .. Len(EventLine(told.cut)) - 1 : Laid(text, told.events, told.cut, left)
<1>1. told.events \in Seq(CastEvent) /\ told.cut \in CastEvent
  BY DEF TextOK
<1>2. PICK left \in 0 .. Len(EventLine(told.cut)) - 1 :
        text = CastText(told.events) \o SubSeq(EventLine(told.cut), 1, left)
  BY DEF TextOK
<1>3. Laid(text, told.events, told.cut, left)
  BY <1>1, <1>2, TextIsLaid
<1> QED BY <1>3

\* Where lines end in the text, in the words of the state.
LEMMA LineFacts ==
  ASSUME TextOK
  PROVE  LET n == Len(told.events)
             N == LineEnd(told.events, n)
         IN  /\ n \in Nat /\ text \in Seq(Sym) /\ Len(text) \in Nat
             /\ LineEnd(told.events, 0) = 2 /\ text[1] # "NL" /\ text[2] = "NL"
             /\ N \in Nat /\ N >= 2 /\ N <= Len(text)
             /\ \A i \in N + 1 .. Len(text) : text[i] # "NL"
             /\ Parsed(SubSeq(text, N + 1, Len(text))).ok =>
                  /\ Parsed(SubSeq(text, N + 1, Len(text))).data \in Seq(Chars)
                  /\ IsPrefix(Parsed(SubSeq(text, N + 1, Len(text))).data, told.cut.data)
             /\ \A k \in 0 .. n - 1 :
                  LET a == LineEnd(told.events, k)
                      b == LineEnd(told.events, k + 1)
                      r == Parsed(SubSeq(text, a + 1, b - 1))
                  IN  /\ a \in Nat /\ b \in a + 1 .. N /\ text[b] = "NL"
                      /\ \A i \in a + 1 .. b - 1 : text[i] # "NL"
                      /\ r.ok /\ [t |-> r.t, data |-> r.data] = told.events[k + 1]
<1>1. told.events \in Seq(CastEvent) /\ told.cut \in CastEvent
  BY DEF TextOK
<1>2. PICK left \in 0 .. Len(EventLine(told.cut)) - 1 : Laid(text, told.events, told.cut, left)
  BY TextFacts
<1>3. Len(told.events) \in Nat /\ text \in Seq(Sym) /\ Len(text) \in Nat
      /\ LineEnd(told.events, 0) = 2 /\ text[1] # "NL" /\ text[2] = "NL"
  BY <1>1, <1>2 DEF Laid
<1> DEFINE es == told.events
           n == Len(es)
           N == LineEnd(es, n)
           z == Parsed(SubSeq(text, N + 1, Len(text)))
<1>4. /\ N \in Nat /\ N >= 2 /\ N <= Len(text) /\ \A i \in N + 1 .. Len(text) : text[i] # "NL"
      /\ z.ok => z.data \in Seq(Chars) /\ IsPrefix(z.data, told.cut.data)
  BY <1>1, <1>2, <1>3, AfterLines
<1>5. ASSUME NEW k \in 0 .. n - 1
      PROVE  LET a == LineEnd(es, k)
                 b == LineEnd(es, k + 1)
                 r == Parsed(SubSeq(text, a + 1, b - 1))
             IN  /\ a \in Nat /\ b \in a + 1 .. N /\ text[b] = "NL"
                 /\ \A i \in a + 1 .. b - 1 : text[i] # "NL"
                 /\ r.ok /\ [t |-> r.t, data |-> r.data] = es[k + 1]
  BY <1>1, <1>2, <1>5, NextLine
<1> QED BY <1>3, <1>4, <1>5, Zenon

\* The buffer's symbols are the file's.
LEMMA WindowFacts ==
  ASSUME TextOK, WindowOK
  PROVE  /\ at \in Nat /\ Len(buf) \in Nat /\ start \in Nat /\ Len(text) \in Nat
         /\ start <= Len(buf) /\ Len(buf) <= at /\ at <= Len(text)
         /\ Looked \in Nat /\ Looked <= at /\ Looked = at - Len(buf) + start
<1>1. Len(text) \in Nat
  BY LineFacts
<1>2. /\ at \in 0 .. Len(text) /\ buf \in Seq(Sym) /\ Len(buf) <= at /\ start \in 0 .. Len(buf)
  BY DEF WindowOK
<1>3. Len(buf) \in Nat
  BY <1>2
<1> QED BY <1>1, <1>2, <1>3 DEF Looked

LEMMA WindowPart ==
  ASSUME TextOK, WindowOK, NEW j \in start .. Len(buf)
  PROVE  /\ Looked + (j - start) \in Looked .. at
         /\ SubSeq(buf, start + 1, j) = SubSeq(text, Looked + 1, Looked + (j - start))
         /\ \A i \in start + 1 .. j : buf[i] = text[Looked + (i - start)]
<1> DEFINE p == at - Len(buf)
           q == Looked + (j - start)
           u == SubSeq(buf, start + 1, j)
           v == SubSeq(text, Looked + 1, q)
<1>1. /\ at \in Nat /\ Len(buf) \in Nat /\ start \in Nat /\ Len(text) \in Nat
      /\ start <= Len(buf) /\ Len(buf) <= at /\ at <= Len(text)
      /\ Looked \in Nat /\ Looked = p + start
  BY WindowFacts
<1>2. \A i \in 1 .. Len(buf) : buf[i] = text[p + i]
  BY DEF WindowOK
<1>3. p \in Nat /\ j \in Nat /\ start <= j /\ j <= Len(buf)
  BY <1>1
<1> HIDE DEF p
<1>4. q = p + j /\ q \in Looked .. at /\ q \in Nat
  <2>1. p + Len(buf) = at
    BY <1>1 DEF p
  <2> QED BY <1>1, <1>3, <2>1
<1>5. \A i \in start + 1 .. j : buf[i] = text[Looked + (i - start)]
  <2> TAKE i \in start + 1 .. j
  <2>1. i \in 1 .. Len(buf) /\ Looked + (i - start) = p + i
    BY <1>1, <1>3
  <2> QED BY <1>2, <2>1
<1>6. /\ u \in Seq(Sym) /\ Len(u) = j - start
      /\ \A i \in 1 .. j - start : u[i] = buf[start + i]
  <2>1. buf \in Seq(Sym) /\ start + 1 \in 1 .. Len(buf) + 1 /\ j \in (start + 1) - 1 .. Len(buf)
    BY <1>1, <1>3 DEF WindowOK
  <2>2. /\ u \in Seq(Sym) /\ Len(u) = j - (start + 1) + 1
        /\ \A i \in 1 .. j - (start + 1) + 1 : u[i] = buf[(start + 1) + i - 1]
    BY <2>1, PartIs
  <2> HIDE DEF u
  <2>3. j - (start + 1) + 1 = j - start /\ \A i \in 1 .. j - start : (start + 1) + i - 1 = start + i
    BY <1>1, <1>3
  <2> QED BY <2>2, <2>3
<1> HIDE DEF q
<1>7. /\ v \in Seq(Sym) /\ Len(v) = j - start
      /\ \A i \in 1 .. j - start : v[i] = text[Looked + i]
  <2>1. text \in Seq(Sym) /\ Looked + 1 \in 1 .. Len(text) + 1 /\ q \in (Looked + 1) - 1 .. Len(text)
    BY <1>1, <1>4, LineFacts
  <2>2. /\ v \in Seq(Sym) /\ Len(v) = q - (Looked + 1) + 1
        /\ \A i \in 1 .. q - (Looked + 1) + 1 : v[i] = text[(Looked + 1) + i - 1]
    BY <2>1, PartIs
  <2> HIDE DEF v
  <2>3. q - (Looked + 1) + 1 = j - start
    BY <1>1, <1>3, <1>4
  <2>4. \A i \in 1 .. j - start : (Looked + 1) + i - 1 = Looked + i
    BY <1>1
  <2> QED BY <2>2, <2>3, <2>4
<1> HIDE DEF u, v
<1>8. \A i \in 1 .. j - start : u[i] = v[i]
  <2> TAKE i \in 1 .. j - start
  <2>1. start + i \in start + 1 .. j /\ Looked + ((start + i) - start) = Looked + i
    BY <1>1, <1>3
  <2> QED BY <1>5, <1>6, <1>7, <2>1
<1>9. u = v
  BY <1>6, <1>7, <1>8, SeqEqual
<1> QED BY <1>4, <1>5, <1>9 DEF u, v, q

\* The first newline found ends the header's line, or the next event's.
LEMMA FoundLine ==
  ASSUME TextOK, WindowOK, AtLine, NEW i \in start + 1 .. Len(buf), buf[i] = "NL",
         \A j \in start + 1 .. i - 1 : buf[j] # "NL"
  PROVE  LET r == Parsed(SubSeq(buf, start + 1, i - 1))
             q == at - Len(buf) + i
         IN  \/ ~r.ok /\ q = LineEnd(told.events, 0) /\ Showing(0)
             \/ \E k \in 1 .. Len(told.events) :
                  /\ q = LineEnd(told.events, k) /\ Showing(k - 1)
                  /\ r.ok /\ [t |-> r.t, data |-> r.data] = told.events[k]
<1> DEFINE z == SubSeq(buf, start + 1, i - 1)
           r == Parsed(z)
           q == at - Len(buf) + i
           n == Len(told.events)
           N == LineEnd(told.events, n)
<1>1. /\ at \in Nat /\ Len(buf) \in Nat /\ start \in Nat /\ Len(text) \in Nat
      /\ start <= Len(buf) /\ Len(buf) <= at /\ at <= Len(text)
      /\ Looked \in Nat /\ Looked = at - Len(buf) + start
  BY WindowFacts
<1>2. i \in Nat /\ i - 1 \in start .. Len(buf) /\ i \in start .. Len(buf)
  BY <1>1
<1>3. q = Looked + (i - start) /\ q - 1 = Looked + ((i - 1) - start) /\ q \in Looked + 1 .. at /\ q \in Nat
  BY <1>1, <1>2
<1>4. z = SubSeq(text, Looked + 1, q - 1)
  BY <1>2, <1>3, WindowPart
<1>5. text[q] = "NL"
  <2>1. i \in start + 1 .. i
    BY <1>1, <1>2
  <2>2. buf[i] = text[Looked + (i - start)]
    BY <1>2, <2>1, WindowPart
  <2> QED BY <1>3, <2>2
<1>6. ASSUME NEW p \in Looked + 1 .. q - 1 PROVE text[p] # "NL"
  <2> DEFINE j == start + (p - Looked)
  <2>1. j \in start + 1 .. i - 1 /\ Looked + (j - start) = p
    BY <1>1, <1>2, <1>3
  <2>2. buf[j] = text[Looked + (j - start)]
    BY <1>2, <2>1, WindowPart
  <2> QED BY <2>1, <2>2
<1> HIDE DEF q, z
<1>7. ASSUME NEW b \in Nat, Looked + 1 <= b, text[b] = "NL", \A p \in Looked + 1 .. b - 1 : text[p] # "NL"
      PROVE  q = b
  <2>1. ~(b < q)
    <3> SUFFICES ASSUME b < q PROVE FALSE
      OBVIOUS
    <3>1. b \in Looked + 1 .. q - 1
      BY <1>1, <1>3, <1>7
    <3> QED BY <1>6, <1>7, <3>1
  <2>2. ~(q < b)
    <3> SUFFICES ASSUME q < b PROVE FALSE
      OBVIOUS
    <3>1. q \in Looked + 1 .. b - 1
      BY <1>1, <1>3, <1>7
    <3> QED BY <1>5, <1>7, <3>1
  <2> QED BY <1>3, <1>7, <2>1, <2>2
<1>8. /\ n \in Nat /\ LineEnd(told.events, 0) = 2 /\ text[1] # "NL" /\ text[2] = "NL"
      /\ N \in Nat /\ N >= 2 /\ \A p \in N + 1 .. Len(text) : text[p] # "NL"
  BY LineFacts
<1>9. CASE Looked = 0 /\ Showing(0)
  <2>1. q = 2
    <3>1. 2 \in Nat /\ Looked + 1 <= 2 /\ \A p \in Looked + 1 .. 2 - 1 : text[p] # "NL"
      <4>1. \A p \in Looked + 1 .. 2 - 1 : p = 1
        BY <1>9
      <4> QED BY <1>8, <1>9, <4>1
    <3> QED BY <1>7, <1>8, <3>1
  <2>2. Len(z) \in 0 .. 2
    <3>1. z = SubSeq(text, 1, 1)
      BY <1>4, <1>9, <2>1
    <3>2. text \in Seq(Sym) /\ 1 \in 1 .. Len(text) + 1 /\ 1 \in 1 - 1 .. Len(text)
      <4>1. Len(text) >= 2
        BY <1>1, <1>3, <2>1
      <4> QED BY <4>1, <1>1, LineFacts
    <3>3. Len(SubSeq(text, 1, 1)) = 1 - 1 + 1
      BY <3>2, PartIs
    <3> QED BY <3>1, <3>3
  <2>3. ~r.ok
    BY <2>2, ParsedHeader
  <2> QED BY <1>8, <1>9, <2>1, <2>3 DEF q, z
<1>10. ASSUME NEW k \in 0 .. n, Looked = LineEnd(told.events, k), Showing(k)
       PROVE  \E m \in 1 .. n : /\ q = LineEnd(told.events, m) /\ Showing(m - 1)
                                /\ r.ok /\ [t |-> r.t, data |-> r.data] = told.events[m]
  <2>1. CASE k = n
    <3>1. q \in N + 1 .. Len(text)
      BY <1>1, <1>3, <1>10, <2>1
    <3> QED BY <1>5, <1>8, <3>1
  <2>2. CASE k # n
    <3>1. k \in 0 .. n - 1 /\ k + 1 \in 1 .. n /\ (k + 1) - 1 = k
      BY <1>8, <2>2
    <3> DEFINE b == LineEnd(told.events, k + 1)
               s == Parsed(SubSeq(text, Looked + 1, b - 1))
    <3>2. /\ b \in Looked + 1 .. N /\ text[b] = "NL" /\ \A p \in Looked + 1 .. b - 1 : text[p] # "NL"
          /\ s.ok /\ [t |-> s.t, data |-> s.data] = told.events[k + 1]
      BY <1>10, <3>1, LineFacts
    <3> HIDE DEF b
    <3>3. b \in Nat /\ Looked + 1 <= b
      BY <1>1, <1>8, <3>2
    <3>4. q = b
      BY <1>7, <3>2, <3>3
    <3>5. r = s
      BY <1>4, <3>4
    <3> HIDE DEF r, s
    <3>6. r.ok /\ [t |-> r.t, data |-> r.data] = told.events[k + 1]
      BY <3>2, <3>5
    <3>7. Showing((k + 1) - 1)
      BY <1>10, <3>1
    <3> QED BY <3>1, <3>4, <3>6, <3>7 DEF b
  <2> QED BY <2>1, <2>2
<1> QED BY <1>9, <1>10 DEF AtLine, r, z, q, n

\* With no newline left at the end of the file, every event's line was seen.
LEMMA FoundEnd ==
  ASSUME TextOK, WindowOK, AtLine, NoLine, eof
  PROVE  /\ Showing(Len(told.events))
         /\ LET r == Parsed(SubSeq(buf, start + 1, Len(buf)))
            IN  r.ok => r.data \in Seq(Chars) /\ IsPrefix(r.data, told.cut.data)
<1> DEFINE n == Len(told.events)
           N == LineEnd(told.events, n)
           L == Len(buf)
           z == SubSeq(buf, start + 1, L)
<1>1. /\ at \in Nat /\ L \in Nat /\ start \in Nat /\ Len(text) \in Nat
      /\ start <= L /\ L <= at /\ at <= Len(text)
      /\ Looked \in Nat /\ Looked = at - L + start
  BY WindowFacts
<1>2. at = Len(text)
  BY DEF WindowOK
<1>3. L \in start .. Len(buf)
  BY <1>1
<1>4. /\ z = SubSeq(text, Looked + 1, Looked + (L - start))
      /\ \A i \in start + 1 .. L : buf[i] = text[Looked + (i - start)]
  BY <1>3, WindowPart
<1>5. Looked + (L - start) = Len(text)
  BY <1>1, <1>2
<1>6. ASSUME NEW p \in Looked + 1 .. Len(text) PROVE text[p] # "NL"
  <2> DEFINE j == start + (p - Looked)
  <2>1. j \in start + 1 .. L /\ Looked + (j - start) = p
    BY <1>1, <1>5
  <2>2. buf[j] # "NL"
    BY <2>1 DEF NoLine
  <2> QED BY <1>4, <2>1, <2>2
<1> HIDE DEF z, L
<1>7. /\ n \in Nat /\ text[2] = "NL" /\ N \in Nat /\ N >= 2 /\ N <= Len(text)
      /\ \A k \in 0 .. n - 1 :
           /\ LineEnd(told.events, k + 1) \in LineEnd(told.events, k) + 1 .. N
           /\ text[LineEnd(told.events, k + 1)] = "NL"
  BY LineFacts
<1>8. ~(Looked = 0 /\ Showing(0))
  <2> SUFFICES ASSUME Looked = 0 PROVE FALSE
    OBVIOUS
  <2>1. 2 \in Looked + 1 .. Len(text)
    BY <1>1, <1>7
  <2> QED BY <1>6, <1>7, <2>1
<1>9. PICK k \in 0 .. n : Looked = LineEnd(told.events, k) /\ Showing(k)
  BY <1>8 DEF AtLine
<1>10. k = n
  <2> SUFFICES ASSUME k # n PROVE FALSE
    OBVIOUS
  <2>1. k \in 0 .. n - 1
    BY <1>7
  <2> DEFINE b == LineEnd(told.events, k + 1)
  <2>2. b \in Looked + 1 .. N /\ text[b] = "NL"
    BY <1>7, <1>9, <2>1
  <2> HIDE DEF b
  <2>3. b \in Looked + 1 .. Len(text)
    BY <1>1, <1>7, <2>2
  <2> QED BY <1>6, <2>2, <2>3
<1>11. z = SubSeq(text, N + 1, Len(text))
  BY <1>4, <1>5, <1>9, <1>10
<1> DEFINE r == Parsed(z)
<1>12. r.ok => r.data \in Seq(Chars) /\ IsPrefix(r.data, told.cut.data)
  BY <1>11, LineFacts
<1>13. Showing(n)
  BY <1>9, <1>10
<1> QED BY <1>12, <1>13 DEF r, z, L, n

-----------------------------------------------------------------------------
(* Replay: the steps *)

LEMMA UptoIs ==
  ASSUME NEW a \in Nat, NEW b \in Nat
  PROVE  Upto(a, b) \in Nat /\ Upto(a, b) <= b
BY DEF Upto

LEMMA ShowingIs ==
  ASSUME TextOK, NEW k \in 0 .. Len(told.events), Showing(k)
  PROVE  ShownIsRecorded /\ (k = Len(told.events) => AllShown)
<1> DEFINE n == Len(told.events)
<1>1. n \in Nat
  BY LineFacts
<1>2. Len(shown) = k /\ \A i \in 1 .. k : shown[i] = told.events[i].data
  BY DEF Showing
<1> HIDE DEF n
<1>3. Upto(n, Len(shown)) = k
  BY <1>1, <1>2 DEF Upto, n
<1>4. Len(shown) <= n + 1 /\ ~(Len(shown) = n + 1)
  BY <1>1, <1>2 DEF n
<1>5. ShownIsRecorded
  BY <1>2, <1>3, <1>4 DEF ShownIsRecorded, n
<1>6. k = n => Len(shown) >= n
  BY <1>1, <1>2
<1> QED BY <1>5, <1>6 DEF AllShown, n

LEMMA AtLineIs ==
  ASSUME TextOK, AtLine
  PROVE  ShownIsRecorded
<1>1. Len(told.events) \in Nat
  BY LineFacts
<1>2. PICK k \in 0 .. Len(told.events) : Showing(k)
  BY <1>1 DEF AtLine
<1> QED BY <1>2, ShowingIs

LEMMA AtLineKept ==
  ASSUME AtLine, Looked' = Looked, UNCHANGED <<told, shown>>
  PROVE  AtLine'
<1>1. \A k : Showing(k)' <=> Showing(k)
  BY DEF Showing
<1>2. told' = told
  OBVIOUS
<1> QED BY <1>1, <1>2 DEF AtLine

LEMMA TextKept ==
  ASSUME TextOK, UNCHANGED <<told, text>>
  PROVE  TextOK'
BY DEF TextOK

LEMMA WindowKept ==
  ASSUME TextOK, WindowOK, UNCHANGED <<at, text, buf, eof>>, start' \in start .. Len(buf), rp' # "refill"
  PROVE  WindowOK' /\ Looked' = Looked + (start' - start)
<1>1. /\ at \in Nat /\ Len(buf) \in Nat /\ start \in Nat
  BY WindowFacts
<1>2. start' \in 0 .. Len(buf)
  BY <1>1
<1>3. WindowOK'
  BY <1>2 DEF WindowOK
<1>4. Looked' = Looked + (start' - start)
  BY <1>1, <1>2 DEF Looked
<1> QED BY <1>3, <1>4

LEMMA ClockKept ==
  ASSUME ClockOK, UNCHANGED <<cur, owed, ran, speed, ev, opt, paused>>,
         paused => rp' \in {"wait", "over", "closed"}
  PROVE  ClockOK'
BY DEF ClockOK

LEMMA NotPaused ==
  ASSUME ClockOK, rp \in {"refill", "lines", "tail", "move"}
  PROVE  ~paused
BY DEF ClockOK

LEMMA RefillInv ==
  ASSUME On, Refill
  PROVE  On'
<1>1. TextOK /\ WindowOK /\ PlaceOK /\ ClockOK /\ rp = "refill" /\ AtLine /\ start = 0 /\ start' = 0
  BY DEF On, Refill, PlaceOK, WindowOK
<1>2. TextOK' /\ ~paused
  BY <1>1, TextKept, NotPaused DEF Refill
<1>3. ClockOK'
  BY <1>1, <1>2, ClockKept DEF Refill
<1>4. /\ at \in Nat /\ Len(buf) \in Nat /\ start \in Nat /\ Len(text) \in Nat
      /\ Len(buf) <= at /\ at <= Len(text) /\ Looked = at - Len(buf) + start
      /\ buf \in Seq(Sym) /\ text \in Seq(Sym) /\ eof \in BOOLEAN
      /\ \A i \in 1 .. Len(buf) : buf[i] = text[at - Len(buf) + i]
  BY <1>1, WindowFacts, LineFacts DEF WindowOK
<1>5. UNCHANGED <<told, shown, text, aborted>> /\ ShownIsRecorded
  BY <1>1, AtLineIs DEF Refill
<1>6. ASSUME NEW n \in {Upto(m, Len(text) - at) : m \in {Upto(SHORT, CAP - Len(buf)), CAP - Len(buf)}},
             Len(buf) < CAP, at' = at + n, buf' = buf \o SubSeq(text, at + 1, at + n),
             rp' = "lines", UNCHANGED <<eof, broke>>, ~eof
      PROVE  On'
  <2> DEFINE u == SubSeq(text, at + 1, at + n)
             l == Len(buf)
  <2>1. n \in Nat /\ at + n <= Len(text)
    <3>1. CAP \in Nat /\ SHORT \in Nat
      BY ReplayAssumption
    <3> DEFINE d == Len(text) - at
               c == CAP - Len(buf)
    <3>2. d \in Nat /\ c \in Nat /\ at + d = Len(text)
      BY <1>4, <1>6, <3>1
    <3>3. n \in {Upto(m, d) : m \in {Upto(SHORT, c), c}}
      BY <1>6
    <3> HIDE DEF d, c
    <3>4. Upto(SHORT, c) \in Nat
      BY <3>1, <3>2, UptoIs
    <3>5. PICK m \in {Upto(SHORT, c), c} : n = Upto(m, d)
      BY <3>3
    <3>6. m \in Nat
      BY <3>2, <3>4
    <3>7. n \in Nat /\ n <= d
      BY <3>2, <3>5, <3>6, UptoIs
    <3> QED BY <1>4, <3>2, <3>7
  <2>2. /\ u \in Seq(Sym) /\ Len(u) = n /\ \A i \in 1 .. n : u[i] = text[at + i]
    <3>1. at + 1 \in 1 .. Len(text) + 1 /\ at + n \in (at + 1) - 1 .. Len(text)
      BY <1>4, <2>1
    <3>2. /\ u \in Seq(Sym) /\ Len(u) = (at + n) - (at + 1) + 1
          /\ \A i \in 1 .. (at + n) - (at + 1) + 1 : u[i] = text[(at + 1) + i - 1]
      BY <1>4, <3>1, PartIs
    <3> HIDE DEF u
    <3>3. (at + n) - (at + 1) + 1 = n /\ \A i \in 1 .. n : (at + 1) + i - 1 = at + i
      BY <1>4, <2>1
    <3> QED BY <3>2, <3>3
  <2>3. buf' = buf \o u
    BY <1>6
  <2> HIDE DEF u, l
  <2>4. l \in Nat /\ l <= at /\ Len(buf) = l /\ \A i \in 1 .. l : buf[i] = text[at - l + i]
    BY <1>4 DEF l
  <2>5. /\ buf' \in Seq(Sym) /\ Len(buf') = l + n
        /\ \A i \in 1 .. l + n : buf'[i] = IF i <= l THEN buf[i] ELSE u[i - l]
    <3>1. /\ buf \o u \in Seq(Sym) /\ Len(buf \o u) = Len(buf) + Len(u)
          /\ \A i \in 1 .. Len(buf) + Len(u) : (buf \o u)[i] = IF i <= Len(buf) THEN buf[i] ELSE u[i - Len(buf)]
      BY <1>4, <2>2, ConcatProperties
    <3> QED BY <2>2, <2>3, <2>4, <3>1
  <2>6. ASSUME NEW i \in 1 .. l + n PROVE buf'[i] = text[(at + n) - (l + n) + i]
    <3>1. (at + n) - (l + n) + i = at - l + i
      BY <1>4, <2>1, <2>4
    <3>2. CASE i <= l
      <4>1. i \in 1 .. l
        BY <3>2, <2>4
      <4> QED BY <2>4, <2>5, <3>1, <3>2, <4>1
    <3>3. CASE ~(i <= l)
      <4>1. i - l \in 1 .. n /\ at + (i - l) = at - l + i
        BY <1>4, <2>1, <2>4, <3>3
      <4> QED BY <2>2, <2>5, <3>1, <3>3, <4>1
    <3> QED BY <3>2, <3>3
  <2>7. at' = at + n /\ Len(buf') = l + n /\ text' = text /\ start' = 0 /\ eof' = eof /\ rp' = "lines"
    BY <1>1, <1>5, <1>6, <2>5
  <2>8. WindowOK'
    <3>1. at' \in 0 .. Len(text') /\ Len(buf') <= at' /\ start' \in 0 .. Len(buf')
      BY <1>4, <2>1, <2>4, <2>7
    <3>2. \A i \in 1 .. Len(buf') : buf'[i] = text'[at' - Len(buf') + i]
      BY <2>6, <2>7
    <3>3. eof' \in BOOLEAN /\ ~eof'
      BY <1>4, <1>6
    <3> QED BY <2>5, <2>7, <3>1, <3>2, <3>3 DEF WindowOK
  <2>9. Looked' = Looked
    BY <1>1, <1>4, <2>1, <2>4, <2>7 DEF Looked
  <2>10. AtLine'
    BY <1>1, <1>5, <2>9, AtLineKept
  <2>11. PlaceOK'
    BY <1>6, <2>10 DEF PlaceOK
  <2> QED BY <1>2, <1>3, <2>8, <2>11 DEF On
<1>7. ASSUME UNCHANGED <<at, buf>>, eof' \in BOOLEAN, eof' => at = Len(text),
             rp' = "lines" \/ (rp' = "over" /\ broke')
      PROVE  On'
  <2>1. WindowOK'
    BY <1>1, <1>5, <1>7 DEF WindowOK
  <2>2. Looked' = Looked
    BY <1>1, <1>7 DEF Looked
  <2>3. AtLine'
    BY <1>1, <1>5, <2>2, AtLineKept
  <2>4. ShownIsRecorded'
    BY <1>5 DEF ShownIsRecorded
  <2>5. PlaceOK'
    BY <1>7, <2>3, <2>4 DEF PlaceOK
  <2> QED BY <1>2, <1>3, <2>1, <2>5 DEF On
<1>8. eof => at = Len(text)
  BY <1>1 DEF WindowOK
<1>9. CASE ~eof /\ Len(buf) < CAP /\ rp' = "lines" /\ UNCHANGED <<eof, broke>>
           /\ \E n \in {Upto(m, Len(text) - at) : m \in {Upto(SHORT, CAP - Len(buf)), CAP - Len(buf)}} :
                at' = at + n /\ buf' = buf \o SubSeq(text, at + 1, at + n)
  BY <1>6, <1>9, Zenon
<1>10. CASE ~eof /\ at = Len(text) /\ eof' = TRUE /\ rp' = "lines" /\ UNCHANGED <<at, buf, broke>>
  BY <1>7, <1>10
<1>11. CASE broke' = TRUE /\ rp' = "over" /\ UNCHANGED <<at, buf, eof>>
  BY <1>4, <1>7, <1>8, <1>11
<1>12. CASE eof /\ rp' = "lines" /\ UNCHANGED <<at, buf, eof, broke>>
  BY <1>4, <1>7, <1>8, <1>12
<1> QED BY <1>9, <1>10, <1>11, <1>12, Zenon DEF Refill

LEMMA LineInv ==
  ASSUME On, Line
  PROVE  On'
<1>1. TextOK /\ WindowOK /\ PlaceOK /\ ClockOK /\ rp = "lines" /\ AtLine
  BY DEF On, Line, PlaceOK
<1>2. UNCHANGED <<opt, text, at, buf, eof, cur, owed, speed, paused, played, aborted, broke, shown, ran, told>>
  BY DEF Line
<1>3. TextOK' /\ ~paused
  BY <1>1, <1>2, TextKept, NotPaused
<1>4. /\ at \in Nat /\ Len(buf) \in Nat /\ start \in Nat /\ start <= Len(buf)
      /\ Looked = at - Len(buf) + start
  BY <1>1, WindowFacts
<1> DEFINE nl == {i \in start + 1 .. Len(buf) : buf[i] = "NL"}
<1>5. CASE nl = {} /\ rp' = "tail" /\ UNCHANGED <<start, ev>>
  <2>1. start' \in start .. Len(buf) /\ start' - start = 0 /\ Looked + 0 = Looked
    BY <1>4, <1>5
  <2>2. WindowOK' /\ Looked' = Looked
    BY <1>1, <1>2, <1>5, <2>1, WindowKept
  <2>3. AtLine'
    BY <1>1, <1>2, <2>2, AtLineKept
  <2>4. NoLine'
    BY <1>2, <1>5 DEF NoLine
  <2>5. PlaceOK'
    BY <1>5, <2>3, <2>4 DEF PlaceOK
  <2>6. ClockOK'
    BY <1>1, <1>2, <1>3, <1>5, ClockKept
  <2> QED BY <1>3, <2>2, <2>5, <2>6 DEF On
<1>6. ASSUME NEW i \in nl, \A j \in nl : i <= j, start' = i,
             IF Parsed(SubSeq(buf, start + 1, i - 1)).ok
             THEN rp' = "wait" /\ ev' = [t |-> Parsed(SubSeq(buf, start + 1, i - 1)).t,
                                         data |-> Parsed(SubSeq(buf, start + 1, i - 1)).data]
             ELSE UNCHANGED <<rp, ev>>
      PROVE  On'
  <2> DEFINE r == Parsed(SubSeq(buf, start + 1, i - 1))
             q == at - Len(buf) + i
             n == Len(told.events)
  <2>1. i \in start + 1 .. Len(buf) /\ buf[i] = "NL" /\ i \in Nat
    BY <1>4, <1>6
  <2>2. ASSUME NEW j \in start + 1 .. i - 1 PROVE buf[j] # "NL"
    <3>1. j \in start + 1 .. Len(buf) /\ ~(i <= j)
      BY <1>4, <2>1
    <3> QED BY <1>6, <3>1
  <2>3. \/ ~r.ok /\ q = LineEnd(told.events, 0) /\ Showing(0)
        \/ \E k \in 1 .. n : /\ q = LineEnd(told.events, k) /\ Showing(k - 1)
                             /\ r.ok /\ [t |-> r.t, data |-> r.data] = told.events[k]
    BY <1>1, <2>1, <2>2, FoundLine
  <2> HIDE DEF r, n
  <2>4. start' \in start .. Len(buf) /\ rp' # "refill"
    BY <1>1, <1>4, <1>6, <2>1
  <2>5. WindowOK' /\ Looked' = q
    <3>1. WindowOK' /\ Looked' = Looked + (start' - start)
      BY <1>1, <1>2, <2>4, WindowKept
    <3>2. Looked + (start' - start) = q
      BY <1>4, <1>6, <2>1
    <3> QED BY <3>1, <3>2
  <2> HIDE DEF q
  <2>6. \A k : Showing(k)' <=> Showing(k)
    BY <1>2 DEF Showing
  <2>7. n \in Nat /\ told' = told
    BY <1>1, <1>2, LineFacts DEF n
  <2>8. CASE ~r.ok /\ q = LineEnd(told.events, 0) /\ Showing(0)
    <3>1. rp' = "lines" /\ ev' = ev
      BY <1>1, <1>6, <2>8 DEF r
    <3>2. AtLine'
      <4>1. Looked' = LineEnd(told'.events, 0) /\ Showing(0)'
        BY <2>5, <2>6, <2>7, <2>8
      <4>2. 0 \in 0 .. Len(told'.events)
        BY <2>7 DEF n
      <4> QED BY <4>1, <4>2 DEF AtLine
    <3>3. PlaceOK'
      BY <3>1, <3>2 DEF PlaceOK
    <3>4. ClockOK'
      BY <1>1, <1>2, <1>3, <3>1, ClockKept
    <3> QED BY <1>3, <2>5, <3>3, <3>4 DEF On
  <2>9. ASSUME NEW k \in 1 .. n, q = LineEnd(told.events, k), Showing(k - 1),
               r.ok, [t |-> r.t, data |-> r.data] = told.events[k]
        PROVE  On'
    <3>1. rp' = "wait" /\ ev' = told.events[k]
      BY <1>6, <2>9 DEF r
    <3>2. k \in 1 .. Len(told'.events) /\ Looked' = LineEnd(told'.events, k) /\ Showing(k - 1)'
          /\ ev' = told'.events[k]
      BY <2>5, <2>6, <2>7, <2>9, <3>1 DEF n
    <3>3. PlaceOK'
      BY <3>1, <3>2 DEF PlaceOK
    <3>4. ev'.t \in Nat
      <4>1. told.events[k] \in CastEvent
        BY <1>1 DEF TextOK, n
      <4>2. told.events[k].t \in Nat
        <5> DEFINE e == told.events[k]
        <5>1. e \in CastEvent
          BY <4>1
        <5> HIDE DEF e
        <5>2. e.t \in Nat
          BY <5>1 DEF CastEvent
        <5> QED BY <5>2 DEF e
      <4> QED BY <3>1, <4>2
    <3>5. ClockOK'
      BY <1>1, <1>2, <1>3, <3>4 DEF ClockOK
    <3> QED BY <1>3, <2>5, <3>3, <3>5 DEF On
  <2> QED BY <2>3, <2>8, <2>9
<1> QED BY <1>5, <1>6 DEF Line

LEMMA ShownKept ==
  ASSUME ShownIsRecorded, UNCHANGED <<told, shown>>
  PROVE  ShownIsRecorded'
BY DEF ShownIsRecorded

LEMMA WindowSame ==
  ASSUME WindowOK, UNCHANGED <<at, text, buf, start, eof>>, rp' # "refill"
  PROVE  WindowOK' /\ Looked' = Looked
BY DEF WindowOK, Looked

\* In wait every event before the one at hand was shown.
LEMMA WaitIs ==
  ASSUME On, rp = "wait"
  PROVE  /\ TextOK /\ WindowOK /\ ClockOK /\ ShownIsRecorded
         /\ \E k \in 1 .. Len(told.events) :
              Looked = LineEnd(told.events, k) /\ Showing(k - 1) /\ ev = told.events[k]
<1>1. TextOK /\ WindowOK /\ ClockOK
  BY DEF On
<1>2. PICK k \in 1 .. Len(told.events) :
        Looked = LineEnd(told.events, k) /\ Showing(k - 1) /\ ev = told.events[k]
  BY DEF On, PlaceOK
<1>3. k - 1 \in 0 .. Len(told.events)
  BY <1>1, LineFacts
<1> QED BY <1>1, <1>2, <1>3, ShowingIs

LEMMA AbortInv ==
  ASSUME On, Abort
  PROVE  On'
<1>1. rp = "wait" /\ rp' = "over" /\ aborted'
  BY DEF Abort
<1>2. TextOK /\ WindowOK /\ ClockOK /\ ShownIsRecorded
  BY <1>1, WaitIs
<1>3. TextOK' /\ WindowOK' /\ ClockOK' /\ ShownIsRecorded'
  BY <1>1, <1>2, TextKept, WindowSame, ClockKept, ShownKept DEF Abort
<1>4. PlaceOK'
  BY <1>1, <1>3 DEF PlaceOK
<1> QED BY <1>3, <1>4 DEF On

\* A clock that runs at speed s for z more units.
LEMMA Runs ==
  ASSUME NEW c \in Nat, NEW o \in Nat, NEW r \in Nat, NEW f \in Nat, NEW s \in Nat, NEW z \in Nat,
         s <= f, c + o * f <= r * f
  PROVE  /\ c + (o + z) * s \in Nat /\ c + (o + z) * s <= (r + z) * f
         /\ c + (o + z) * f <= (r + z) * f
<1>1. (o + z) * s \in Nat /\ (o + z) * f \in Nat /\ o * f \in Nat /\ z * f \in Nat /\ r * f \in Nat
  OBVIOUS
<1>2. (o + z) * f = o * f + z * f /\ (r + z) * f = r * f + z * f
  OBVIOUS
<1>3. (o + z) * s <= (o + z) * f
  <2> DEFINE y == o + z
             d == f - s
  <2>1. y \in Nat /\ d \in Nat /\ f = s + d
    OBVIOUS
  <2> HIDE DEF y, d
  <2>2. y * f = y * s + y * d /\ y * d \in Nat /\ y * s \in Nat
    BY <2>1
  <2>3. y * s <= y * f
    BY <2>1, <2>2
  <2> QED BY <2>3 DEF y
<1> QED BY <1>1, <1>2, <1>3

LEMMA RunsAt ==
  ASSUME NEW c \in Nat, NEW o \in Nat, NEW r \in Nat, NEW s \in Nat, NEW z \in Nat,
         c + o * s = r * s
  PROVE  c + (o + z) * s = (r + z) * s
<1>1. o * s \in Nat /\ z * s \in Nat /\ r * s \in Nat
  OBVIOUS
<1>2. (o + z) * s = o * s + z * s /\ (r + z) * s = r * s + z * s
  OBVIOUS
<1> QED BY <1>1, <1>2

LEMMA TickInv ==
  ASSUME On, Tick
  PROVE  On'
<1> DEFINE step == IF paused' THEN STEP ELSE Upto(STEP, (ONE * ev.t - cur) \div speed' + 1)
<1>1. /\ rp = "wait" /\ rp' = "wait" /\ Early /\ Keyed /\ owed' = 0
      /\ UNCHANGED <<opt, text, at, buf, start, eof, ev, played, aborted, broke, shown, told>>
      /\ \E slept \in {step, step + LAG} :
           IF paused' THEN UNCHANGED <<cur, ran>>
           ELSE cur' = cur + (owed + slept) * speed' /\ ran' = ran + slept
  BY DEF Tick
<1>2. /\ TextOK /\ WindowOK /\ ClockOK
      /\ \E k \in 1 .. Len(told.events) :
           Looked = LineEnd(told.events, k) /\ Showing(k - 1) /\ ev = told.events[k]
  BY <1>1, WaitIs
<1>3. TextOK' /\ WindowOK' /\ Looked' = Looked
  BY <1>1, <1>2, TextKept, WindowSame
<1>4. PlaceOK'
  <2>1. \A k : Showing(k)' <=> Showing(k)
    BY <1>1 DEF Showing
  <2>2. \E k \in 1 .. Len(told'.events) :
          Looked' = LineEnd(told'.events, k) /\ Showing(k - 1)' /\ ev' = told'.events[k]
    BY <1>1, <1>2, <1>3, <2>1
  <2> QED BY <1>1, <2>2 DEF PlaceOK
<1>5. /\ cur \in Nat /\ owed \in Nat /\ ran \in Nat /\ speed \in Speeds /\ ev.t \in Nat
      /\ cur + owed * FASTEST <= ran * FASTEST
      /\ (opt.panel => speed = ONE /\ ~paused /\ cur + owed * ONE = ran * ONE)
      /\ paused \in BOOLEAN /\ (paused => cur < ONE * ev.t)
  BY <1>2 DEF ClockOK
<1>6. /\ speed' \in Speeds /\ paused' \in BOOLEAN
      /\ opt.panel => speed' = speed /\ paused' = paused
  BY <1>1, <1>5, SpeedsAre DEF Keyed
<1>7. speed' \in Nat \ {0} /\ speed' <= FASTEST /\ ONE \in Nat /\ FASTEST \in Nat /\ STEP \in Nat /\ LAG \in Nat
  BY <1>6, SpeedsAre
<1>8. cur < ONE * ev.t
  BY <1>1, <1>5 DEF Early
<1>9. CASE paused'
  <2>1. cur' = cur /\ ran' = ran /\ owed' = 0 /\ opt' = opt /\ ev' = ev
    BY <1>1, <1>9
  <2>2. ~opt.panel
    BY <1>5, <1>6, <1>9
  <2>3. cur' + owed' * FASTEST <= ran' * FASTEST
    <3>1. owed * FASTEST \in Nat /\ ran * FASTEST \in Int /\ 0 * FASTEST = 0
      BY <1>5, <1>7
    <3> QED BY <1>5, <2>1, <3>1
  <2>4. ClockOK'
    BY <1>1, <1>5, <1>6, <1>8, <2>1, <2>2, <2>3 DEF ClockOK
  <2> QED BY <1>3, <1>4, <2>4 DEF On
<1>10. CASE ~paused'
  <2>1. step \in Nat
    <3> DEFINE a == ONE * ev.t - cur
               s == speed'
    <3>1. a \in Nat /\ s \in Nat \ {0}
      <4>1. ONE * ev.t \in Nat
        BY <1>5, <1>7
      <4> QED BY <1>5, <1>7, <1>8, <4>1
    <3> HIDE DEF a, s
    <3>2. a \div s \in Nat
      BY <3>1, DivIs
    <3> DEFINE y == a \div s + 1
    <3>4. y \in Nat
      BY <3>2
    <3> HIDE DEF y
    <3>5. Upto(STEP, y) \in Nat
      BY <1>7, <3>4, UptoIs
    <3>3. Upto(STEP, a \div s + 1) \in Nat
      BY <3>5 DEF y
    <3> QED BY <1>10, <3>3 DEF a, s
  <2> HIDE DEF step
  <2>2. PICK z \in {step, step + LAG} : cur' = cur + (owed + z) * speed' /\ ran' = ran + z
    BY <1>1, <1>10
  <2>3. z \in Nat
    BY <1>7, <2>1
  <2>4. cur' \in Nat /\ cur' <= ran' * FASTEST
    BY <1>5, <1>7, <2>2, <2>3, Runs
  <2>5. ran' \in Nat /\ owed' = 0
    BY <1>1, <1>5, <2>2, <2>3
  <2>6. cur' + owed' * FASTEST <= ran' * FASTEST /\ cur' + owed' * ONE = cur'
    <3>1. 0 * FASTEST = 0 /\ 0 * ONE = 0
      BY <1>7
    <3>2. cur' + owed' * FASTEST = cur' /\ cur' + owed' * ONE = cur'
      BY <2>4, <2>5, <3>1
    <3> QED BY <2>4, <3>2
  <2>7. opt.panel => speed' = ONE /\ cur' = ran' * ONE
    BY <1>5, <1>6, <1>7, <2>2, <2>3, RunsAt
  <2>8. ClockOK'
    BY <1>1, <1>5, <1>6, <1>10, <2>4, <2>5, <2>6, <2>7 DEF ClockOK
  <2> QED BY <1>3, <1>4, <2>8 DEF On
<1> QED BY <1>9, <1>10

LEMMA ShowInv ==
  ASSUME On, Show
  PROVE  On'
<1>1. /\ rp = "wait" /\ rp' = "lines" /\ ~Early /\ ev' = NoEvent
      /\ shown' = IF ev.data = <<>> THEN shown ELSE Append(shown, ev.data)
      /\ \E late \in {0, LAG} : owed' = owed + late /\ ran' = ran + late
      /\ UNCHANGED <<opt, text, at, buf, start, eof, cur, speed, paused, aborted, broke, told>>
  BY DEF Show
<1>2. TextOK /\ WindowOK /\ ClockOK
  BY <1>1, WaitIs
<1>3. PICK k \in 1 .. Len(told.events) :
        Looked = LineEnd(told.events, k) /\ Showing(k - 1) /\ ev = told.events[k]
  BY <1>1, WaitIs
<1>4. TextOK' /\ WindowOK' /\ Looked' = Looked
  BY <1>1, <1>2, TextKept, WindowSame
<1>5. Len(told.events) \in Nat /\ k \in Nat
  BY <1>2, LineFacts
<1>6. Showing(k)'
  <2> DEFINE x == ev.data
  <2>1. x \in Seq(Chars) /\ x # <<>>
    <3>1. told.events[k] \in CastEvent /\ told.events[k].data # <<>>
      BY <1>2 DEF TextOK
    <3> QED BY <1>3, <3>1 DEF CastEvent
  <2>2. shown' = Append(shown, x) /\ told' = told
    BY <1>1, <2>1
  <2>3. shown \in Seq(Seq(Chars)) /\ Len(shown) = k - 1 /\ \A i \in 1 .. k - 1 : shown[i] = told.events[i].data
    BY <1>3 DEF Showing
  <2>4. x = told.events[k].data
    BY <1>3
  <2> HIDE DEF x
  <2>5. shown' \in Seq(Seq(Chars)) /\ Len(shown') = k
    BY <1>5, <2>1, <2>2, <2>3
  <2>6. \A i \in 1 .. k : shown'[i] = told'.events[i].data
    BY <1>5, <2>1, <2>2, <2>3, <2>4
  <2> QED BY <2>5, <2>6 DEF Showing
<1>7. PlaceOK'
  <2>1. k \in 0 .. Len(told'.events) /\ Looked' = LineEnd(told'.events, k)
    BY <1>1, <1>3, <1>4, <1>5
  <2>2. AtLine'
    BY <1>6, <2>1 DEF AtLine
  <2> QED BY <1>1, <2>2 DEF PlaceOK
<1>8. ClockOK'
  <2>1. /\ cur \in Nat /\ owed \in Nat /\ ran \in Nat /\ speed \in Speeds
        /\ cur + owed * FASTEST <= ran * FASTEST /\ paused \in BOOLEAN
        /\ (opt.panel => speed = ONE /\ cur + owed * ONE = ran * ONE)
    BY <1>2 DEF ClockOK
  <2>2. ~paused
    BY <1>1 DEF Early
  <2>3. ONE \in Nat /\ FASTEST \in Nat /\ LAG \in Nat
    BY SpeedsAre
  <2>4. PICK z \in {0, LAG} : owed' = owed + z /\ ran' = ran + z
    BY <1>1
  <2>5. z \in Nat
    BY <2>3
  <2>6. owed' \in Nat /\ ran' \in Nat
    BY <2>1, <2>4, <2>5
  <2>7. cur + owed' * FASTEST <= ran' * FASTEST
    BY <2>1, <2>3, <2>4, <2>5, Runs
  <2>8. opt.panel => cur + owed' * ONE = ran' * ONE
    BY <2>1, <2>3, <2>4, <2>5, RunsAt
  <2>9. ev'.t = 0
    BY <1>1 DEF NoEvent
  <2> QED BY <1>1, <2>1, <2>2, <2>6, <2>7, <2>8, <2>9 DEF ClockOK
<1> QED BY <1>4, <1>7, <1>8 DEF On

\* A part of a picture is shown after all the others.
LEMMA PartShown ==
  ASSUME TextOK, Showing(Len(told.events)), NEW x \in Seq(Chars), IsPrefix(x, told.cut.data),
         shown' = Append(shown, x), told' = told
  PROVE  AllShown'
<1> DEFINE n == Len(told.events)
<1>1. n \in Nat
  BY LineFacts
<1>2. shown \in Seq(Seq(Chars)) /\ Len(shown) = n /\ \A i \in 1 .. n : shown[i] = told.events[i].data
  BY DEF Showing
<1> HIDE DEF n
<1>3. /\ Len(shown') = n + 1 /\ shown'[n + 1] = x
      /\ \A i \in 1 .. n : shown'[i] = told.events[i].data
  BY <1>1, <1>2
<1>4. Upto(n, Len(shown')) = n
  BY <1>1, <1>3 DEF Upto
<1>5. Len(shown') <= n + 1 /\ Len(shown') >= n
  BY <1>1, <1>3
<1>6. ShownIsRecorded'
  <2>1. n = Len(told'.events) /\ told' = told
    BY DEF n
  <2>2. \A k \in 1 .. Upto(n, Len(shown')) : shown'[k] = told'.events[k].data
    BY <1>3, <1>4
  <2>3. Len(shown') = n + 1 => IsPrefix(shown'[n + 1], told'.cut.data)
    BY <1>3
  <2>4. Len(shown') <= n + 1
    BY <1>5
  <2> QED BY <2>1, <2>2, <2>3, <2>4 DEF ShownIsRecorded
<1> QED BY <1>5, <1>6 DEF AllShown, n

LEMMA LastLineInv ==
  ASSUME On, LastLine
  PROVE  On'
<1>1. TextOK /\ WindowOK /\ ClockOK /\ rp = "tail" /\ AtLine /\ NoLine /\ rp' = "move"
  BY DEF On, LastLine, PlaceOK
<1>2. UNCHANGED <<opt, text, at, buf, eof, ev, cur, owed, speed, paused, aborted, broke, ran, told>>
  BY DEF LastLine
<1>3. TextOK' /\ ClockOK'
  BY <1>1, <1>2, TextKept, NotPaused, ClockKept
<1>4. /\ start \in Nat /\ Len(buf) \in Nat /\ start <= Len(buf)
  BY <1>1, WindowFacts
<1>5. CASE ~eof
  <2>1. UNCHANGED <<shown, start>>
    BY <1>5 DEF LastLine
  <2>2. WindowOK' /\ Looked' = Looked
    BY <1>1, <1>2, <2>1, WindowSame
  <2>3. AtLine'
    BY <1>1, <1>2, <2>1, <2>2, AtLineKept
  <2>4. PlaceOK'
    BY <1>1, <1>2, <1>5, <2>3 DEF PlaceOK
  <2> QED BY <1>3, <2>2, <2>4 DEF On
<1>6. CASE eof
  <2> DEFINE r == Parsed(SubSeq(buf, start + 1, Len(buf)))
  <2>1. /\ Showing(Len(told.events))
        /\ r.ok => r.data \in Seq(Chars) /\ IsPrefix(r.data, told.cut.data)
    BY <1>1, <1>6, FoundEnd
  <2>2. start' = Len(buf) /\ (shown' = shown \/ (r.ok /\ shown' = Append(shown, r.data)))
    <3>1. CASE start < Len(buf)
      BY <1>6, <3>1 DEF LastLine
    <3>2. CASE ~(start < Len(buf))
      <4>1. UNCHANGED <<shown, start>>
        BY <3>2 DEF LastLine
      <4>2. start = Len(buf)
        BY <1>4, <3>2
      <4> QED BY <4>1, <4>2
    <3> QED BY <3>1, <3>2
  <2> HIDE DEF r
  <2>3. start' \in start .. Len(buf)
    BY <1>4, <2>2
  <2>4. WindowOK'
    BY <1>1, <1>2, <2>3, WindowKept
  <2>5. AllShown'
    <3>1. CASE shown' = shown
      <4>1. Len(told.events) \in 0 .. Len(told.events)
        BY <1>1, LineFacts
      <4>2. AllShown
        BY <1>1, <2>1, <4>1, ShowingIs
      <4> QED BY <1>2, <3>1, <4>2, ShownKept DEF AllShown
    <3>2. CASE r.ok /\ shown' = Append(shown, r.data)
      BY <1>1, <1>2, <2>1, <3>2, PartShown
    <3> QED BY <2>2, <3>1, <3>2
  <2>6. PlaceOK'
    BY <1>1, <1>2, <1>6, <2>2, <2>5 DEF PlaceOK
  <2> QED BY <1>3, <2>4, <2>6 DEF On
<1>7. eof \in BOOLEAN
  BY <1>1 DEF WindowOK
<1> QED BY <1>5, <1>6

LEMMA TurnInv ==
  ASSUME On, Turn
  PROVE  On'
<1>1. /\ TextOK /\ WindowOK /\ ClockOK /\ rp = "move"
      /\ IF eof THEN start = Len(buf) /\ AllShown ELSE AtLine
  BY DEF On, Turn, PlaceOK
<1>2. /\ UNCHANGED <<opt, text, ev, speed, paused, played, aborted, told>>
      /\ buf' = SubSeq(buf, start + 1, Len(buf)) /\ start' = 0
  BY DEF Turn, Moved
<1>3. TextOK' /\ ~paused
  BY <1>1, <1>2, TextKept, NotPaused
<1>4. /\ at \in Nat /\ Len(buf) \in Nat /\ start \in Nat /\ Len(text) \in Nat
      /\ start <= Len(buf) /\ Len(buf) <= at /\ at <= Len(text) /\ Looked = at - Len(buf) + start
  BY <1>1, WindowFacts
<1>5. /\ buf \in Seq(Sym) /\ (eof => at = Len(text)) /\ eof \in BOOLEAN
      /\ \A i \in 1 .. Len(buf) : buf[i] = text[at - Len(buf) + i]
  BY <1>1 DEF WindowOK
<1> DEFINE l == Len(buf)
<1>6. /\ buf' \in Seq(Sym) /\ Len(buf') = l - start /\ l - start \in Nat
      /\ \A i \in 1 .. l - start : buf'[i] = buf[start + i]
  <2>1. start + 1 \in 1 .. Len(buf) + 1 /\ l \in (start + 1) - 1 .. Len(buf)
    BY <1>4
  <2>2. /\ buf' \in Seq(Sym) /\ Len(buf') = l - (start + 1) + 1
        /\ \A i \in 1 .. l - (start + 1) + 1 : buf'[i] = buf[(start + 1) + i - 1]
    BY <1>2, <1>5, <2>1, PartIs
  <2>3. l - (start + 1) + 1 = l - start /\ \A i \in 1 .. l - start : (start + 1) + i - 1 = start + i
    BY <1>4
  <2>4. l - start \in Nat
    BY <1>4
  <2> HIDE DEF l
  <2> QED BY <2>2, <2>3, <2>4
<1>7. ShownIsRecorded
  BY <1>1, AtLineIs DEF AllShown
<1>8. ASSUME UNCHANGED <<at, eof, cur, owed, ran, shown>>
      PROVE  WindowOK' /\ Looked' = Looked /\ ClockOK'
  <2>1. \A i \in 1 .. Len(buf') : buf'[i] = text'[at' - Len(buf') + i]
    <3> TAKE i \in 1 .. Len(buf')
    <3>1. i \in 1 .. l - start /\ start + i \in 1 .. Len(buf)
          /\ at - Len(buf) + (start + i) = at - (l - start) + i
      BY <1>4, <1>6
    <3>2. buf'[i] = text[at - Len(buf) + (start + i)]
      BY <1>5, <1>6, <3>1
    <3> QED BY <1>2, <1>6, <1>8, <3>1, <3>2
  <2>2. /\ at' \in 0 .. Len(text') /\ Len(buf') <= at' /\ start' \in 0 .. Len(buf')
    BY <1>2, <1>4, <1>6, <1>8
  <2>3. WindowOK'
    BY <1>2, <1>5, <1>6, <1>8, <2>1, <2>2 DEF WindowOK
  <2>4. Looked' = Looked
    <3>1. at' = at /\ Len(buf') = Len(buf) - start /\ start' = 0
      BY <1>2, <1>6, <1>8
    <3> QED BY <1>4, <3>1 DEF Looked
  <2>5. ClockOK'
    BY <1>1, <1>2, <1>3, <1>8, ClockKept
  <2> QED BY <2>3, <2>4, <2>5
<1>9. ASSUME rp' = "over", UNCHANGED <<at, eof, cur, owed, ran, shown>>, broke' \/ (eof /\ UNCHANGED broke)
      PROVE  On'
  <2>1. ShownIsRecorded'
    BY <1>2, <1>7, <1>9, ShownKept
  <2>2. broke' \/ AllShown'
    BY <1>1, <1>2, <1>9, <2>1 DEF AllShown
  <2>3. PlaceOK'
    BY <1>9, <2>1, <2>2 DEF PlaceOK
  <2> QED BY <1>3, <1>8, <1>9, <2>3 DEF On
<1>10. CASE eof /\ buf' = <<>> /\ rp' = "refill" /\ at' = 0 /\ eof' = FALSE
            /\ cur' = 0 /\ owed' = 0 /\ ran' = 0 /\ shown' = <<>>
  <2>1. Len(buf') = 0
    BY <1>10
  <2>2. WindowOK'
    <3>1. at' \in 0 .. Len(text') /\ Len(buf') <= at' /\ start' \in 0 .. Len(buf')
      BY <1>2, <1>4, <1>10, <2>1
    <3>2. 1 .. Len(buf') = {}
      BY <2>1
    <3> QED BY <1>2, <1>6, <1>10, <3>1, <3>2 DEF WindowOK
  <2>3. Looked' = 0
    <3>1. at' = 0 /\ start' = 0 /\ 0 - 0 + 0 = 0
      BY <1>2, <1>10
    <3> QED BY <2>1, <3>1 DEF Looked
  <2>4. Showing(0)'
    BY <1>10 DEF Showing
  <2>5. AtLine'
    BY <2>3, <2>4 DEF AtLine
  <2>6. PlaceOK'
    BY <1>10, <2>5 DEF PlaceOK
  <2>7. ClockOK'
    <3>1. 0 * FASTEST = 0 /\ 0 * ONE = 0
      BY SpeedsAre
    <3> QED BY <1>1, <1>2, <1>3, <1>10, <3>1 DEF ClockOK
  <2> QED BY <1>3, <2>2, <2>6, <2>7 DEF On
<1>11. CASE eof /\ buf' = <<>> /\ rp' = "over" /\ broke' = TRUE /\ UNCHANGED <<at, eof, cur, owed, ran, shown>>
  BY <1>9, <1>11
<1>12. CASE eof /\ buf' = <<>> /\ rp' = "over" /\ UNCHANGED <<at, eof, cur, owed, ran, shown, broke>>
  BY <1>9, <1>12
<1>13. CASE rp' = "over" /\ broke' = TRUE /\ UNCHANGED <<at, eof, cur, owed, ran, shown>>
  BY <1>9, <1>13
<1>14. CASE ~(eof /\ buf' = <<>>) /\ rp' = "refill" /\ UNCHANGED <<at, eof, cur, owed, ran, shown, broke>>
  <2>1. ~eof
    <3> SUFFICES ASSUME eof PROVE FALSE
      OBVIOUS
    <3>1. Len(buf') = 0
      BY <1>1, <1>4, <1>6
    <3>2. buf' = <<>>
      BY <1>6, <3>1, EmptySeq
    <3> QED BY <1>14, <3>2
  <2>2. AtLine'
    BY <1>1, <1>2, <1>8, <1>14, <2>1, AtLineKept
  <2>3. PlaceOK'
    BY <1>14, <2>2 DEF PlaceOK
  <2> QED BY <1>3, <1>8, <1>14, <2>3 DEF On
<1>15. \/ /\ eof /\ buf' = <<>>
          /\ \/ /\ rp' = "refill" /\ at' = 0 /\ eof' = FALSE
                /\ cur' = 0 /\ owed' = 0 /\ ran' = 0 /\ shown' = <<>>
             \/ rp' = "over" /\ broke' = TRUE /\ UNCHANGED <<at, eof, cur, owed, ran, shown>>
       \/ eof /\ buf' = <<>> /\ rp' = "over" /\ UNCHANGED <<at, eof, cur, owed, ran, shown, broke>>
       \/ rp' = "over" /\ broke' = TRUE /\ UNCHANGED <<at, eof, cur, owed, ran, shown>>
       \/ ~(eof /\ buf' = <<>>) /\ rp' = "refill" /\ UNCHANGED <<at, eof, cur, owed, ran, shown, broke>>
  BY Zenon DEF Turn
<1> QED BY <1>10, <1>11, <1>12, <1>13, <1>14, <1>15, Zenon

LEMMA ReturnedInv ==
  ASSUME On, Returned
  PROVE  On'
<1>1. /\ rp = "over" /\ rp' = "closed"
      /\ UNCHANGED <<opt, text, at, buf, start, eof, ev, cur, owed, speed, paused, played, aborted,
                     broke, shown, ran, told>>
  BY DEF Returned
<1>2. TextOK /\ WindowOK /\ ClockOK /\ ShownIsRecorded /\ (aborted \/ broke \/ AllShown)
  BY <1>1 DEF On, PlaceOK
<1>3. TextOK' /\ WindowOK' /\ ClockOK' /\ ShownIsRecorded'
  BY <1>1, <1>2, TextKept, WindowSame, ClockKept, ShownKept
<1>4. aborted' \/ broke' \/ AllShown'
  BY <1>1, <1>2, <1>3 DEF AllShown
<1>5. PlaceOK'
  BY <1>1, <1>3, <1>4 DEF PlaceOK
<1> QED BY <1>3, <1>5 DEF On

LEMMA StartedInv ==
  ASSUME NoReplay, NEW es \in Seq(CastEvent), \A k \in 1 .. Len(es) : es[k].data # <<>>,
         NEW cutoff \in CastEvent, NEW left \in 0 .. Len(EventLine(cutoff)) - 1,
         Started(es, cutoff, left)
  PROVE  On'
<1>1. /\ at' = 0 /\ buf' = <<>> /\ start' = 0 /\ eof' = FALSE /\ ev' = NoEvent /\ cur' = 0
      /\ owed' = 0 /\ paused' = FALSE /\ shown' = <<>> /\ ran' = 0 /\ rp' = "refill"
      /\ told' = [events |-> es, cut |-> cutoff]
      /\ text' = CastText(es) \o SubSeq(EventLine(cutoff), 1, left)
  BY DEF NoReplay, Started
<1>2. told'.events = es /\ told'.cut = cutoff
  BY <1>1
<1>3. TextOK'
  BY <1>1, <1>2 DEF TextOK
<1>4. Len(buf') = 0 /\ 0 - 0 + 0 = 0 /\ Len(shown') = 0
  BY <1>1
<1>5. WindowOK'
  <2>1. Laid(text', es, cutoff, left)
    BY <1>1, TextIsLaid
  <2>2. Len(text') \in Nat
    BY <2>1 DEF Laid
  <2>3. buf' \in Seq(Sym)
    BY <1>1
  <2>4. 1 .. Len(buf') = {} /\ Len(buf') <= at' /\ at' \in 0 .. Len(text') /\ start' \in 0 .. Len(buf')
    BY <1>1, <1>4, <2>2
  <2> QED BY <1>1, <2>3, <2>4 DEF WindowOK
<1>6. PlaceOK'
  <2>1. Looked' = 0
    BY <1>1, <1>4 DEF Looked
  <2>2. Showing(0)'
    BY <1>1, <1>4 DEF Showing
  <2>3. AtLine'
    BY <2>1, <2>2 DEF AtLine
  <2> QED BY <1>1, <2>3 DEF PlaceOK
<1>7. ClockOK'
  <2>1. speed' \in Speeds /\ (opt'.panel => speed' = ONE)
    <3>1. CASE opt' = [panel |-> TRUE, loop |-> FALSE] /\ speed' = ONE
      BY <3>1, SpeedsAre
    <3>2. ASSUME NEW l \in BOOLEAN, opt' = [panel |-> FALSE, loop |-> l], speed' \in {ONE, FASTEST}
          PROVE  speed' \in Speeds /\ ~opt'.panel
      <4>1. speed' \in Speeds
        BY <3>2, SpeedsAre
      <4>2. opt'.panel = FALSE
        BY <3>2
      <4> QED BY <4>1, <4>2
    <3> QED BY <3>1, <3>2 DEF Started
  <2>2. 0 * FASTEST = 0 /\ 0 * ONE = 0
    BY SpeedsAre
  <2>3. ev'.t = 0
    BY <1>1 DEF NoEvent
  <2>4. /\ cur' \in Nat /\ owed' \in Nat /\ ran' \in Nat /\ ev'.t \in Nat
        /\ cur' + owed' * FASTEST <= ran' * FASTEST /\ cur' + owed' * ONE = ran' * ONE
    BY <1>1, <2>2, <2>3
  <2>5. paused' = FALSE
    BY <1>1
  <2> QED BY <2>1, <2>4, <2>5, Zenon DEF ClockOK
<1> QED BY <1>3, <1>5, <1>6, <1>7 DEF On

LEMMA PlayInv ==
  ASSUME DiskOK(disk), NoReplay, NEW n \in DOMAIN disk, Play(n)
  PROVE  On'
<1>1. PICK textOf \in [Frames -> Texts], ts \in [1 .. Len(disk[n].frames) -> Times],
           cutting \in [t : Times, data : Texts] :
        LET es == [k \in DOMAIN ts |-> [t |-> ts[k], data |-> textOf[disk[n].frames[k]]]]
        IN  IF disk[n].torn
            THEN \E left \in 0 .. Len(EventLine(cutting)) - 1 : Started(es, cutting, left)
            ELSE Started(es, NoEvent, 0)
  BY Zenon DEF Play
<1> DEFINE fs == disk[n].frames
           es == [k \in DOMAIN ts |-> [t |-> ts[k], data |-> textOf[fs[k]]]]
<1>2. fs \in Seq(Frames)
  <2>1. disk[n] \in Content
    BY DEF DiskOK
  <2> QED BY <2>1 DEF Content
<1> HIDE DEF fs
<1>3. Len(fs) \in Nat /\ ts \in [1 .. Len(fs) -> Times] /\ DOMAIN ts = 1 .. Len(fs)
  BY <1>2 DEF fs
<1>4. ASSUME NEW k \in 1 .. Len(fs)
      PROVE  /\ ts[k] \in 0 .. 9 /\ textOf[fs[k]] \in Seq(Chars) /\ textOf[fs[k]] # <<>>
  <2>1. fs[k] \in Frames
    BY <1>2
  <2>2. textOf[fs[k]] \in Texts /\ ts[k] \in Times
    BY <1>3, <2>1
  <2> QED BY <2>2, TextIs, TimesAssumption
<1>5. es \in Seq(CastEvent) /\ Len(es) = Len(fs) /\ \A k \in 1 .. Len(fs) : es[k].data # <<>>
  <2>1. es = [k \in 1 .. Len(fs) |-> [t |-> ts[k], data |-> textOf[fs[k]]]]
    BY <1>3
  <2>2. \A k \in 1 .. Len(fs) : [t |-> ts[k], data |-> textOf[fs[k]]] \in CastEvent
    BY <1>4 DEF CastEvent
  <2> HIDE DEF es
  <2>3. es \in [1 .. Len(fs) -> CastEvent]
    BY <2>1, <2>2
  <2>4. \A k \in 1 .. Len(fs) : es[k].data # <<>>
    BY <1>4, <2>1
  <2> QED BY <1>3, <2>3, <2>4
<1>6. cutting \in CastEvent /\ NoEvent \in CastEvent
  <2>1. cutting.data \in Seq(Chars) /\ cutting.t \in 0 .. 9 /\ cutting = [t |-> cutting.t, data |-> cutting.data]
    BY TextIs, TimesAssumption
  <2>2. NoEvent \in CastEvent
    <3>1. <<>> \in Seq(Chars) /\ 0 \in 0 .. 9
      OBVIOUS
    <3> QED BY <3>1 DEF NoEvent, CastEvent
  <2> QED BY <2>1, <2>2 DEF CastEvent
<1>7. 0 \in 0 .. Len(EventLine(NoEvent)) - 1
  <2> DEFINE l == Len(Coded(NoEvent.data))
  <2>1. l \in Nat /\ Len(EventLine(NoEvent)) = l + 6
    BY <1>6, EventLineIs
  <2> HIDE DEF l
  <2> QED BY <2>1
<1>8. \/ \E left \in 0 .. Len(EventLine(cutting)) - 1 : Started(es, cutting, left)
      \/ Started(es, NoEvent, 0)
  BY <1>1 DEF fs
<1> HIDE DEF es
<1> QED BY <1>5, <1>6, <1>7, <1>8, StartedInv

LEMMA SameInv ==
  ASSUME ReplayInv, UNCHANGED replayVars
  PROVE  ReplayInv'
<1>1. CASE rp = "off"
  BY <1>1 DEF ReplayInv, NoReplay, replayVars
<1>2. CASE rp # "off"
  <2>1. TextOK /\ WindowOK /\ PlaceOK /\ ClockOK
    BY <1>2 DEF ReplayInv, On
  <2>2. TextOK'
    BY <2>1, TextKept DEF replayVars
  <2>3. WindowOK' /\ Looked' = Looked
    BY <2>1 DEF WindowOK, Looked, replayVars
  <2>4. ClockOK'
    BY <2>1 DEF ClockOK, replayVars
  <2>5. /\ AtLine => AtLine'
        /\ NoLine => NoLine'
        /\ ShownIsRecorded => ShownIsRecorded'
        /\ AllShown => AllShown'
    BY <2>3, AtLineKept, ShownKept DEF replayVars, NoLine, AllShown
  <2>6. \A k : Showing(k)' <=> Showing(k)
    BY DEF Showing, replayVars
  <2>7. UNCHANGED <<rp, eof, start, buf, told, ev, aborted, broke>>
    BY DEF replayVars
  <2>8. PlaceOK'
    BY <2>1, <2>3, <2>5, <2>6, <2>7 DEF PlaceOK
  <2> QED BY <1>2, <2>2, <2>4, <2>3, <2>7, <2>8 DEF ReplayInv, On
<1> QED BY <1>1, <1>2

LEMMA ReplayNextInv ==
  ASSUME FilesInv, ReplayInv, CapturesNext
  PROVE  ReplayInv'
<1>1. On' => ReplayInv'
  BY DEF ReplayInv, On, PlaceOK
<1>2. CASE UNCHANGED replayVars
  BY <1>2, SameInv
<1>3. ASSUME NEW n \in DOMAIN disk, Play(n) PROVE ReplayInv'
  <2>1. rp = "off"
    BY <1>3, Zenon DEF Play, Started
  <2>2. NoReplay /\ DiskOK(disk)
    BY <2>1 DEF ReplayInv, FilesInv
  <2> QED BY <1>1, <1>3, <2>2, PlayInv
<1>4. CASE Replaying
  <2>1. rp # "off"
    BY <1>4 DEF Replaying, Refill, Line, Abort, Tick, Show, LastLine, Turn, Returned
  <2>2. On
    BY <2>1 DEF ReplayInv
  <2>3. On'
    BY <1>4, <2>2, RefillInv, LineInv, AbortInv, TickInv, ShowInv, LastLineInv, TurnInv, ReturnedInv
       DEF Replaying
  <2> QED BY <1>1, <2>3
<1> QED BY <1>2, <1>3, <1>4, Zenon DEF CapturesNext

LEMMA ReplayInvIs == ASSUME ReplayInv PROVE ReplayExact
<1>1. CASE rp = "off"
  <2>1. /\ shown = <<>> /\ told.events = <<>> /\ paused = FALSE /\ cur = 0 /\ ran = 0
    BY <1>1 DEF ReplayInv, NoReplay
  <2>2. Len(shown) = 0 /\ Len(told.events) = 0
    BY <2>1
  <2>3. ShownIsRecorded
    BY <2>2 DEF ShownIsRecorded, Upto
  <2>4. FASTEST * 0 = 0
    BY SpeedsAre
  <2> QED BY <1>1, <2>1, <2>3, <2>4 DEF ReplayExact, NothingMissed, Paced
<1>2. CASE rp # "off"
  <2>1. TextOK /\ PlaceOK /\ ClockOK /\ On
    BY <1>2 DEF ReplayInv, On
  <2>2. ShownIsRecorded
    BY <2>1, AtLineIs, WaitIs DEF PlaceOK, AllShown
  <2>3. NothingMissed
    BY <2>1 DEF PlaceOK, AllShown, NothingMissed
  <2>4. Paced
    <3>1. /\ cur \in Nat /\ owed \in Nat /\ ran \in Nat /\ cur + owed * FASTEST <= ran * FASTEST
          /\ (opt.panel => cur + owed * ONE = ran * ONE) /\ (paused => cur < ONE * ev.t)
      BY <2>1 DEF ClockOK
    <3>2. FASTEST \in Nat
      BY SpeedsAre
    <3>3. owed * FASTEST \in Nat /\ ran * FASTEST = FASTEST * ran /\ ran * FASTEST \in Nat
      BY <3>1, <3>2
    <3>4. cur <= FASTEST * ran
      BY <3>1, <3>3
    <3> QED BY <3>1, <3>4 DEF Paced
  <2> QED BY <2>2, <2>3, <2>4 DEF ReplayExact
<1> QED BY <1>1, <1>2

(***************************************************************************)
(* What a recording is for: however its text is cut into reads, the panel  *)
(* and --play show what was recorded, in order, all of it unless they are  *)
(* ended or fail, and never ahead of its time.                             *)
(***************************************************************************)
THEOREM ReplayIsExact == CapturesSpec => []ReplayExact
<1>1. CapturesInit => ReplayInv
  BY DEF CapturesInit, ReplayInv, NoReplay
<1>2. FilesInv /\ ReplayInv /\ [CapturesNext]_<<vars, replayVars>> => ReplayInv'
  <2>1. UNCHANGED <<vars, replayVars>> => UNCHANGED replayVars
    OBVIOUS
  <2> QED BY <2>1, ReplayNextInv, SameInv
<1>3. CapturesSpec => []ReplayInv
  BY <1>1, <1>2, FilesInvariance, PTL DEF CapturesSpec
<1> QED BY <1>3, ReplayInvIs, PTL
=============================================================================
