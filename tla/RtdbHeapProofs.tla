--------------------------- MODULE RtdbHeapProofs ---------------------------
(***************************************************************************)
(* Proofs about the two allocators of the object heap, RtdbSuba and        *)
(* RtdbTlsf, for heaps and headers of any size and whatever is asked for:  *)
(* each implements the abstract heap, its blocks cover the heap without    *)
(* overlap, and its free memory is listed in as large pieces as there are. *)
(***************************************************************************)
EXTENDS RtdbSuba, RtdbTlsf, WellFoundedInduction, FiniteSetTheorems, TLAPS

-----------------------------------------------------------------------------
(* Induction, for the walk around the ring. *)

LEMMA LeastNat ==
  ASSUME NEW S \in SUBSET Nat, S # {}
  PROVE  \E n \in S : \A m \in S : n <= m
  <1> DEFINE R == {ss \in Nat \X Nat : ss[1] < ss[2]}
  <1>1. IsWellFoundedOn(R, Nat)
    BY NatLessThanWellFounded DEF OpToRel
  <1>2. \A x, y \in Nat : x < y => <<x, y>> \in R
    OBVIOUS
  <1> HIDE DEF R
  <1>3. PICK x \in S : \A y \in S : ~(<<y, x>> \in R)
    BY <1>1, WFMin
  <1>4. ASSUME NEW y \in S, ~(x <= y) PROVE FALSE
    <2>1. y < x /\ x \in Nat /\ y \in Nat
      BY <1>4
    <2>2. <<y, x>> \in R
      BY <1>2, <2>1
    <2> QED BY <1>3, <2>2
  <1> QED BY <1>4

LEMMA InductionUpTo ==
  ASSUME NEW n \in Nat, NEW S, 0 \in S, \A k \in 0 .. n - 1 : k \in S => k + 1 \in S
  PROVE  0 .. n \subseteq S
  <1> SUFFICES ASSUME (0 .. n) \ S # {} PROVE FALSE
    OBVIOUS
  <1>1. (0 .. n) \ S \in SUBSET Nat
    OBVIOUS
  <1>2. PICK k \in (0 .. n) \ S : \A m \in (0 .. n) \ S : k <= m
    BY <1>1, LeastNat
  <1>3. k - 1 \in 0 .. n - 1 /\ k - 1 \in 0 .. n /\ (k - 1) + 1 = k
    BY <1>2
  <1>4. k - 1 \in S
    BY <1>2, <1>3
  <1> QED BY <1>2, <1>3, <1>4

-----------------------------------------------------------------------------
(* Rings: the cells F, in the order of their addresses, that end at t; s is *)
(* who comes next.                                                         *)

Ring(F, s, t) ==
  /\ t \in F
  /\ \A c \in F : s[c] \in F
  /\ \A d \in F : s[t] <= d /\ d <= t
  /\ \A c \in F : c # t => c < s[c] /\ \A d \in F : d <= c \/ s[c] <= d

\* A cell of the ring has one predecessor.
LEMMA OnePredecessor ==
  ASSUME NEW A \in SUBSET Nat, NEW F \in SUBSET A, NEW s \in [A -> Nat], NEW t \in F, Ring(F, s, t),
         NEW c \in F, NEW d \in F, s[c] = s[d]
  PROVE  c = d
  <1>1. ASSUME NEW x \in F, NEW y \in F, x < y, s[x] = s[y] PROVE FALSE
    <2>1. x # t /\ s[x] <= y /\ x < s[x]
      BY <1>1 DEF Ring
    <2>2. CASE y = t
      BY <1>1, <2>1, <2>2 DEF Ring
    <2>3. CASE y # t
      BY <1>1, <2>1, <2>3 DEF Ring
    <2> QED BY <2>2, <2>3
  <1> QED BY <1>1

\* A cell that is its own successor is the only one, and the tail.
LEMMA OwnSuccessor ==
  ASSUME NEW A \in SUBSET Nat, NEW F \in SUBSET A, NEW s \in [A -> Nat], NEW t \in F, Ring(F, s, t), NEW c \in F, s[c] = c
  PROVE  c = t /\ F = {c}
  <1>1. c = t
    BY DEF Ring
  <1>2. \A d \in F : d = c
    BY <1>1 DEF Ring
  <1> QED BY <1>1, <1>2

\* y takes the place of x in the ring: it lies on the same side of all the others.
Moves(F, s, t, p, x, y, G, r, u) ==
  /\ p \in F /\ x \in F /\ s[p] = x /\ y \notin F
  /\ \A d \in F : d # x => (d < x <=> d < y)
  /\ G = (F \ {x}) \cup {y}
  /\ r[y] = IF p = x THEN y ELSE s[x]
  /\ p # x => r[p] = y
  /\ \A d \in F : d # p /\ d # x => r[d] = s[d]
  /\ u = IF x = t THEN y ELSE t
LEMMA RingMove ==
  ASSUME NEW A \in SUBSET Nat, NEW F \in SUBSET A, NEW s \in [A -> Nat], NEW t \in F, Ring(F, s, t),
         NEW p, NEW x, NEW y \in A, NEW G, NEW r \in [A -> Nat], NEW u,
         Moves(F, s, t, p, x, y, G, r, u)
  PROVE  Ring(G, r, u)
  <1> USE DEF Moves
  <1>1. CASE p = x
    <2>1. x = t /\ F = {x}
      BY <1>1, OwnSuccessor
    <2>2. G = {y} /\ u = y /\ r[y] = y
      BY <1>1, <2>1
    <2> QED BY <2>2 DEF Ring
  <1>2. CASE p # x
    <2>1. \A d \in F : d # p => s[d] # x
      BY OnePredecessor
    <2>2. s[x] # x /\ s[x] \in F \ {x} /\ r[y] = s[x] /\ r[p] = y
      BY <1>2, <2>1 DEF Ring
    <2>3. \A c \in G : r[c] \in G
      BY <1>2, <2>1, <2>2 DEF Ring
    <2>4. u \in G
      BY DEF Ring
    <2>5. \A d \in G : r[u] <= d /\ d <= u
      <3>1. CASE x = t
        BY <1>2, <2>1, <2>2, <3>1 DEF Ring
      <3>2. CASE x # t /\ p = t
        BY <1>2, <2>1, <2>2, <3>2 DEF Ring
      <3>3. CASE x # t /\ p # t
        BY <1>2, <2>1, <2>2, <3>3 DEF Ring
      <3> QED BY <3>1, <3>2, <3>3
    <2>6. ASSUME NEW c \in G, c # u
          PROVE  c < r[c] /\ \A d \in G : d <= c \/ r[c] <= d
      <3>1. CASE c = y
        BY <1>2, <2>1, <2>2, <2>6, <3>1 DEF Ring
      <3>2. CASE c = p
        BY <1>2, <2>1, <2>2, <2>6, <3>2 DEF Ring
      <3>3. CASE c # y /\ c # p
        BY <1>2, <2>1, <2>2, <2>6, <3>3 DEF Ring
      <3> QED BY <3>1, <3>2, <3>3
    <2> QED BY <2>3, <2>4, <2>5, <2>6 DEF Ring
  <1> QED BY <1>1, <1>2

\* y goes into the ring between p and its successor.
Inserts(F, s, t, p, y, G, r, u) ==
  /\ p \in F /\ y \notin F /\ G = F \cup {y}
  /\ \/ p # t /\ p < y /\ y < s[p] /\ u = t
     \/ p = t /\ y < s[p] /\ u = t
     \/ p = t /\ p < y /\ u = y
  /\ r[y] = s[p] /\ r[p] = y
  /\ \A d \in F : d # p => r[d] = s[d]
LEMMA RingInsert ==
  ASSUME NEW A \in SUBSET Nat, NEW F \in SUBSET A, NEW s \in [A -> Nat], NEW t \in F, Ring(F, s, t),
         NEW p, NEW y \in A, NEW G, NEW r \in [A -> Nat], NEW u,
         Inserts(F, s, t, p, y, G, r, u)
  PROVE  Ring(G, r, u)
  <1> USE DEF Inserts
  <1>1. \A c \in G : r[c] \in G
    BY DEF Ring
  <1>2. CASE p # t /\ p < y /\ y < s[p] /\ u = t
    <2>1. \A d \in G : r[u] <= d /\ d <= u
      BY <1>2 DEF Ring
    <2>2. ASSUME NEW c \in G, c # u
          PROVE  c < r[c] /\ \A d \in G : d <= c \/ r[c] <= d
      BY <1>2, <2>2 DEF Ring
    <2> QED BY <1>1, <1>2, <2>1, <2>2 DEF Ring
  <1>3. CASE p = t /\ y < s[p] /\ u = t
    <2>1. \A d \in G : r[u] <= d /\ d <= u
      BY <1>3 DEF Ring
    <2>2. ASSUME NEW c \in G, c # u
          PROVE  c < r[c] /\ \A d \in G : d <= c \/ r[c] <= d
      BY <1>3, <2>2 DEF Ring
    <2> QED BY <1>1, <1>3, <2>1, <2>2 DEF Ring
  <1>4. CASE p = t /\ p < y /\ u = y
    <2>1. \A d \in G : r[u] <= d /\ d <= u
      BY <1>4 DEF Ring
    <2>2. ASSUME NEW c \in G, c # u
          PROVE  c < r[c] /\ \A d \in G : d <= c \/ r[c] <= d
      BY <1>4, <2>2 DEF Ring
    <2> QED BY <1>1, <1>4, <2>1, <2>2 DEF Ring
  <1> QED BY <1>2, <1>3, <1>4

\* x, the successor of p, leaves the ring.
Drops(F, s, t, p, x, G, r, u) ==
  /\ p \in F /\ x \in F /\ p # x /\ s[p] = x /\ G = F \ {x}
  /\ r[p] = s[x]
  /\ \A d \in F : d # p /\ d # x => r[d] = s[d]
  /\ u = IF x = t THEN p ELSE t
LEMMA RingDrop ==
  ASSUME NEW A \in SUBSET Nat, NEW F \in SUBSET A, NEW s \in [A -> Nat], NEW t \in F, Ring(F, s, t),
         NEW p, NEW x, NEW G, NEW r \in [A -> Nat], NEW u,
         Drops(F, s, t, p, x, G, r, u)
  PROVE  Ring(G, r, u)
  <1> USE DEF Drops
  <1>1. \A d \in F : d # p => s[d] # x
    BY OnePredecessor
  <1>2. \A c \in G : r[c] \in G
    BY <1>1 DEF Ring
  <1>3. \A d \in G : r[u] <= d /\ d <= u
    <2>1. CASE x = t
      BY <1>1, <2>1 DEF Ring
    <2>2. CASE x # t
      BY <1>1, <2>2 DEF Ring
    <2> QED BY <2>1, <2>2
  <1>4. ASSUME NEW c \in G, c # u
        PROVE  c < r[c] /\ \A d \in G : d <= c \/ r[c] <= d
    <2>1. CASE c = p
      BY <1>1, <1>4, <2>1 DEF Ring
    <2>2. CASE c # p
      BY <1>1, <1>4, <2>2 DEF Ring
    <2> QED BY <2>1, <2>2
  <1>5. u \in G
    OBVIOUS
  <1> QED BY <1>2, <1>3, <1>4, <1>5 DEF Ring

-----------------------------------------------------------------------------
(* Rows: the cells C, which end before e, fill the heap.                   *)

LEMMA Sizes ==
  /\ SubaSize \in Nat \ {0} /\ SubaHdr \in Nat \ {0} /\ POFF \in Nat \ {0} /\ MinCell \in Nat \ {0}
  /\ ALIGNMASK \in Nat /\ SubaHdr + POFF < SubaSize /\ SubaAsks \subseteq Nat \ {0}
  BY SubaAssumption

Row(C, e, lo, hi) ==
  /\ \A c \in C : lo <= c /\ c < e[c] /\ e[c] <= hi
  /\ \A c, d \in C : c < d => e[c] <= d
  /\ \A x \in lo .. hi - 1 : \E c \in C : c <= x /\ x < e[c]

\* No two of the cells F touch.
Apart(F, e) == \A c, d \in F : e[c] # d

\* A cell is split at y.
CutsAt(C, e, c, y, D, f) ==
  /\ c \in C /\ c < y /\ y < e[c] /\ D = C \cup {y}
  /\ f[c] = y /\ f[y] = e[c] /\ \A d \in C : d # c => f[d] = e[d]
LEMMA RowSplit ==
  ASSUME NEW lo \in Nat, NEW hi \in Nat,
         NEW A \in SUBSET Nat, NEW C \in SUBSET A, NEW e \in [A -> Nat], Row(C, e, lo, hi),
         NEW c, NEW y \in A, NEW D, NEW f \in [A -> Nat], CutsAt(C, e, c, y, D, f)
  PROVE  Row(D, f, lo, hi)
  <1> USE DEF CutsAt
  <1>1. \A d \in D : lo <= d /\ d < f[d] /\ f[d] <= hi
    BY DEF Row
  <1>2. y \notin C
    BY DEF Row
  <1>3. ASSUME NEW a \in D, NEW d \in D, a < d PROVE f[a] <= d
    BY <1>2, <1>3 DEF Row
  <1>4. ASSUME NEW x \in lo .. hi - 1 PROVE \E d \in D : d <= x /\ x < f[d]
    <2>1. PICK a \in C : a <= x /\ x < e[a]
      BY DEF Row
    <2>2. x \in Nat /\ a \in Nat
      OBVIOUS
    <2>3. CASE a = c /\ y <= x
      BY <2>1, <2>2, <2>3
    <2>4. CASE a = c /\ x < y
      BY <2>1, <2>2, <2>4
    <2>5. CASE a # c
      BY <2>1, <2>5
    <2> QED BY <2>2, <2>3, <2>4, <2>5
  <1> QED BY <1>1, <1>3, <1>4 DEF Row

\* A cell is joined with the one behind it.
Joins(C, e, c, d, D, f) ==
  /\ c \in C /\ d \in C /\ e[c] = d /\ D = C \ {d}
  /\ f[c] = e[d] /\ \A a \in D : a # c => f[a] = e[a]
LEMMA RowJoin ==
  ASSUME NEW lo \in Nat, NEW hi \in Nat,
         NEW A \in SUBSET Nat, NEW C \in SUBSET A, NEW e \in [A -> Nat], Row(C, e, lo, hi),
         NEW c, NEW d, NEW D, NEW f \in [A -> Nat], Joins(C, e, c, d, D, f)
  PROVE  Row(D, f, lo, hi)
  <1> USE DEF Joins
  <1>1. c # d /\ c < d /\ d < e[d] /\ c \in D
    BY DEF Row
  <1>2. \A a \in D : lo <= a /\ a < f[a] /\ f[a] <= hi
    BY <1>1 DEF Row
  <1>3. ASSUME NEW a \in D, NEW b \in D, a < b PROVE f[a] <= b
    <2>1. e[a] <= b
      BY <1>3 DEF Row
    <2>2. CASE a = c
      <3>1. d < b
        BY <2>1, <2>2
      <3> QED BY <2>2, <3>1 DEF Row
    <2>3. CASE a # c
      BY <2>1, <2>3
    <2> QED BY <2>2, <2>3
  <1>4. ASSUME NEW x \in lo .. hi - 1 PROVE \E b \in D : b <= x /\ x < f[b]
    <2>1. PICK a \in C : a <= x /\ x < e[a]
      BY DEF Row
    <2>2. x \in Nat /\ a \in Nat
      OBVIOUS
    <2>3. CASE a = d
      <3>1. c <= x /\ x < f[c]
        BY <1>1, <2>1, <2>2, <2>3
      <3> QED BY <1>1, <3>1
    <2>4. CASE a = c
      <3>1. c <= x /\ x < f[c]
        BY <1>1, <2>1, <2>2, <2>4
      <3> QED BY <1>1, <3>1
    <2>5. CASE a # c /\ a # d
      BY <2>1, <2>5
    <2> QED BY <2>3, <2>4, <2>5
  <1> QED BY <1>2, <1>3, <1>4 DEF Row

-----------------------------------------------------------------------------
(* The walk along a ring. *)

\* Wherever each step leads, there is a walk.
HasWalk(N, X, s, t) ==
  \E at \in [0 .. N -> X] : at[0] = t /\ \A k \in 1 .. N : at[k] = s[at[k - 1]]
LEMMA AWalk ==
  ASSUME NEW N \in Nat, NEW X, NEW s \in [X -> X], NEW t \in X
  PROVE  HasWalk(N, X, s, t)
  <1> DEFINE Steps(n, f) == f[0] = t /\ \A k \in 1 .. n : f[k] = s[f[k - 1]]
             S == {n \in 0 .. N : \E f \in [0 .. n -> X] : Steps(n, f)}
  <1>1. 0 \in S
    <2> DEFINE f == [k \in 0 .. 0 |-> t]
    <2>1. f \in [0 .. 0 -> X] /\ f[0] = t
      OBVIOUS
    <2>2. Steps(0, f) /\ 0 \in 0 .. N
      BY <2>1
    <2> HIDE DEF f, Steps
    <2> QED BY <2>1, <2>2
  <1>2. ASSUME NEW n \in 0 .. N - 1, n \in S PROVE n + 1 \in S
    <2>1. PICK f \in [0 .. n -> X] : Steps(n, f)
      BY <1>2
    <2> DEFINE g == [k \in 0 .. n + 1 |-> IF k = n + 1 THEN s[f[n]] ELSE f[k]]
    <2>2. n \in Nat /\ n \in 0 .. n /\ n + 1 \in 0 .. N
      OBVIOUS
    <2>3. g \in [0 .. n + 1 -> X]
      BY <2>2
    <2>4. g[0] = t
      BY <2>1, <2>2
    <2>5. ASSUME NEW k \in 1 .. n + 1 PROVE g[k] = s[g[k - 1]]
      <3>1. CASE k = n + 1
        BY <2>2, <3>1
      <3>2. CASE k # n + 1
        <4>1. k \in 1 .. n /\ k - 1 # n + 1 /\ k \in 0 .. n + 1 /\ k - 1 \in 0 .. n + 1
          BY <2>2, <3>2
        <4> QED BY <2>1, <4>1
      <3> QED BY <3>1, <3>2
    <2> HIDE DEF g
    <2> QED BY <2>2, <2>3, <2>4, <2>5
  <1>3. N \in S
    <2> HIDE DEF S
    <2>1. 0 .. N \subseteq S
      BY <1>1, <1>2, InductionUpTo
    <2> QED BY <2>1
  <1> QED BY <1>3 DEF HasWalk

\* A walk along a ring from its tail stays in it and comes back to the tail.
Walks(at, F, s, t) ==
  at[0] = t /\ \A k \in 1 .. SubaSize : at[k - 1] \in F => at[k] = s[at[k - 1]]
LEMMA WalkComesBack ==
  ASSUME NEW A \in SUBSET Nat, NEW F \in SUBSET A, NEW s \in [A -> Nat],
         \A c \in F : SubaHdr <= c /\ c < SubaSize, NEW t \in F, Ring(F, s, t),
         NEW at, Walks(at, F, s, t)
  PROVE  /\ \A k \in 0 .. SubaSize : at[k] \in F
         /\ \E k \in 1 .. SubaSize : at[k] = t
  <1> USE DEF Walks
  <1>0. \A x \in F : x \in Nat /\ x >= 1 /\ x < SubaSize
    BY Sizes
  <1> DEFINE S == {k \in 0 .. SubaSize : at[k] \in F}
  <1>1. 0 .. SubaSize \subseteq S
    <2>1. 0 \in S
      BY Sizes
    <2>2. ASSUME NEW k \in 0 .. SubaSize - 1, k \in S PROVE k + 1 \in S
      <3>1. k + 1 \in 1 .. SubaSize /\ (k + 1) - 1 = k /\ k + 1 \in 0 .. SubaSize
        BY Sizes
      <3>2. at[k + 1] = s[at[k]]
        BY <2>2, <3>1
      <3> QED BY <2>2, <3>1, <3>2 DEF Ring
    <2> HIDE DEF S
    <2> QED BY <2>1, <2>2, InductionUpTo, Sizes
  <1>2. ASSUME \A k \in 1 .. SubaSize : at[k] # t PROVE FALSE
    <2> DEFINE T == {k \in 0 .. SubaSize : k = 0 \/ at[k] >= k}
    <2>1. 0 \in T
      BY Sizes
    <2>2. ASSUME NEW k \in 0 .. SubaSize - 1, k \in T PROVE k + 1 \in T
      <3>1. k + 1 \in 1 .. SubaSize /\ (k + 1) - 1 = k /\ k + 1 \in 0 .. SubaSize /\ k \in 0 .. SubaSize
        BY Sizes
      <3>2. at[k + 1] = s[at[k]] /\ at[k] \in F /\ at[k + 1] \in F
        BY <1>1, <3>1
      <3>3. at[k + 1] \in Nat /\ at[k + 1] >= 1 /\ at[k] \in Nat
        BY <1>0, <3>2
      <3>4. CASE k = 0
        BY <3>1, <3>3, <3>4
      <3>5. CASE k # 0
        <4>1. at[k] >= k /\ k \in 1 .. SubaSize /\ k \in Nat
          BY <2>2, <3>5, Sizes
        <4>2. at[k] < at[k + 1]
          BY <1>2, <3>2, <4>1 DEF Ring
        <4> QED BY <3>1, <3>3, <4>1, <4>2
      <3> QED BY <3>4, <3>5
    <2>3. SubaSize \in T
      <3> HIDE DEF T
      <3>1. 0 .. SubaSize \subseteq T /\ SubaSize \in 0 .. SubaSize
        BY <2>1, <2>2, InductionUpTo, Sizes, SMTT(30)
      <3> QED BY <3>1
    <2>4. SubaSize \in 0 .. SubaSize /\ SubaSize # 0 /\ SubaSize \in Nat
      BY Sizes
    <2>5. at[SubaSize] \in F /\ at[SubaSize] >= SubaSize
      BY <1>1, <2>3, <2>4
    <2>6. \A x \in F : ~(x >= SubaSize)
      BY <1>0, <2>4
    <2> QED BY <2>5, <2>6
  <1> QED BY <1>1, <1>2

-----------------------------------------------------------------------------
(* What the allocator keeps: of the cells, which end before e and lead to  *)
(* s, F are free and H are held, and t is the tail.                        *)

Sound(e, s, F, H, t) ==
  /\ e \in [CellAddresses -> Nat] /\ s \in [CellAddresses -> Nat]
  /\ F = {a \in CellAddresses : s[a] # 0}
  /\ H \subseteq CellAddresses /\ \A h \in H : s[h] = 0
  /\ Row(F \cup H, e, SubaHdr, SubaSize)
  /\ Ring(F, s, t)
  /\ Apart(F, e)

LEMMA AddressesAreNat == CellAddresses \in SUBSET Nat
  BY Sizes DEF CellAddresses

LEMMA SoundFacts ==
  ASSUME NEW e, NEW s, NEW F, NEW H, NEW t, Sound(e, s, F, H, t)
  PROVE  /\ F \in SUBSET CellAddresses /\ F \cup H \in SUBSET CellAddresses /\ 0 \notin F
         /\ \A c \in F : c \notin H
         /\ t \in F
         /\ \A c \in F : s[c] \in F
         /\ \A c \in F \cup H : SubaHdr <= c /\ c < e[c] /\ e[c] <= SubaSize
         /\ \A c, d \in F \cup H : c < d => e[c] <= d
  BY Sizes DEF Sound, Ring, Row

-----------------------------------------------------------------------------
(* What the steps do.                                                      *)

\* A free cell c2 is split: the front is given away, the rest is free in its place.
SplitAt(e, s, F, t, c1, c2, c3, f, r, u) ==
  /\ c1 \in F /\ c2 \in F /\ s[c1] = c2 /\ c2 < c3 /\ c3 < e[c2]
  /\ f[c2] = c3 /\ f[c3] = e[c2]
  /\ \A a \in CellAddresses : a # c2 /\ a # c3 => f[a] = e[a]
  /\ r[c2] = 0 /\ r[c3] = (IF c1 = c2 THEN c3 ELSE s[c2]) /\ (c1 # c2 => r[c1] = c3)
  /\ \A a \in CellAddresses : a # c1 /\ a # c2 /\ a # c3 => r[a] = s[a]
  /\ u = IF c2 = t THEN c3 ELSE t
LEMMA SplitSound ==
  ASSUME NEW e, NEW s, NEW F, NEW H, NEW t, Sound(e, s, F, H, t),
         NEW c1, NEW c2, NEW c3 \in CellAddresses, NEW u,
         NEW f \in [CellAddresses -> Nat], NEW r \in [CellAddresses -> Nat],
         SplitAt(e, s, F, t, c1, c2, c3, f, r, u)
  PROVE  Sound(f, r, (F \ {c2}) \cup {c3}, H \cup {c2}, u)
  <1> USE DEF SplitAt
  <1> DEFINE G == (F \ {c2}) \cup {c3}
             C == F \cup H
             D == G \cup (H \cup {c2})
  <1>1. /\ F \in SUBSET CellAddresses /\ C \in SUBSET CellAddresses /\ 0 \notin F /\ t \in F
        /\ \A c \in F : c \notin H
        /\ \A c \in F : s[c] \in F
        /\ \A c \in C : c < e[c]
        /\ \A c, d \in C : c < d => e[c] <= d
    BY SoundFacts
  <1>2. /\ e \in [CellAddresses -> Nat] /\ s \in [CellAddresses -> Nat]
        /\ F = {a \in CellAddresses : s[a] # 0} /\ \A h \in H : s[h] = 0
        /\ Row(C, e, SubaHdr, SubaSize) /\ Ring(F, s, t) /\ Apart(F, e) /\ H \subseteq CellAddresses
    BY DEF Sound
  <1>3. c3 \notin C /\ c3 # 0 /\ c3 # c2
    BY <1>1, <1>2, AddressesAreNat
  <1>4. G = {a \in CellAddresses : r[a] # 0}
    BY <1>1, <1>2, <1>3
  <1>5. H \cup {c2} \subseteq CellAddresses /\ \A h \in H \cup {c2} : r[h] = 0
    BY <1>1, <1>2, <1>3
  <1>6. Row(D, f, SubaHdr, SubaSize)
    <2>1. D = C \cup {c3} /\ c2 \in C
      OBVIOUS
    <2>2. \A d \in C : d # c2 => f[d] = e[d]
      BY <1>1, <1>3
    <2>3. CutsAt(C, e, c2, c3, D, f)
      BY <2>1, <2>2 DEF CutsAt
    <2> HIDE DEF C, D
    <2> QED BY <1>1, <1>2, <2>3, RowSplit, AddressesAreNat, Sizes
  <1>7. Ring(G, r, u)
    <2>1. \A d \in F : d # c2 => (d < c2 <=> d < c3)
      BY <1>1, <1>2, AddressesAreNat
    <2>2. \A d \in F : d # c1 /\ d # c2 => r[d] = s[d]
      BY <1>1, <1>3
    <2>3. G = (F \ {c2}) \cup {c3} /\ c3 \notin F
      BY <1>3
    <2>4. Moves(F, s, t, c1, c2, c3, G, r, u)
      BY <2>1, <2>2, <2>3 DEF Moves
    <2> HIDE DEF G
    <2> QED BY <1>1, <1>2, <2>4, RingMove, AddressesAreNat
  <1>8. Apart(G, f)
    <2>1. ASSUME NEW c \in G, NEW d \in G, f[c] = d PROVE FALSE
      <3>1. c \in CellAddresses /\ d \in CellAddresses
        BY <1>1
      <3>2. CASE c = c3
        <4>1. e[c2] = d
          BY <2>1, <3>2
        <4>2. d \in F
          BY <4>1, AddressesAreNat
        <4> QED BY <1>2, <4>1, <4>2 DEF Apart
      <3>3. CASE c # c3
        <4>1. f[c] = e[c] /\ c \in F
          BY <1>1, <3>1, <3>3
        <4>2. CASE d \in F
          BY <1>2, <2>1, <4>1, <4>2 DEF Apart
        <4>3. CASE d = c3
          <5>1. e[c] = c3
            BY <2>1, <4>1, <4>3
          <5>2. c < e[c] /\ (c < c2 => e[c] <= c2) /\ (c2 < c => e[c2] <= c) /\ c # c2
            BY <1>1, <3>3, <4>1
          <5> QED BY <1>1, <3>1, <5>1, <5>2, AddressesAreNat
        <4> QED BY <4>2, <4>3
      <3> QED BY <3>2, <3>3
    <2> QED BY <2>1 DEF Apart
  <1> HIDE DEF D, G, C
  <1> QED BY <1>4, <1>5, <1>6, <1>7, <1>8 DEF Sound, D, G

\* A free cell c2 is given away as it is.
TakenOut(s, F, t, c1, c2, r) ==
  /\ c1 \in F /\ c2 \in F /\ s[c1] = c2 /\ c2 # t
  /\ r[c2] = 0 /\ r[c1] = s[c2]
  /\ \A a \in CellAddresses : a # c1 /\ a # c2 => r[a] = s[a]
LEMMA TakeSound ==
  ASSUME NEW e, NEW s, NEW F, NEW H, NEW t, Sound(e, s, F, H, t),
         NEW c1, NEW c2, NEW r \in [CellAddresses -> Nat], TakenOut(s, F, t, c1, c2, r)
  PROVE  Sound(e, r, F \ {c2}, H \cup {c2}, t)
  <1> USE DEF TakenOut
  <1> DEFINE C == F \cup H
  <1>1. /\ F \in SUBSET CellAddresses /\ C \in SUBSET CellAddresses /\ 0 \notin F /\ t \in F
        /\ \A c \in F : c \notin H
        /\ \A c \in F : s[c] \in F
        /\ \A c \in C : c < e[c]
        /\ \A c, d \in C : c < d => e[c] <= d
    BY SoundFacts
  <1>2. /\ e \in [CellAddresses -> Nat] /\ s \in [CellAddresses -> Nat]
        /\ F = {a \in CellAddresses : s[a] # 0} /\ \A h \in H : s[h] = 0
        /\ Row(C, e, SubaHdr, SubaSize) /\ Ring(F, s, t) /\ Apart(F, e) /\ H \subseteq CellAddresses
    BY DEF Sound
  <1>3. c1 # c2
    BY <1>1, <1>2, AddressesAreNat DEF Ring
  <1>4. F \ {c2} = {a \in CellAddresses : r[a] # 0}
    BY <1>1, <1>2, <1>3
  <1>5. H \cup {c2} \subseteq CellAddresses /\ \A h \in H \cup {c2} : r[h] = 0
    BY <1>1, <1>2, <1>3
  <1>6. (F \ {c2}) \cup (H \cup {c2}) = C
    OBVIOUS
  <1>7. Ring(F \ {c2}, r, t)
    <2>1. Drops(F, s, t, c1, c2, F \ {c2}, r, t)
      BY <1>1, <1>3 DEF Drops
    <2> QED BY <1>1, <1>2, <2>1, RingDrop, AddressesAreNat
  <1>8. Apart(F \ {c2}, e)
    BY <1>2 DEF Apart
  <1> QED BY <1>2, <1>4, <1>5, <1>6, <1>7, <1>8 DEF Sound

\* A cell c2 comes back and touches no free one.
PutIn(e, s, F, t, c1, c2, r, u) ==
  /\ \A d \in F : e[d] # c2 /\ e[c2] # d
  /\ Inserts(F, s, t, c1, c2, F \cup {c2}, r, u)
  /\ \A a \in CellAddresses : a # c1 /\ a # c2 => r[a] = s[a]
LEMMA InsertSound ==
  ASSUME NEW e, NEW s, NEW F, NEW H, NEW t, Sound(e, s, F, H, t),
         NEW c1, NEW c2 \in H, NEW r \in [CellAddresses -> Nat], NEW u,
         PutIn(e, s, F, t, c1, c2, r, u)
  PROVE  Sound(e, r, F \cup {c2}, H \ {c2}, u)
  <1> USE DEF PutIn
  <1> DEFINE C == F \cup H
  <1>1. /\ F \in SUBSET CellAddresses /\ C \in SUBSET CellAddresses /\ 0 \notin F /\ t \in F
        /\ \A c \in F : c \notin H
        /\ \A c \in F : s[c] \in F
        /\ \A c \in C : c < e[c]
        /\ \A c, d \in C : c < d => e[c] <= d
    BY SoundFacts
  <1>2. /\ e \in [CellAddresses -> Nat] /\ s \in [CellAddresses -> Nat]
        /\ F = {a \in CellAddresses : s[a] # 0} /\ \A h \in H : s[h] = 0
        /\ Row(C, e, SubaHdr, SubaSize) /\ Ring(F, s, t) /\ Apart(F, e) /\ H \subseteq CellAddresses
    BY DEF Sound
  <1>3. c1 \in F /\ r[c2] = s[c1] /\ r[c1] = c2
    BY DEF Inserts
  <1>4. c2 \in CellAddresses /\ c2 # 0 /\ c2 \notin F /\ c1 # c2 /\ e[c2] # c2
    BY <1>1, <1>3, SoundFacts, Sizes, AddressesAreNat
  <1>5. F \cup {c2} = {a \in CellAddresses : r[a] # 0}
    BY <1>1, <1>2, <1>3, <1>4
  <1>6. H \ {c2} \subseteq CellAddresses /\ \A h \in H \ {c2} : r[h] = 0
    BY <1>1, <1>2, <1>3
  <1>7. (F \cup {c2}) \cup (H \ {c2}) = C
    OBVIOUS
  <1>8. Ring(F \cup {c2}, r, u)
    BY <1>1, <1>2, <1>4, RingInsert, AddressesAreNat
  <1>9. Apart(F \cup {c2}, e)
    BY <1>2, <1>4 DEF Apart
  <1> QED BY <1>2, <1>5, <1>6, <1>7, <1>8, <1>9 DEF Sound

\* A cell c2 comes back and is joined with the free one in front of it.
JoinsFront(e, s, F, c1, c2, f, r) ==
  /\ c1 \in F /\ e[c1] = c2 /\ \A d \in F : e[c2] # d
  /\ f[c1] = e[c2] /\ \A a \in CellAddresses : a # c1 /\ a # c2 => f[a] = e[a]
  /\ r[c2] = 0 /\ \A a \in CellAddresses : a # c2 => r[a] = s[a]
LEMMA JoinFrontSound ==
  ASSUME NEW e, NEW s, NEW F, NEW H, NEW t, Sound(e, s, F, H, t),
         NEW c1, NEW c2 \in H,
         NEW f \in [CellAddresses -> Nat], NEW r \in [CellAddresses -> Nat],
         JoinsFront(e, s, F, c1, c2, f, r)
  PROVE  Sound(f, r, F, H \ {c2}, t)
  <1> USE DEF JoinsFront
  <1> DEFINE C == F \cup H
  <1>1. /\ F \in SUBSET CellAddresses /\ C \in SUBSET CellAddresses /\ 0 \notin F /\ t \in F
        /\ \A c \in F : c \notin H
        /\ \A c \in F : s[c] \in F
        /\ \A c \in C : c < e[c]
        /\ \A c, d \in C : c < d => e[c] <= d
    BY SoundFacts
  <1>2. /\ e \in [CellAddresses -> Nat] /\ s \in [CellAddresses -> Nat]
        /\ F = {a \in CellAddresses : s[a] # 0} /\ \A h \in H : s[h] = 0
        /\ Row(C, e, SubaHdr, SubaSize) /\ Ring(F, s, t) /\ Apart(F, e) /\ H \subseteq CellAddresses
    BY DEF Sound
  <1>3. c2 \notin F /\ c2 \in CellAddresses
    BY <1>1
  <1>4. F = {a \in CellAddresses : r[a] # 0}
    BY <1>2, <1>3
  <1>5. H \ {c2} \subseteq CellAddresses /\ \A h \in H \ {c2} : r[h] = 0
    BY <1>2
  <1>6. Row(F \cup (H \ {c2}), f, SubaHdr, SubaSize)
    <2> DEFINE D == F \cup (H \ {c2})
    <2>1. D = C \ {c2} /\ c2 \in C /\ c1 \in C
      BY <1>3
    <2>2. \A a \in D : a # c1 => f[a] = e[a]
      BY <1>1, <1>3
    <2>3. Joins(C, e, c1, c2, D, f)
      BY <2>1, <2>2 DEF Joins
    <2> HIDE DEF C, D
    <2>4. Row(D, f, SubaHdr, SubaSize)
      BY <1>1, <1>2, <2>3, RowJoin, AddressesAreNat, Sizes
    <2> QED BY <2>4 DEF D
  <1>7. Ring(F, r, t)
    <2>1. \A a \in F : r[a] = s[a]
      BY <1>1, <1>3
    <2> QED BY <1>1, <1>2, <2>1 DEF Ring
  <1>8. Apart(F, f)
    <2>1. \A a \in F : a # c1 => f[a] = e[a]
      BY <1>1, <1>3
    <2> QED BY <1>2, <2>1 DEF Apart
  <1> QED BY <1>4, <1>5, <1>6, <1>7, <1>8 DEF Sound

\* A cell c2 comes back and is joined with the free one behind it, whose place it takes.
JoinsBehind(e, s, F, t, c1, c2, c3, f, r, u) ==
  /\ c1 \in F /\ c3 \in F /\ s[c1] = c3 /\ e[c2] = c3 /\ \A d \in F : e[d] # c2
  /\ f[c2] = e[c3] /\ \A a \in CellAddresses : a # c2 /\ a # c3 => f[a] = e[a]
  /\ r[c3] = 0 /\ r[c2] = (IF c1 = c3 THEN c2 ELSE s[c3]) /\ (c1 # c3 => r[c1] = c2)
  /\ \A a \in CellAddresses : a # c1 /\ a # c2 /\ a # c3 => r[a] = s[a]
  /\ u = IF c3 = t THEN c2 ELSE t
LEMMA JoinBehindSound ==
  ASSUME NEW e, NEW s, NEW F, NEW H, NEW t, Sound(e, s, F, H, t),
         NEW c1, NEW c2 \in H, NEW c3, NEW u,
         NEW f \in [CellAddresses -> Nat], NEW r \in [CellAddresses -> Nat],
         JoinsBehind(e, s, F, t, c1, c2, c3, f, r, u)
  PROVE  Sound(f, r, (F \ {c3}) \cup {c2}, H \ {c2}, u)
  <1> USE DEF JoinsBehind
  <1> DEFINE C == F \cup H
  <1>1. /\ F \in SUBSET CellAddresses /\ C \in SUBSET CellAddresses /\ 0 \notin F /\ t \in F
        /\ \A c \in F : c \notin H
        /\ \A c \in F : s[c] \in F
        /\ \A c \in C : c < e[c]
        /\ \A c, d \in C : c < d => e[c] <= d
    BY SoundFacts
  <1>2. /\ e \in [CellAddresses -> Nat] /\ s \in [CellAddresses -> Nat]
        /\ F = {a \in CellAddresses : s[a] # 0} /\ \A h \in H : s[h] = 0
        /\ Row(C, e, SubaHdr, SubaSize) /\ Ring(F, s, t) /\ Apart(F, e) /\ H \subseteq CellAddresses
    BY DEF Sound
  <1> DEFINE G == (F \ {c3}) \cup {c2}
  <1>3. c2 \in CellAddresses /\ c2 # 0 /\ c2 \notin F /\ c2 # c3 /\ c2 < c3
    BY <1>1, SoundFacts, Sizes, AddressesAreNat
  <1>4. G = {a \in CellAddresses : r[a] # 0}
    BY <1>1, <1>2, <1>3
  <1>5. H \ {c2} \subseteq CellAddresses /\ \A h \in H \ {c2} : r[h] = 0
    BY <1>1, <1>2, <1>3
  <1>6. Row(G \cup (H \ {c2}), f, SubaHdr, SubaSize)
    <2> DEFINE D == G \cup (H \ {c2})
    <2>1. D = C \ {c3} /\ c2 \in C /\ c3 \in C
      BY <1>1, <1>3
    <2>2. \A a \in D : a # c2 => f[a] = e[a]
      BY <1>1, <1>3
    <2>3. Joins(C, e, c2, c3, D, f)
      BY <2>1, <2>2 DEF Joins
    <2> HIDE DEF C, D
    <2>4. Row(D, f, SubaHdr, SubaSize)
      BY <1>1, <1>2, <2>3, RowJoin, AddressesAreNat, Sizes
    <2> QED BY <2>4 DEF D
  <1>7. Ring(G, r, u)
    <2>1. \A d \in F : d # c3 => (d < c3 <=> d < c2)
      <3>1. \A d \in C : c2 < d => c3 <= d
        BY <1>1
      <3> QED BY <1>1, <1>3, <3>1, AddressesAreNat
    <2>2. Moves(F, s, t, c1, c3, c2, G, r, u)
      BY <1>1, <1>3, <2>1 DEF Moves
    <2> HIDE DEF G
    <2> QED BY <1>1, <1>2, <1>3, <2>2, RingMove, AddressesAreNat
  <1>8. Apart(G, f)
    <2>1. ASSUME NEW c \in G, NEW d \in G, f[c] = d PROVE FALSE
      <3>1. CASE c = c2
        <4>1. e[c3] = d
          BY <2>1, <3>1
        <4>2. d \notin F
          BY <1>2, <4>1 DEF Apart
        <4>3. d = c2
          BY <4>2
        <4>4. c3 < e[c3]
          BY <1>1
        <4> QED BY <1>1, <1>2, <1>3, <4>1, <4>3, <4>4, AddressesAreNat
      <3>2. CASE c # c2
        <4>1. f[c] = e[c] /\ c \in F
          BY <1>1, <3>2
        <4> QED BY <1>2, <2>1, <4>1 DEF Apart
      <3> QED BY <3>1, <3>2
    <2> QED BY <2>1 DEF Apart
  <1> HIDE DEF G
  <1> QED BY <1>4, <1>5, <1>6, <1>7, <1>8 DEF Sound, G

\* A cell c2 comes back and joins the free ones on both sides.
JoinsBoth(e, s, F, t, c1, c2, c3, f, r, u) ==
  /\ c1 \in F /\ c3 \in F /\ s[c1] = c3 /\ e[c1] = c2 /\ e[c2] = c3
  /\ f[c1] = e[c3] /\ \A a \in CellAddresses : a # c1 /\ a # c2 /\ a # c3 => f[a] = e[a]
  /\ r[c2] = 0 /\ r[c3] = 0 /\ r[c1] = s[c3]
  /\ \A a \in CellAddresses : a # c1 /\ a # c2 /\ a # c3 => r[a] = s[a]
  /\ u = IF c3 = t THEN c1 ELSE t
LEMMA JoinBothSound ==
  ASSUME NEW e, NEW s, NEW F, NEW H, NEW t, Sound(e, s, F, H, t),
         NEW c1, NEW c2 \in H, NEW c3, NEW u,
         NEW f \in [CellAddresses -> Nat], NEW r \in [CellAddresses -> Nat],
         JoinsBoth(e, s, F, t, c1, c2, c3, f, r, u)
  PROVE  Sound(f, r, F \ {c3}, H \ {c2}, u)
  <1> USE DEF JoinsBoth
  <1> DEFINE C == F \cup H
  <1>1. /\ F \in SUBSET CellAddresses /\ C \in SUBSET CellAddresses /\ 0 \notin F /\ t \in F
        /\ \A c \in F : c \notin H
        /\ \A c \in F : s[c] \in F
        /\ \A c \in C : c < e[c]
        /\ \A c, d \in C : c < d => e[c] <= d
    BY SoundFacts
  <1>2. /\ e \in [CellAddresses -> Nat] /\ s \in [CellAddresses -> Nat]
        /\ F = {a \in CellAddresses : s[a] # 0} /\ \A h \in H : s[h] = 0
        /\ Row(C, e, SubaHdr, SubaSize) /\ Ring(F, s, t) /\ Apart(F, e) /\ H \subseteq CellAddresses
    BY DEF Sound
  <1> DEFINE G == F \ {c3}
  <1>3. c2 \in CellAddresses /\ c2 \notin F /\ c1 < c2 /\ c2 < c3 /\ c1 # c3
    <2>1. c2 \in CellAddresses /\ c2 \notin F /\ c1 \in CellAddresses /\ c3 \in CellAddresses
      BY <1>1
    <2>2. c1 < e[c1] /\ c2 < e[c2]
      BY <1>1
    <2> QED BY <2>1, <2>2, AddressesAreNat
  <1>4. G = {a \in CellAddresses : r[a] # 0}
    BY <1>1, <1>2, <1>3
  <1>5. H \ {c2} \subseteq CellAddresses /\ \A h \in H \ {c2} : r[h] = 0
    BY <1>1, <1>2, <1>3
  <1>6. Row(G \cup (H \ {c2}), f, SubaHdr, SubaSize)
    <2> DEFINE B == C \ {c3}
               D == G \cup (H \ {c2})
               g == [e EXCEPT ![c2] = e[c3]]
    <2>1. B = C \ {c3} /\ D = B \ {c2} /\ c2 \in C /\ c3 \in C /\ c1 \in B /\ c2 \in B
      BY <1>1, <1>3
    <2>2. /\ g \in [CellAddresses -> Nat] /\ g[c2] = e[c3]
          /\ \A a \in CellAddresses : a # c2 => g[a] = e[a]
      BY <1>1, <1>2, <1>3
    <2>3. \A a \in B : a # c2 => g[a] = e[a]
      BY <1>1, <2>2
    <2>4. \A a \in D : a # c1 => f[a] = g[a]
      BY <1>1, <1>3, <2>2
    <2>5. g[c1] = c2 /\ f[c1] = g[c2]
      BY <1>1, <1>3, <2>2
    <2>6. B \in SUBSET CellAddresses
      BY <1>1
    <2> HIDE DEF B, C, D, g
    <2>7. Joins(C, e, c2, c3, B, g)
      BY <2>1, <2>2, <2>3 DEF Joins
    <2>8. Joins(B, g, c1, c2, D, f)
      BY <2>1, <2>4, <2>5 DEF Joins
    <2>9. Row(B, g, SubaHdr, SubaSize)
      BY <1>1, <1>2, <2>2, <2>7, RowJoin, AddressesAreNat, Sizes
    <2>10. Row(D, f, SubaHdr, SubaSize)
      BY <2>2, <2>6, <2>8, <2>9, RowJoin, AddressesAreNat, Sizes
    <2> QED BY <2>10 DEF D
  <1>7. Ring(G, r, u)
    <2>1. Drops(F, s, t, c1, c3, G, r, u)
      BY <1>1, <1>3 DEF Drops
    <2> HIDE DEF G
    <2> QED BY <1>1, <1>2, <2>1, RingDrop, AddressesAreNat
  <1>8. Apart(G, f)
    <2>1. \A a \in G : f[a] = IF a = c1 THEN e[c3] ELSE e[a]
      BY <1>1, <1>3
    <2> QED BY <1>2, <2>1 DEF Apart
  <1> HIDE DEF G
  <1> QED BY <1>4, <1>5, <1>6, <1>7, <1>8 DEF Sound, G

-----------------------------------------------------------------------------
(* The inductive invariant.                                                *)

Memories == [CellAddresses -> [size : 0 .. SubaSize, next : CellAddresses]]
EndsIn(m) == [a \in CellAddresses |-> a + POFF + m[a].size]
NextsIn(m) == [a \in CellAddresses |-> m[a].next]
CellEnds == EndsIn(cell)
Nexts == NextsIn(cell)

\* What was given is the data of a cell that is not free, and is large enough.
GivenOK ==
  /\ \A b \in cells_given :
       /\ b.at \in CellAddresses /\ b.size \in SubaAsks
       /\ b.at - POFF \in CellAddresses /\ b.size <= cell[b.at - POFF].size
  /\ \A b, d \in cells_given : b.at = d.at => b = d

HeapInv ==
  /\ cell \in Memories
  /\ Sound(CellEnds, Nexts, FreeCells, HeldCells, tail)
  /\ GivenOK

LEMMA MemoryFacts ==
  ASSUME NEW m \in Memories
  PROVE  /\ EndsIn(m) \in [CellAddresses -> Nat] /\ NextsIn(m) \in [CellAddresses -> Nat]
         /\ \A a \in CellAddresses : m[a].size \in Nat /\ m[a].next \in CellAddresses
         /\ \A a \in CellAddresses : EndsIn(m)[a] = a + POFF + m[a].size /\ NextsIn(m)[a] = m[a].next
  <1>1. \A a \in CellAddresses : m[a].size \in Nat /\ m[a].next \in CellAddresses
    BY Sizes DEF Memories
  <1>2. \A a \in CellAddresses : a + POFF + m[a].size \in Nat
    BY <1>1, Sizes, AddressesAreNat
  <1>3. EndsIn(m) \in [CellAddresses -> Nat] /\ NextsIn(m) \in [CellAddresses -> Nat]
    BY <1>1, <1>2, AddressesAreNat DEF EndsIn, NextsIn
  <1> QED BY <1>1, <1>3 DEF EndsIn, NextsIn

LEMMA InvFacts ==
  ASSUME HeapInv
  PROVE  /\ cell \in Memories /\ CellEnds \in [CellAddresses -> Nat] /\ Nexts \in [CellAddresses -> Nat]
         /\ FreeCells \in SUBSET CellAddresses /\ tail \in FreeCells
         /\ HeldCells \in SUBSET CellAddresses
         /\ \A a \in CellAddresses : cell[a].size \in Nat /\ CellEnds[a] = a + POFF + cell[a].size
         /\ \A a \in CellAddresses : Nexts[a] = cell[a].next /\ cell[a].next \in CellAddresses
         /\ \A c \in FreeCells : c \notin HeldCells /\ cell[c].next \in FreeCells /\ c # 0
         /\ \A c \in FreeCells \cup HeldCells : SubaHdr <= c /\ c < CellEnds[c] /\ CellEnds[c] <= SubaSize
         /\ \A c, d \in FreeCells \cup HeldCells : c < d => CellEnds[c] <= d
  <1>1. cell \in Memories /\ Sound(CellEnds, Nexts, FreeCells, HeldCells, tail)
    BY DEF HeapInv
  <1>2. \A a \in CellAddresses : Nexts[a] = cell[a].next /\ CellEnds[a] = a + POFF + cell[a].size
    BY DEF Nexts, CellEnds, EndsIn, NextsIn
  <1> HIDE DEF CellEnds, Nexts, FreeCells, HeldCells
  <1>3. \A c \in FreeCells : Nexts[c] \in FreeCells
    BY <1>1, SoundFacts
  <1>4. \A c \in FreeCells : c \notin HeldCells /\ c # 0
    BY <1>1, SoundFacts
  <1>5. /\ FreeCells \in SUBSET CellAddresses /\ tail \in FreeCells
        /\ FreeCells \cup HeldCells \in SUBSET CellAddresses
    BY <1>1, SoundFacts
  <1>6. \A c \in FreeCells \cup HeldCells : SubaHdr <= c /\ c < CellEnds[c] /\ CellEnds[c] <= SubaSize
    BY <1>1, SoundFacts
  <1>7. \A c, d \in FreeCells \cup HeldCells : c < d => CellEnds[c] <= d
    BY <1>1, SoundFacts
  <1> QED BY <1>1, <1>2, <1>3, <1>4, <1>5, <1>6, <1>7, MemoryFacts DEF CellEnds, Nexts

\* Sizes are rounded up.
LEMMA RoundedUp == \A n \in Nat : ALIGN(n) \in Nat /\ n <= ALIGN(n)
  <1> SUFFICES ASSUME NEW n \in Nat PROVE ALIGN(n) \in Nat /\ n <= ALIGN(n)
    OBVIOUS
  <1>1. ALIGNMASK \in Nat
    BY Sizes
  <1> DEFINE q == (n + ALIGNMASK) \div (ALIGNMASK + 1)
  <1>2. q \in Nat /\ n + ALIGNMASK < (q + 1) * (ALIGNMASK + 1)
    BY <1>1
  <1>3. q * (ALIGNMASK + 1) \in Nat /\ (q + 1) * (ALIGNMASK + 1) = q * (ALIGNMASK + 1) + ALIGNMASK + 1
    <2> HIDE DEF q
    <2> QED BY <1>1, <1>2
  <1>4. ALIGN(n) = q * (ALIGNMASK + 1)
    BY DEF ALIGN
  <1> HIDE DEF q
  <1> QED BY <1>1, <1>2, <1>3, <1>4

LEMMA NeedIsEnough == \A n \in SubaAsks : n \in Nat /\ Need(n) \in Nat /\ n <= Need(n)
  BY RoundedUp, Sizes DEF Need

\* The walk stays with the free cells, from each to the next, and comes back to the tail.
LEMMA TheWalk ==
  ASSUME HeapInv
  PROVE  /\ \A k \in CellAddresses : Walk[k] \in FreeCells
         /\ Walk[0] = tail /\ 0 \in CellAddresses
         /\ \A k \in CellAddresses \ {0} : k - 1 \in CellAddresses /\ Walk[k] = cell[Walk[k - 1]].next
         /\ \E k \in CellAddresses \ {0} : Walk[k] = tail
  <1> DEFINE IsWalk(at) == at = [k \in CellAddresses |-> IF k = 0 THEN tail ELSE cell[at[k - 1]].next]
  <1>1. PICK at \in [CellAddresses -> CellAddresses] :
          at[0] = tail /\ \A k \in CellAddresses \ {0} : at[k] = Nexts[at[k - 1]]
    <2>1. Nexts \in [CellAddresses -> CellAddresses] /\ tail \in CellAddresses
      BY InvFacts DEF Nexts, NextsIn
    <2>2. /\ SubaSize \in Nat /\ CellAddresses = 0 .. SubaSize
          /\ \A k \in CellAddresses \ {0} : k \in 1 .. SubaSize
      BY Sizes DEF CellAddresses
    <2>3. PICK at \in [0 .. SubaSize -> CellAddresses] :
            at[0] = tail /\ \A k \in 1 .. SubaSize : at[k] = Nexts[at[k - 1]]
      <3>1. HasWalk(SubaSize, CellAddresses, Nexts, tail)
        BY <2>1, <2>2, AWalk
      <3> QED BY <2>2, <3>1 DEF HasWalk
    <2>4. at \in [CellAddresses -> CellAddresses]
      BY <2>2, <2>3
    <2> QED BY <2>2, <2>3, <2>4
  <1>2. \A k \in CellAddresses \ {0} : k - 1 \in CellAddresses /\ k \in 1 .. SubaSize
    BY Sizes DEF CellAddresses
  <1>3. 0 \in CellAddresses
    BY Sizes DEF CellAddresses
  <1>4. \A k \in CellAddresses : at[k] = IF k = 0 THEN tail ELSE cell[at[k - 1]].next
    <2>1. \A k \in CellAddresses : at[k] = IF k = 0 THEN tail ELSE Nexts[at[k - 1]]
      BY <1>1
    <2>2. \A k \in CellAddresses \ {0} : Nexts[at[k - 1]] = cell[at[k - 1]].next
      BY <1>2, InvFacts
    <2> QED BY <2>1, <2>2
  <1>5. IsWalk(at)
    <2>1. at = [k \in CellAddresses |-> at[k]]
      OBVIOUS
    <2> QED BY <1>4, <2>1
  <1>6. IsWalk(Walk)
    <2>1. Walk = CHOOSE w : IsWalk(w)
      BY DEF Walk
    <2> HIDE DEF IsWalk
    <2> QED BY <1>5, <2>1
  <1>7. Walk[0] = tail /\ \A k \in CellAddresses \ {0} : Walk[k] = cell[Walk[k - 1]].next
    <2>1. \A k \in CellAddresses : Walk[k] = IF k = 0 THEN tail ELSE cell[Walk[k - 1]].next
      <3> DEFINE w == Walk
      <3>1. w = [k \in CellAddresses |-> IF k = 0 THEN tail ELSE cell[w[k - 1]].next]
        BY <1>6
      <3> HIDE DEF w
      <3>2. \A k \in CellAddresses : w[k] = IF k = 0 THEN tail ELSE cell[w[k - 1]].next
        BY <3>1
      <3> QED BY <3>2 DEF w
    <2> QED BY <1>3, <2>1
  <1>8. \A k \in 1 .. SubaSize : Walk[k - 1] \in FreeCells => Walk[k] = Nexts[Walk[k - 1]]
    <2>1. \A k \in 1 .. SubaSize : k \in CellAddresses \ {0}
      BY Sizes DEF CellAddresses
    <2> QED BY <1>7, <2>1, InvFacts
  <1>9. \A c \in FreeCells : SubaHdr <= c /\ c < SubaSize
    <2>1. FreeCells \in SUBSET Nat
      BY InvFacts, AddressesAreNat
    <2>2. \A c \in FreeCells : SubaHdr <= c /\ c < CellEnds[c] /\ CellEnds[c] <= SubaSize /\ CellEnds[c] \in Nat
      BY InvFacts
    <2> QED BY <2>1, <2>2, Sizes
  <1>10. Ring(FreeCells, Nexts, tail)
    BY DEF HeapInv, Sound
  <1>11. /\ \A k \in 0 .. SubaSize : Walk[k] \in FreeCells
         /\ \E k \in 1 .. SubaSize : Walk[k] = tail
    <2> DEFINE w == Walk
    <2>1. Walks(w, FreeCells, Nexts, tail)
      BY <1>7, <1>8 DEF Walks
    <2>2. Nexts \in [CellAddresses -> Nat] /\ FreeCells \in SUBSET CellAddresses /\ tail \in FreeCells
      BY InvFacts
    <2> HIDE DEF w
    <2>3. (\A k \in 0 .. SubaSize : w[k] \in FreeCells) /\ (\E k \in 1 .. SubaSize : w[k] = tail)
      BY <1>9, <1>10, <2>1, <2>2, AddressesAreNat, WalkComesBack
    <2> QED BY <2>3 DEF w
  <1>12. \E k \in CellAddresses \ {0} : Walk[k] = tail
    <2>1. PICK k \in 1 .. SubaSize : Walk[k] = tail
      BY <1>11
    <2>2. k \in CellAddresses \ {0}
      BY Sizes DEF CellAddresses
    <2> QED BY <2>1, <2>2
  <1> QED BY <1>2, <1>3, <1>7, <1>11, <1>12 DEF CellAddresses

\* A request stops at a free cell, whose predecessor is the one looked at before.
LEMMA Stops ==
  ASSUME HeapInv, NEW need \in Nat
  PROVE  /\ StopsAt(need) \in CellAddresses \ {0}
         /\ Walk[StopsAt(need) - 1] \in FreeCells /\ Walk[StopsAt(need)] \in FreeCells
         /\ cell[Walk[StopsAt(need) - 1]].next = Walk[StopsAt(need)]
  <1> DEFINE Ends1(j) == cell[Walk[j]].size >= need \/ Walk[j] = tail
             Stop(k) == Ends1(k) /\ \A j \in 1 .. k - 1 : ~Ends1(j)
             S == {k \in CellAddresses \ {0} : Ends1(k)}
  <1>1. PICK k \in S : \A m \in S : k <= m
    <2>1. S \in SUBSET Nat
      BY AddressesAreNat
    <2>2. S # {}
      BY TheWalk
    <2> HIDE DEF S
    <2> QED BY <2>1, <2>2, LeastNat
  <1>2. ASSUME NEW j \in 1 .. k - 1, Ends1(j) PROVE FALSE
    <2>1. j \in CellAddresses \ {0} /\ j < k
      BY <1>1, Sizes DEF CellAddresses
    <2>2. k <= j
      BY <1>1, <1>2, <2>1
    <2> QED BY <1>1, <2>1, <2>2, AddressesAreNat
  <1>3. k \in CellAddresses \ {0} /\ Stop(k)
    BY <1>1, <1>2
  <1>4. StopsAt(need) = CHOOSE i \in CellAddresses \ {0} : Stop(i)
    BY DEF StopsAt
  <1>5. StopsAt(need) \in CellAddresses \ {0}
    <2> HIDE DEF Stop
    <2> QED BY <1>3, <1>4
  <1> QED BY <1>5, TheWalk

\* The place that is found for what comes back: the free cells around it.
LEMMA PlaceFound ==
  ASSUME HeapInv, NEW ref \in CellAddresses, ref < tail
  PROVE  LET c1 == Walk[InsertionPoint(ref)] IN
         /\ c1 \in FreeCells /\ ref <= cell[c1].next
         /\ c1 = tail \/ c1 < ref
  <1> DEFINE Before(j) == cell[Walk[j]].next < ref
             Place(k) == cell[Walk[k]].next >= ref /\ \A j \in 0 .. k - 1 : Before(j)
             S == {k \in CellAddresses : cell[Walk[k]].next >= ref}
  <1>0. \A k \in CellAddresses : cell[Walk[k]].next \in Nat /\ Walk[k] \in Nat
    BY TheWalk, InvFacts, AddressesAreNat
  <1>1. PICK k \in S : \A m \in S : k <= m
    <2>1. S \in SUBSET Nat
      BY AddressesAreNat
    <2>2. S # {}
      <3>1. PICK i \in CellAddresses \ {0} : Walk[i] = tail
        BY TheWalk
      <3>2. i - 1 \in CellAddresses /\ cell[Walk[i - 1]].next = tail
        BY <3>1, TheWalk
      <3>3. tail \in Nat /\ ref \in Nat
        BY InvFacts, AddressesAreNat
      <3> QED BY <3>2, <3>3
    <2> HIDE DEF S
    <2> QED BY <2>1, <2>2, LeastNat
  <1>2. ASSUME NEW j \in 0 .. k - 1, ~Before(j) PROVE FALSE
    <2>1. j \in CellAddresses /\ j \in Nat /\ k \in Nat /\ j < k
      BY <1>1, Sizes DEF CellAddresses
    <2>2. cell[Walk[j]].next >= ref
      BY <1>0, <1>2, <2>1, AddressesAreNat
    <2>3. k <= j
      BY <1>1, <2>1, <2>2
    <2> QED BY ONLY <2>1, <2>3
  <1>3. k \in CellAddresses /\ Place(k)
    BY <1>1, <1>2
  <1>4. InsertionPoint(ref) = CHOOSE i \in CellAddresses : Place(i)
    BY DEF InsertionPoint
  <1>5. InsertionPoint(ref) \in CellAddresses /\ Place(InsertionPoint(ref))
    <2> HIDE DEF Place
    <2> QED BY <1>3, <1>4
  <1> DEFINE p == InsertionPoint(ref)
  <1> HIDE DEF p
  <1>6. p \in CellAddresses /\ cell[Walk[p]].next >= ref /\ \A j \in 0 .. p - 1 : Before(j)
    BY <1>5 DEF p
  <1>7. Walk[p] \in FreeCells
    BY <1>6, TheWalk
  <1>8. ASSUME Walk[p] # tail PROVE Walk[p] < ref
    <2>1. p \in CellAddresses \ {0}
      BY <1>6, <1>8, TheWalk
    <2>2. p - 1 \in CellAddresses /\ Walk[p] = cell[Walk[p - 1]].next
      BY <2>1, TheWalk
    <2>3. p - 1 \in 0 .. p - 1
      BY <2>1, <2>2, AddressesAreNat
    <2> QED BY <1>6, <2>2, <2>3
  <1>9. ref <= cell[Walk[p]].next
    BY <1>0, <1>6, AddressesAreNat
  <1> QED BY <1>7, <1>8, <1>9 DEF p

-----------------------------------------------------------------------------
(* The steps.                                                              *)

LEMMA NextInv ==
  ASSUME cell' \in Memories, NEW G, NEW K, Sound(EndsIn(cell'), NextsIn(cell'), G, K, tail'),
         HeldCells' = K, GivenOK'
  PROVE  HeapInv'
  <1>1. G = {a \in CellAddresses : NextsIn(cell')[a] # 0}
    BY DEF Sound
  <1>2. FreeCells' = G
    BY <1>1 DEF FreeCells, NextsIn
  <1> QED BY <1>2 DEF HeapInv, CellEnds, Nexts

\* One more block is given.
LEMMA OneGiven ==
  ASSUME HeapInv, NEW c \in FreeCells, NEW n \in SubaAsks,
         cells_given' = cells_given \cup {[at |-> c + POFF, size |-> n]},
         \A h \in HeldCells : cell'[h].size = cell[h].size, n <= cell'[c].size
  PROVE  GivenOK' /\ HeldCells' = HeldCells \cup {c}
  <1> DEFINE new == [at |-> c + POFF, size |-> n]
  <1>1. c \in Nat /\ c \in CellAddresses /\ POFF \in Nat /\ c \notin HeldCells
    BY InvFacts, AddressesAreNat, Sizes
  <1>2. new.at - POFF = c /\ new.size = n
    BY <1>1
  <1>3. new.at \in CellAddresses
    <2>1. CellEnds[c] <= SubaSize /\ CellEnds[c] = c + POFF + cell[c].size /\ cell[c].size \in Nat
      BY <1>1, InvFacts
    <2> QED BY <1>1, <2>1, Sizes DEF CellAddresses
  <1>4. \A b \in cells_given : b.at - POFF \in HeldCells /\ b.at \in Nat /\ b.at \in CellAddresses
    BY AddressesAreNat DEF HeldCells, HeapInv, GivenOK
  <1>5. HeldCells' = {b.at - POFF : b \in cells_given'}
    BY DEF HeldCells
  <1>6. HeldCells' = HeldCells \cup {c}
    BY <1>2, <1>5 DEF HeldCells
  <1>7. ASSUME NEW b \in cells_given'
        PROVE  /\ b.at \in CellAddresses /\ b.size \in SubaAsks
               /\ b.at - POFF \in CellAddresses /\ b.size <= cell'[b.at - POFF].size
    <2>1. CASE b = new
      BY <1>1, <1>2, <1>3, <2>1
    <2>2. CASE b \in cells_given
      BY <1>4, <2>2 DEF HeapInv, GivenOK
    <2> QED BY <2>1, <2>2
  <1>8. ASSUME NEW b \in cells_given', NEW d \in cells_given', b.at = d.at PROVE b = d
    <2>1. \A x \in cells_given : x.at # new.at
      BY <1>1, <1>2, <1>4
    <2>2. \A x, y \in cells_given : x.at = y.at => x = y
      BY DEF HeapInv, GivenOK
    <2> QED BY <1>8, <2>1, <2>2
  <1> QED BY <1>6, <1>7, <1>8 DEF GivenOK

\* A block is given back.
LEMMA OneBack ==
  ASSUME HeapInv, NEW b \in cells_given, cells_given' = cells_given \ {b},
         \A h \in HeldCells \ {b.at - POFF} : cell'[h].size = cell[h].size
  PROVE  GivenOK' /\ HeldCells' = HeldCells \ {b.at - POFF}
  <1>1. \A d \in cells_given : d.at - POFF \in HeldCells /\ d.at \in Nat
    BY AddressesAreNat DEF HeldCells, HeapInv, GivenOK
  <1>2. \A d \in cells_given : d # b => d.at - POFF # b.at - POFF
    <2>1. \A d \in cells_given : d # b => d.at # b.at
      BY DEF HeapInv, GivenOK
    <2> QED BY <1>1, <2>1, Sizes
  <1>3. HeldCells' = {d.at - POFF : d \in cells_given'}
    BY DEF HeldCells
  <1>4. HeldCells' = HeldCells \ {b.at - POFF}
    BY <1>2, <1>3 DEF HeldCells
  <1>5. \A d \in cells_given' : cell'[d.at - POFF].size = cell[d.at - POFF].size
    BY <1>1, <1>2
  <1> QED BY <1>4, <1>5 DEF HeapInv, GivenOK

\* A request that splits a cell.
LEMMA SplitStep ==
  ASSUME HeapInv, NEW n \in SubaAsks, NEW c1 \in FreeCells, NEW c2 \in FreeCells, cell[c1].next = c2,
         Splits(c2, Need(n)), Split(c1, c2, Need(n)),
         cells_given' = cells_given \cup {[at |-> c2 + POFF, size |-> n]}
  PROVE  HeapInv' /\ cell'[c2].size = Need(n)
  <1> DEFINE need == Need(n)
             c3 == c2 + POFF + need
             rest == cell[c2].size - (need + POFF)
             z == cell[c2].size
  <1>1. need \in Nat /\ n <= need /\ n \in Nat /\ POFF \in Nat \ {0} /\ SubaSize \in Nat
    BY NeedIsEnough, Sizes
  <1>2. /\ c1 \in CellAddresses /\ c2 \in CellAddresses /\ c1 \in Nat /\ c2 \in Nat /\ z \in Nat
        /\ CellEnds[c2] = c2 + POFF + z /\ CellEnds[c2] <= SubaSize
    BY InvFacts, AddressesAreNat
  <1>3. z > POFF + need + ALIGN(MinCell) /\ ALIGN(MinCell) \in Nat
    BY RoundedUp, Sizes DEF Splits
  <1>4. /\ c3 \in CellAddresses /\ c2 < c3 /\ c3 < CellEnds[c2] /\ c3 \in Nat /\ c3 # 0
        /\ need \in 0 .. SubaSize /\ rest \in 0 .. SubaSize
        /\ c3 + POFF + rest = CellEnds[c2]
    <2> HIDE DEF z, need
    <2> QED BY <1>1, <1>2, <1>3 DEF CellAddresses, z
  <1>5. c3 \notin FreeCells \cup HeldCells
    <2>1. \A d \in FreeCells \cup HeldCells : c2 < d => CellEnds[c2] <= d
      BY InvFacts
    <2>2. CellEnds[c2] \in Nat
      BY <1>2, InvFacts
    <2> HIDE DEF c3
    <2> QED BY <1>4, <2>1, <2>2
  <1> DEFINE m == cell'
  <1>6. cell' = [a \in CellAddresses |->
           CASE a = c2 -> [size |-> need, next |-> 0]
             [] a = c3 -> [size |-> rest, next |-> IF c1 = c2 THEN c3 ELSE cell[c2].next]
             [] a = c1 /\ c1 # c2 -> [cell[a] EXCEPT !.next = c3]
             [] OTHER -> cell[a]]
        /\ tail' = IF c2 = tail THEN c3 ELSE tail
    BY DEF Split
  <1> HIDE DEF c3, rest, need, z
  <1>7. /\ cell'[c2] = [size |-> need, next |-> 0]
        /\ cell'[c3] = [size |-> rest, next |-> IF c1 = c2 THEN c3 ELSE cell[c2].next]
        /\ c1 # c2 => cell'[c1] = [cell[c1] EXCEPT !.next = c3]
        /\ \A a \in CellAddresses : a # c2 /\ a # c3 /\ a # c1 => cell'[a] = cell[a]
    BY <1>2, <1>4, <1>5, <1>6
  <1>8. cell \in Memories /\ \A a \in CellAddresses : cell[a] \in [size : 0 .. SubaSize, next : CellAddresses]
    BY DEF HeapInv, Memories
  <1>9. cell' \in Memories
    <2>1. 0 \in CellAddresses
      BY Sizes DEF CellAddresses
    <2>2. \A a \in CellAddresses : cell'[a] \in [size : 0 .. SubaSize, next : CellAddresses]
      BY <1>2, <1>4, <1>7, <1>8, <2>1
    <2>3. cell' = [a \in CellAddresses |-> cell'[a]]
      BY <1>6
    <2> QED BY <2>2, <2>3 DEF Memories
  <1>10. /\ cell'[c2].size = need /\ cell'[c2].next = 0 /\ cell'[c3].size = rest
         /\ cell'[c3].next = IF c1 = c2 THEN c3 ELSE cell[c2].next
         /\ c1 # c2 => cell'[c1].next = c3 /\ cell'[c1].size = cell[c1].size
    BY <1>2, <1>7, <1>8
  <1>11. GivenOK' /\ HeldCells' = HeldCells \cup {c2}
    <2>1. \A h \in HeldCells : cell'[h].size = cell[h].size
      BY <1>5, <1>7, InvFacts
    <2> QED BY <1>1, <1>10, <2>1, OneGiven
  <1>12. Sound(EndsIn(cell'), NextsIn(cell'), (FreeCells \ {c2}) \cup {c3}, HeldCells \cup {c2}, tail')
    <2> DEFINE f == EndsIn(cell')
               r == NextsIn(cell')
    <2>1. f \in [CellAddresses -> Nat] /\ r \in [CellAddresses -> Nat]
      BY <1>9, MemoryFacts
    <2>2. \A a \in CellAddresses : f[a] = a + POFF + cell'[a].size /\ r[a] = cell'[a].next
      BY <1>9, MemoryFacts
    <2>3. \A a \in CellAddresses : CellEnds[a] = a + POFF + cell[a].size /\ Nexts[a] = cell[a].next
      BY InvFacts
    <2>4. f[c2] = c3 /\ f[c3] = CellEnds[c2]
      BY <1>2, <1>4, <1>10, <2>2 DEF c3
    <2>5. \A a \in CellAddresses : a # c2 /\ a # c3 => f[a] = CellEnds[a]
      BY <1>7, <1>10, <2>2, <2>3
    <2>6. /\ r[c2] = 0 /\ r[c3] = (IF c1 = c2 THEN c3 ELSE Nexts[c2]) /\ (c1 # c2 => r[c1] = c3)
          /\ \A a \in CellAddresses : a # c1 /\ a # c2 /\ a # c3 => r[a] = Nexts[a]
      BY <1>2, <1>4, <1>7, <1>10, <2>2, <2>3
    <2>7. Nexts[c1] = c2
      BY <1>2, <2>3
    <2>8. Sound(CellEnds, Nexts, FreeCells, HeldCells, tail)
      BY DEF HeapInv
    <2> HIDE DEF f, r
    <2>9. SplitAt(CellEnds, Nexts, FreeCells, tail, c1, c2, c3, f, r, tail')
      BY <1>4, <1>6, <2>4, <2>5, <2>6, <2>7 DEF SplitAt
    <2>10. Sound(f, r, (FreeCells \ {c2}) \cup {c3}, HeldCells \cup {c2}, tail')
      BY <1>4, <2>1, <2>8, <2>9, SplitSound
    <2> QED BY <2>10 DEF f, r
  <1> QED BY <1>9, <1>10, <1>11, <1>12, NextInv DEF need

\* A request that takes a whole cell.
TakesWhole(c1, c2) ==
  cell' = [cell EXCEPT ![c1].next = cell[c2].next, ![c2].next = 0] /\ UNCHANGED tail
LEMMA TakeStep ==
  ASSUME HeapInv, NEW n \in SubaAsks, NEW c1 \in FreeCells, NEW c2 \in FreeCells, cell[c1].next = c2,
         c2 # tail, Need(n) <= cell[c2].size,
         TakesWhole(c1, c2),
         cells_given' = cells_given \cup {[at |-> c2 + POFF, size |-> n]}
  PROVE  HeapInv' /\ n <= cell'[c2].size
  <1>1. Need(n) \in Nat /\ n <= Need(n) /\ n \in Nat
    BY NeedIsEnough
  <1>2. c1 \in CellAddresses /\ c2 \in CellAddresses /\ cell[c2].size \in Nat /\ 0 \in CellAddresses
    <2>1. 0 \in CellAddresses
      BY Sizes DEF CellAddresses
    <2> QED BY <2>1, InvFacts
  <1>3. c1 # c2
    <2>1. Ring(FreeCells, Nexts, tail) /\ Nexts[c2] = cell[c2].next
      BY <1>2, InvFacts DEF HeapInv, Sound
    <2> QED BY <1>2, <2>1, AddressesAreNat DEF Ring
  <1>4. cell \in Memories /\ \A a \in CellAddresses : cell[a] \in [size : 0 .. SubaSize, next : CellAddresses]
    BY DEF HeapInv, Memories
  <1>5. /\ cell'[c1] = [cell[c1] EXCEPT !.next = cell[c2].next]
        /\ cell'[c2] = [cell[c2] EXCEPT !.next = 0]
        /\ \A a \in CellAddresses : a # c1 /\ a # c2 => cell'[a] = cell[a]
    BY <1>2, <1>3, <1>4 DEF Memories, TakesWhole
  <1>6. cell' \in Memories
    <2>1. \A a \in CellAddresses : cell'[a] \in [size : 0 .. SubaSize, next : CellAddresses]
      BY <1>2, <1>4, <1>5
    <2>2. cell' = [a \in CellAddresses |-> cell'[a]]
      BY <1>4 DEF Memories, TakesWhole
    <2> QED BY <2>1, <2>2 DEF Memories
  <1>7. /\ \A a \in CellAddresses : cell'[a].size = cell[a].size
        /\ cell'[c1].next = cell[c2].next /\ cell'[c2].next = 0
    BY <1>2, <1>4, <1>5
  <1>8. n <= cell'[c2].size
    BY <1>1, <1>2, <1>7
  <1>9. GivenOK' /\ HeldCells' = HeldCells \cup {c2}
    BY <1>7, <1>8, InvFacts, OneGiven
  <1>10. Sound(EndsIn(cell'), NextsIn(cell'), FreeCells \ {c2}, HeldCells \cup {c2}, tail')
    <2> DEFINE f == EndsIn(cell')
               r == NextsIn(cell')
    <2>1. f \in [CellAddresses -> Nat] /\ r \in [CellAddresses -> Nat]
      BY <1>6, MemoryFacts
    <2>2. \A a \in CellAddresses : f[a] = a + POFF + cell'[a].size /\ r[a] = cell'[a].next
      BY <1>6, MemoryFacts
    <2>3. \A a \in CellAddresses : CellEnds[a] = a + POFF + cell[a].size /\ Nexts[a] = cell[a].next
      BY InvFacts
    <2>4. Sound(CellEnds, Nexts, FreeCells, HeldCells, tail)
      BY DEF HeapInv
    <2>5. f = CellEnds
      BY <1>7 DEF EndsIn, CellEnds
    <2> HIDE DEF f, r
    <2>6. TakenOut(Nexts, FreeCells, tail, c1, c2, r)
      <3>1. \A a \in CellAddresses : a # c1 /\ a # c2 => r[a] = Nexts[a]
        BY <1>5, <2>2, <2>3
      <3>2. r[c2] = 0 /\ r[c1] = Nexts[c2] /\ Nexts[c1] = c2
        BY <1>2, <1>7, <2>2, <2>3
      <3> QED BY <3>1, <3>2 DEF TakenOut
    <2>7. Sound(f, r, FreeCells \ {c2}, HeldCells \cup {c2}, tail)
      BY <2>1, <2>4, <2>5, <2>6, TakeSound
    <2>8. tail' = tail
      BY DEF TakesWhole
    <2> QED BY <2>7, <2>8 DEF f, r
  <1> QED BY <1>6, <1>8, <1>9, <1>10, NextInv

\* What comes back behind the last cell.
LEMMA AppendStep ==
  ASSUME HeapInv, NEW b \in cells_given, b.at - POFF > tail, AppendCell(b.at - POFF),
         cells_given' = cells_given \ {b}
  PROVE  HeapInv'
  <1> DEFINE c2 == b.at - POFF
  <1>1. c2 \in HeldCells /\ c2 \in CellAddresses /\ tail \in CellAddresses /\ 0 \in CellAddresses
    BY Sizes, InvFacts, SMTT(30) DEF HeapInv, GivenOK, HeldCells, CellAddresses
  <1> HIDE DEF c2
  <1>2. c2 \notin FreeCells /\ tail \in FreeCells /\ tail < c2 /\ c2 \in Nat /\ tail \in Nat /\ POFF \in Nat
    BY <1>1, InvFacts, AddressesAreNat, Sizes DEF c2
  <1>3. cell \in Memories /\ \A a \in CellAddresses : cell[a] \in [size : 0 .. SubaSize, next : CellAddresses]
    BY DEF HeapInv, Memories
  <1>4. Adjacent(tail, c2) <=> CellEnds[tail] = c2
    BY <1>1, InvFacts DEF Adjacent
  <1>5. \A d \in FreeCells : d <= tail
    BY DEF HeapInv, Sound, Ring
  <1>6. \A d \in FreeCells : CellEnds[c2] # d
    <2>1. c2 < CellEnds[c2] /\ CellEnds[c2] \in Nat
      BY <1>1, InvFacts
    <2>2. FreeCells \in SUBSET Nat
      BY InvFacts, AddressesAreNat
    <2> QED BY <1>2, <1>5, <2>1, <2>2
  <1>7. CASE Adjacent(tail, c2)
    <2>1. /\ cell' = [cell EXCEPT ![tail].size = @ + POFF + cell[c2].size, ![c2] = NoCell]
          /\ tail' = tail
      BY <1>7 DEF AppendCell, c2
    <2>2. /\ cell'[tail] = [cell[tail] EXCEPT !.size = @ + POFF + cell[c2].size]
          /\ cell'[c2] = NoCell
          /\ \A a \in CellAddresses : a # tail /\ a # c2 => cell'[a] = cell[a]
      BY <1>1, <1>2, <1>3, <2>1 DEF Memories
    <2>3. /\ cell'[tail].size = cell[tail].size + POFF + cell[c2].size
          /\ cell'[tail].next = cell[tail].next /\ cell'[c2].size = 0 /\ cell'[c2].next = 0
      BY <1>1, <1>3, <2>2 DEF NoCell
    <2>4. CellEnds[tail] = c2 /\ tail + POFF + cell'[tail].size = CellEnds[c2] /\ cell'[tail].size \in 0 .. SubaSize
      <3>1. /\ cell[tail].size \in Nat /\ cell[c2].size \in Nat /\ CellEnds[c2] <= SubaSize
            /\ CellEnds[tail] = tail + POFF + cell[tail].size /\ CellEnds[c2] = c2 + POFF + cell[c2].size
        BY <1>1, <1>2, InvFacts
      <3> QED BY <1>2, <1>4, <1>7, <2>3, <3>1, Sizes
    <2>5. cell' \in Memories
      <3>1. \A a \in CellAddresses : cell'[a] \in [size : 0 .. SubaSize, next : CellAddresses]
        <4>1. cell'[tail] = [size |-> cell'[tail].size, next |-> cell[tail].next]
          BY <1>1, <1>3, <2>2, <2>3
        <4>2. cell[tail].next \in CellAddresses
          BY <1>1, <1>3
        <4>3. NoCell \in [size : 0 .. SubaSize, next : CellAddresses]
          BY <1>1, Sizes DEF NoCell
        <4> QED BY <1>3, <2>2, <2>4, <4>1, <4>2, <4>3
      <3>2. cell' = [a \in CellAddresses |-> cell'[a]]
        BY <1>3, <2>1 DEF Memories
      <3> QED BY <3>1, <3>2 DEF Memories
    <2>6. GivenOK' /\ HeldCells' = HeldCells \ {c2}
      <3>1. \A h \in HeldCells \ {c2} : cell'[h].size = cell[h].size
        BY <1>2, <2>2, InvFacts
      <3> QED BY <3>1, OneBack DEF c2
    <2>7. Sound(EndsIn(cell'), NextsIn(cell'), FreeCells, HeldCells \ {c2}, tail')
      <3> DEFINE f == EndsIn(cell')
                 r == NextsIn(cell')
      <3>1. f \in [CellAddresses -> Nat] /\ r \in [CellAddresses -> Nat]
        BY <2>5, MemoryFacts
      <3>2. \A a \in CellAddresses : f[a] = a + POFF + cell'[a].size /\ r[a] = cell'[a].next
        BY <2>5, MemoryFacts
      <3>3. \A a \in CellAddresses : CellEnds[a] = a + POFF + cell[a].size /\ Nexts[a] = cell[a].next
        BY InvFacts
      <3>4. Sound(CellEnds, Nexts, FreeCells, HeldCells, tail)
        BY DEF HeapInv
      <3> HIDE DEF f, r
      <3>5. JoinsFront(CellEnds, Nexts, FreeCells, tail, c2, f, r)
        <4>0. \A a \in CellAddresses : a # tail /\ a # c2 => f[a] = CellEnds[a]
          BY <2>2, <3>2, <3>3
        <4>1. f[tail] = CellEnds[c2]
          BY <1>1, <2>4, <3>2
        <4>2. r[c2] = 0 /\ r[tail] = Nexts[tail]
          BY <1>1, <2>3, <3>2, <3>3
        <4>3. \A a \in CellAddresses : a # tail /\ a # c2 => r[a] = Nexts[a]
          BY <2>2, <3>2, <3>3
        <4> QED BY <1>2, <1>6, <2>4, <4>0, <4>1, <4>2, <4>3 DEF JoinsFront
      <3> HIDE DEF f, r
      <3>6. Sound(f, r, FreeCells, HeldCells \ {c2}, tail)
        BY <1>1, <3>1, <3>4, <3>5, JoinFrontSound
      <3> QED BY <2>1, <3>6 DEF f, r
    <2> QED BY <2>5, <2>6, <2>7, NextInv
  <1>8. CASE ~Adjacent(tail, c2)
    <2>1. cell' = [cell EXCEPT ![c2].next = cell[tail].next, ![tail].next = c2] /\ tail' = c2
      BY <1>8 DEF AppendCell, c2
    <2>2. /\ cell'[c2] = [cell[c2] EXCEPT !.next = cell[tail].next]
          /\ cell'[tail] = [cell[tail] EXCEPT !.next = c2]
          /\ \A a \in CellAddresses : a # tail /\ a # c2 => cell'[a] = cell[a]
      BY <1>1, <1>2, <1>3, <2>1 DEF Memories
    <2>3. /\ \A a \in CellAddresses : cell'[a].size = cell[a].size
          /\ cell'[c2].next = cell[tail].next /\ cell'[tail].next = c2
      BY <1>1, <1>3, <2>2
    <2>4. cell' \in Memories
      <3>1. \A a \in CellAddresses : cell'[a] \in [size : 0 .. SubaSize, next : CellAddresses]
        BY <1>1, <1>3, <2>2
      <3>2. cell' = [a \in CellAddresses |-> cell'[a]]
        BY <1>3, <2>1 DEF Memories
      <3> QED BY <3>1, <3>2 DEF Memories
    <2>5. GivenOK' /\ HeldCells' = HeldCells \ {c2}
      <3>1. \A h \in HeldCells \ {c2} : cell'[h].size = cell[h].size
        BY <2>3, InvFacts
      <3> QED BY <3>1, OneBack DEF c2
    <2>6. \A d \in FreeCells : CellEnds[d] # c2
      <3>1. \A d \in FreeCells : d # tail => d < tail /\ CellEnds[d] <= tail
        BY <1>2, <1>5, InvFacts, AddressesAreNat
      <3>2. \A d \in FreeCells : d # tail => CellEnds[d] # c2
        BY <1>2, <3>1
      <3> QED BY <1>4, <1>8, <3>2
    <2>7. Sound(EndsIn(cell'), NextsIn(cell'), FreeCells \cup {c2}, HeldCells \ {c2}, tail')
      <3> DEFINE f == EndsIn(cell')
                 r == NextsIn(cell')
      <3>1. f \in [CellAddresses -> Nat] /\ r \in [CellAddresses -> Nat]
        BY <2>4, MemoryFacts
      <3>2. \A a \in CellAddresses : f[a] = a + POFF + cell'[a].size /\ r[a] = cell'[a].next
        BY <2>4, MemoryFacts
      <3>3. \A a \in CellAddresses : CellEnds[a] = a + POFF + cell[a].size /\ Nexts[a] = cell[a].next
        BY InvFacts
      <3>4. Sound(CellEnds, Nexts, FreeCells, HeldCells, tail)
        BY DEF HeapInv
      <3>5. f = CellEnds
        BY <2>3 DEF EndsIn, CellEnds
      <3>6. Inserts(FreeCells, Nexts, tail, tail, c2, FreeCells \cup {c2}, r, c2)
        <4>1. \A d \in FreeCells : d # tail => r[d] = Nexts[d]
          BY <1>2, <2>2, <3>2, <3>3, InvFacts
        <4> QED BY <1>1, <1>2, <2>3, <3>2, <3>3, <4>1 DEF Inserts
      <3>7. PutIn(CellEnds, Nexts, FreeCells, tail, tail, c2, r, c2)
        BY <1>6, <2>2, <2>6, <3>2, <3>3, <3>6 DEF PutIn
      <3> HIDE DEF f, r
      <3>8. Sound(f, r, FreeCells \cup {c2}, HeldCells \ {c2}, c2)
        BY <1>1, <3>1, <3>4, <3>5, <3>7, InsertSound
      <3> QED BY <2>1, <3>8 DEF f, r
    <2> QED BY <2>4, <2>5, <2>7, NextInv
  <1> QED BY <1>7, <1>8

\* What comes back between two cells.
LEMMA InsertStep ==
  ASSUME HeapInv, NEW b \in cells_given, NEW c2, c2 = b.at - POFF, NEW c1 \in FreeCells, NEW c3,
         c3 = cell[c1].next, c2 < tail, c2 < c3, c1 = tail \/ c1 < c2,
         InsertBetween(c1, c2, c3), cells_given' = cells_given \ {b}
  PROVE  HeapInv'
  <1>0. c2 = b.at - POFF
    OBVIOUS
  <1>1. /\ c2 \in HeldCells /\ c2 \in CellAddresses /\ c1 \in CellAddresses /\ tail \in CellAddresses
        /\ c3 \in FreeCells /\ c3 \in CellAddresses
    <2>1. c2 \in HeldCells
      BY DEF HeldCells
    <2> QED BY <2>1, InvFacts
  <1>2. /\ c1 \in Nat /\ c2 \in Nat /\ c3 \in Nat /\ POFF \in Nat \ {0} /\ SubaSize \in Nat
        /\ FreeCells \in SUBSET Nat /\ CellEnds \in [CellAddresses -> Nat]
    BY <1>1, InvFacts, AddressesAreNat, Sizes
  <1>3. cell \in Memories /\ \A a \in CellAddresses : cell[a] \in [size : 0 .. SubaSize, next : CellAddresses]
    BY DEF HeapInv, Memories
  <1>4. c2 \notin FreeCells /\ c2 # c1 /\ c2 # c3 /\ 0 \in CellAddresses
    <2>1. 0 \in CellAddresses
      BY Sizes DEF CellAddresses
    <2> QED BY <1>1, <2>1, InvFacts
  <1>5. Ring(FreeCells, Nexts, tail) /\ Nexts \in [CellAddresses -> Nat] /\ Nexts[c1] = c3
    BY <1>1, InvFacts DEF HeapInv, Sound
  <1>6. /\ \A d \in FreeCells : c2 < d => c3 <= d
        /\ \A d \in FreeCells : d < c2 => d <= c1 /\ c1 < c2
    BY <1>2, <1>5 DEF Ring
  <1>7. /\ \A d \in FreeCells \cup HeldCells : d < CellEnds[d]
        /\ \A d, x \in FreeCells \cup HeldCells : d < x => CellEnds[d] <= x
    BY InvFacts
  <1>8. Adjacent(c1, c2) <=> CellEnds[c1] = c2
    BY <1>1, InvFacts DEF Adjacent
  <1>9. Adjacent(c2, c3) <=> CellEnds[c2] = c3
    BY <1>1, InvFacts DEF Adjacent
  <1>10. ASSUME ~Adjacent(c1, c2), NEW d \in FreeCells, CellEnds[d] = c2 PROVE FALSE
    <2>1. d < c2 /\ d \in Nat
      BY <1>2, <1>7, <1>10
    <2>2. d <= c1 /\ c1 < c2 /\ d # c1
      BY <1>6, <1>8, <1>10, <2>1
    <2>3. CellEnds[d] <= c1
      BY <1>2, <1>7, <2>1, <2>2
    <2> QED BY <1>2, <1>10, <2>2, <2>3
  <1>11. ASSUME ~Adjacent(c2, c3), NEW d \in FreeCells, CellEnds[c2] = d PROVE FALSE
    <2>1. c2 < d /\ d \in Nat
      BY <1>1, <1>2, <1>7, <1>11
    <2>2. c3 <= d /\ d # c3
      BY <1>6, <1>9, <1>11, <2>1
    <2>3. CellEnds[c2] <= c3
      BY <1>1, <1>7
    <2> QED BY <1>2, <1>11, <2>1, <2>2, <2>3
  <1>12. Adjacent(c1, c2) => c1 < c2 /\ c1 # c3
    BY <1>1, <1>2, <1>7, <1>8
  <1>13. cell[c3].next = c3 <=> c1 = c3
    <2>1. Nexts[c3] = cell[c3].next
      BY <1>1, InvFacts
    <2>2. Nexts[c3] = c3 => c1 = c3
      <3>1. FreeCells \in SUBSET CellAddresses /\ tail \in FreeCells
        BY InvFacts
      <3> QED BY <1>1, <1>5, <3>1, OnePredecessor, AddressesAreNat
    <2> QED BY <1>5, <2>1, <2>2
  <1>14. /\ \A a \in CellAddresses : cell[a].size \in Nat /\ cell[a].next \in CellAddresses
         /\ cell[c1].size \in 0 .. SubaSize /\ cell[c2].size \in 0 .. SubaSize /\ cell[c3].size \in 0 .. SubaSize
    BY <1>1, <1>3, InvFacts
  <1>15. NoCell \in [size : 0 .. SubaSize, next : CellAddresses] /\ NoCell.size = 0 /\ NoCell.next = 0
    BY <1>2, <1>4 DEF NoCell
  <1>16. /\ CellEnds[c1] = c1 + POFF + cell[c1].size /\ CellEnds[c2] = c2 + POFF + cell[c2].size
         /\ CellEnds[c3] = c3 + POFF + cell[c3].size
         /\ CellEnds[c1] <= SubaSize /\ CellEnds[c2] <= SubaSize /\ CellEnds[c3] <= SubaSize
    BY <1>1, InvFacts
  <1>17. CASE ~Adjacent(c1, c2) /\ ~Adjacent(c2, c3)
    <2>1. cell' = [a \in CellAddresses |-> cell'[a]] /\ tail' = tail
      BY <1>17 DEF InsertBetween
    <2>2. /\ cell'[c2] = [size |-> 0 + cell[c2].size + 0, next |-> c3]
          /\ cell'[c1] = [cell[c1] EXCEPT !.next = c2]
          /\ \A a \in CellAddresses : a # c1 /\ a # c2 => cell'[a] = cell[a]
      BY <1>1, <1>4, <1>17 DEF InsertBetween
    <2>3. /\ cell'[c2].size = cell[c2].size /\ cell'[c2].next = c3
          /\ cell'[c1].size = cell[c1].size /\ cell'[c1].next = c2
      BY <1>1, <1>3, <1>14, <2>2
    <2>4. cell' \in Memories
      <3>1. \A a \in CellAddresses : cell'[a] \in [size : 0 .. SubaSize, next : CellAddresses]
        BY <1>1, <1>3, <1>14, <2>2
      <3> QED BY <2>1, <3>1 DEF Memories
    <2>5. GivenOK' /\ HeldCells' = HeldCells \ {c2}
      <3>1. \A h \in HeldCells \ {c2} : cell'[h].size = cell[h].size
        BY <1>1, <1>4, <2>2, <2>3, InvFacts
      <3> QED BY <1>0, <3>1, OneBack
    <2>6. Sound(EndsIn(cell'), NextsIn(cell'), FreeCells \cup {c2}, HeldCells \ {c2}, tail')
      <3> DEFINE f == EndsIn(cell')
                 r == NextsIn(cell')
      <3>1. f \in [CellAddresses -> Nat] /\ r \in [CellAddresses -> Nat]
        BY <2>4, MemoryFacts
      <3>2. \A a \in CellAddresses : f[a] = a + POFF + cell'[a].size /\ r[a] = cell'[a].next
        BY <2>4, MemoryFacts
      <3>3. \A a \in CellAddresses : CellEnds[a] = a + POFF + cell[a].size /\ Nexts[a] = cell[a].next
        BY InvFacts
      <3>4. Sound(CellEnds, Nexts, FreeCells, HeldCells, tail)
        BY DEF HeapInv
      <3>5. f = CellEnds
        <4>1. \A a \in CellAddresses : cell'[a].size = cell[a].size
          BY <2>2, <2>3
        <4> QED BY <4>1 DEF EndsIn, CellEnds
      <3> HIDE DEF f, r
      <3>6. \A a \in CellAddresses : a # c1 /\ a # c2 => r[a] = Nexts[a]
        BY <2>2, <3>2, <3>3
      <3>7. r[c2] = Nexts[c1] /\ r[c1] = c2
        BY <1>1, <1>5, <2>3, <3>2
      <3>8. Inserts(FreeCells, Nexts, tail, c1, c2, FreeCells \cup {c2}, r, tail)
        <4>1. \A d \in FreeCells : d # c1 => r[d] = Nexts[d]
          BY <1>4, <3>6, InvFacts
        <4> QED BY <1>4, <1>5, <3>7, <4>1 DEF Inserts
      <3>9. PutIn(CellEnds, Nexts, FreeCells, tail, c1, c2, r, tail)
        BY <1>10, <1>11, <1>17, <3>6, <3>8 DEF PutIn
      <3>10. Sound(f, r, FreeCells \cup {c2}, HeldCells \ {c2}, tail)
        BY <1>1, <3>1, <3>4, <3>5, <3>9, InsertSound
      <3> QED BY <2>1, <3>10 DEF f, r
    <2> QED BY <2>4, <2>5, <2>6, NextInv
  <1>18. CASE Adjacent(c1, c2) /\ ~Adjacent(c2, c3)
    <2>1. cell' = [a \in CellAddresses |-> cell'[a]] /\ tail' = tail
      BY <1>18 DEF InsertBetween
    <2>2. /\ cell'[c1] = [size |-> cell[c1].size + POFF + cell[c2].size + 0, next |-> c3]
          /\ cell'[c2] = NoCell
          /\ \A a \in CellAddresses : a # c1 /\ a # c2 => cell'[a] = cell[a]
      BY <1>1, <1>4, <1>18 DEF InsertBetween
    <2>3. /\ cell'[c1].size = cell[c1].size + POFF + cell[c2].size /\ cell'[c1].next = c3
          /\ cell'[c2].next = 0
          /\ c1 + POFF + cell'[c1].size = CellEnds[c2] /\ cell'[c1].size \in 0 .. SubaSize
      <3>1. cell'[c1].size = cell[c1].size + POFF + cell[c2].size /\ cell'[c1].next = c3 /\ cell'[c2].next = 0
        BY <1>2, <1>14, <1>15, <2>2
      <3>2. c1 + POFF + cell[c1].size = c2
        BY <1>8, <1>16, <1>18
      <3> QED BY <1>2, <1>14, <1>16, <3>1, <3>2
    <2>4. cell' \in Memories
      <3>1. \A a \in CellAddresses : cell'[a] \in [size : 0 .. SubaSize, next : CellAddresses]
        BY <1>1, <1>3, <1>15, <2>2, <2>3
      <3> QED BY <2>1, <3>1 DEF Memories
    <2>5. GivenOK' /\ HeldCells' = HeldCells \ {c2}
      <3>1. \A h \in HeldCells \ {c2} : cell'[h].size = cell[h].size
        BY <1>1, <1>4, <2>2, <2>3, InvFacts
      <3> QED BY <1>0, <3>1, OneBack
    <2>6. Sound(EndsIn(cell'), NextsIn(cell'), FreeCells, HeldCells \ {c2}, tail')
      <3> DEFINE f == EndsIn(cell')
                 r == NextsIn(cell')
      <3>1. f \in [CellAddresses -> Nat] /\ r \in [CellAddresses -> Nat]
        BY <2>4, MemoryFacts
      <3>2. \A a \in CellAddresses : f[a] = a + POFF + cell'[a].size /\ r[a] = cell'[a].next
        BY <2>4, MemoryFacts
      <3>3. \A a \in CellAddresses : CellEnds[a] = a + POFF + cell[a].size /\ Nexts[a] = cell[a].next
        BY InvFacts
      <3>4. Sound(CellEnds, Nexts, FreeCells, HeldCells, tail)
        BY DEF HeapInv
      <3> HIDE DEF f, r
      <3>5. \A a \in CellAddresses : a # c1 /\ a # c2 => r[a] = Nexts[a]
        BY <2>2, <3>2, <3>3
      <3>6. \A a \in CellAddresses : a # c1 /\ a # c2 => f[a] = CellEnds[a]
        BY <2>2, <3>2, <3>3
      <3>7. f[c1] = CellEnds[c2] /\ r[c1] = Nexts[c1] /\ r[c2] = 0
        BY <1>1, <1>5, <2>3, <3>2
      <3>8. JoinsFront(CellEnds, Nexts, FreeCells, c1, c2, f, r)
        BY <1>8, <1>11, <1>18, <3>5, <3>6, <3>7 DEF JoinsFront
      <3>9. Sound(f, r, FreeCells, HeldCells \ {c2}, tail)
        BY <1>1, <3>1, <3>4, <3>8, JoinFrontSound
      <3> QED BY <2>1, <3>9 DEF f, r
    <2> QED BY <2>4, <2>5, <2>6, NextInv
  <1>19. CASE ~Adjacent(c1, c2) /\ Adjacent(c2, c3)
    <2>1. cell' = [a \in CellAddresses |-> cell'[a]] /\ tail' = IF c3 = tail THEN c2 ELSE tail
      BY <1>19 DEF InsertBetween
    <2>2. /\ cell'[c2] = [size |-> 0 + cell[c2].size + (POFF + cell[c3].size),
                          next |-> IF cell[c3].next = c3 THEN c2 ELSE cell[c3].next]
          /\ cell'[c3] = NoCell
          /\ c1 # c3 => cell'[c1] = [cell[c1] EXCEPT !.next = c2]
          /\ \A a \in CellAddresses : a # c1 /\ a # c2 /\ a # c3 => cell'[a] = cell[a]
      BY <1>1, <1>4, <1>19 DEF InsertBetween
    <2>3. /\ cell'[c2].next = (IF c1 = c3 THEN c2 ELSE cell[c3].next) /\ cell'[c3].next = 0
          /\ c1 # c3 => cell'[c1].size = cell[c1].size /\ cell'[c1].next = c2
          /\ c2 + POFF + cell'[c2].size = CellEnds[c3] /\ cell'[c2].size \in 0 .. SubaSize
      <3>1. cell'[c2].size = cell[c2].size + (POFF + cell[c3].size)
        BY <1>2, <1>14, <2>2
      <3>2. c2 + POFF + cell[c2].size = c3
        BY <1>9, <1>16, <1>19
      <3>3. c2 + POFF + cell'[c2].size = CellEnds[c3] /\ cell'[c2].size \in 0 .. SubaSize
        BY <1>2, <1>14, <1>16, <3>1, <3>2
      <3>4. cell'[c2].next = (IF c1 = c3 THEN c2 ELSE cell[c3].next) /\ cell'[c3].next = 0
        BY <1>13, <1>15, <2>2
      <3>5. c1 # c3 => cell'[c1].size = cell[c1].size /\ cell'[c1].next = c2
        BY <1>1, <1>3, <2>2
      <3> QED BY <3>3, <3>4, <3>5
    <2>4. cell' \in Memories
      <3>1. \A a \in CellAddresses : cell'[a] \in [size : 0 .. SubaSize, next : CellAddresses]
        <4>1. cell'[c2] = [size |-> cell'[c2].size, next |-> cell'[c2].next] /\ cell'[c2].next \in CellAddresses
          BY <1>1, <1>14, <2>2, <2>3
        <4>2. c1 # c3 => cell'[c1] \in [size : 0 .. SubaSize, next : CellAddresses]
          BY <1>1, <1>3, <2>2
        <4> QED BY <1>3, <1>15, <2>2, <2>3, <4>1, <4>2
      <3> QED BY <2>1, <3>1 DEF Memories
    <2>5. GivenOK' /\ HeldCells' = HeldCells \ {c2}
      <3>1. \A h \in HeldCells \ {c2} : cell'[h].size = cell[h].size
        BY <1>1, <1>4, <2>2, InvFacts
      <3> QED BY <1>0, <3>1, OneBack
    <2>6. Sound(EndsIn(cell'), NextsIn(cell'), (FreeCells \ {c3}) \cup {c2}, HeldCells \ {c2}, tail')
      <3> DEFINE f == EndsIn(cell')
                 r == NextsIn(cell')
      <3>1. f \in [CellAddresses -> Nat] /\ r \in [CellAddresses -> Nat]
        BY <2>4, MemoryFacts
      <3>2. \A a \in CellAddresses : f[a] = a + POFF + cell'[a].size /\ r[a] = cell'[a].next
        BY <2>4, MemoryFacts
      <3>3. \A a \in CellAddresses : CellEnds[a] = a + POFF + cell[a].size /\ Nexts[a] = cell[a].next
        BY InvFacts
      <3>4. Sound(CellEnds, Nexts, FreeCells, HeldCells, tail)
        BY DEF HeapInv
      <3> HIDE DEF f, r
      <3>5. \A a \in CellAddresses : a # c1 /\ a # c2 /\ a # c3 => r[a] = Nexts[a] /\ f[a] = CellEnds[a]
        BY <2>2, <3>2, <3>3
      <3>6. c1 # c3 => f[c1] = CellEnds[c1] /\ r[c1] = c2
        BY <1>1, <2>3, <3>2, <3>3
      <3>7. f[c2] = CellEnds[c3] /\ r[c2] = (IF c1 = c3 THEN c2 ELSE Nexts[c3]) /\ r[c3] = 0
        BY <1>1, <2>3, <3>2, <3>3
      <3>8. \A a \in CellAddresses : a # c2 /\ a # c3 => f[a] = CellEnds[a]
        BY <3>5, <3>6
      <3>9. JoinsBehind(CellEnds, Nexts, FreeCells, tail, c1, c2, c3, f, r, tail')
        BY <1>1, <1>5, <1>9, <1>10, <1>19, <2>1, <3>5, <3>6, <3>7, <3>8 DEF JoinsBehind
      <3>10. Sound(f, r, (FreeCells \ {c3}) \cup {c2}, HeldCells \ {c2}, tail')
        BY <1>1, <3>1, <3>4, <3>9, JoinBehindSound
      <3> QED BY <3>10 DEF f, r
    <2> QED BY <2>4, <2>5, <2>6, NextInv
  <1>20. CASE Adjacent(c1, c2) /\ Adjacent(c2, c3)
    <2>1. cell' = [a \in CellAddresses |-> cell'[a]] /\ tail' = IF c3 = tail THEN c1 ELSE tail
      BY <1>20 DEF InsertBetween
    <2>2. /\ cell'[c1] = [size |-> cell[c1].size + POFF + cell[c2].size + (POFF + cell[c3].size),
                          next |-> IF cell[c3].next = c3 THEN c1 ELSE cell[c3].next]
          /\ cell'[c2] = NoCell /\ cell'[c3] = NoCell
          /\ \A a \in CellAddresses : a # c1 /\ a # c2 /\ a # c3 => cell'[a] = cell[a]
      BY <1>1, <1>4, <1>12, <1>20 DEF InsertBetween
    <2>3. /\ cell'[c1].next = cell[c3].next /\ cell'[c2].next = 0 /\ cell'[c3].next = 0
          /\ c1 + POFF + cell'[c1].size = CellEnds[c3] /\ cell'[c1].size \in 0 .. SubaSize
      <3>1. cell'[c1].size = cell[c1].size + POFF + cell[c2].size + (POFF + cell[c3].size)
        BY <2>2
      <3>2. c1 + POFF + cell[c1].size = c2 /\ c2 + POFF + cell[c2].size = c3
        BY <1>8, <1>9, <1>16, <1>20
      <3>3. c1 + POFF + cell'[c1].size = CellEnds[c3] /\ cell'[c1].size \in 0 .. SubaSize
        BY <1>2, <1>14, <1>16, <3>1, <3>2
      <3>4. cell'[c1].next = cell[c3].next /\ cell'[c2].next = 0 /\ cell'[c3].next = 0
        BY <1>12, <1>13, <1>15, <1>20, <2>2
      <3> QED BY <3>3, <3>4
    <2>4. cell' \in Memories
      <3>1. \A a \in CellAddresses : cell'[a] \in [size : 0 .. SubaSize, next : CellAddresses]
        <4>1. cell'[c1] = [size |-> cell'[c1].size, next |-> cell'[c1].next] /\ cell'[c1].next \in CellAddresses
          BY <1>1, <1>14, <2>2, <2>3
        <4> QED BY <1>3, <1>15, <2>2, <2>3, <4>1
      <3> QED BY <2>1, <3>1 DEF Memories
    <2>5. GivenOK' /\ HeldCells' = HeldCells \ {c2}
      <3>1. \A h \in HeldCells \ {c2} : cell'[h].size = cell[h].size
        BY <1>1, <1>4, <2>2, InvFacts
      <3> QED BY <1>0, <3>1, OneBack
    <2>6. Sound(EndsIn(cell'), NextsIn(cell'), FreeCells \ {c3}, HeldCells \ {c2}, tail')
      <3> DEFINE f == EndsIn(cell')
                 r == NextsIn(cell')
      <3>1. f \in [CellAddresses -> Nat] /\ r \in [CellAddresses -> Nat]
        BY <2>4, MemoryFacts
      <3>2. \A a \in CellAddresses : f[a] = a + POFF + cell'[a].size /\ r[a] = cell'[a].next
        BY <2>4, MemoryFacts
      <3>3. \A a \in CellAddresses : CellEnds[a] = a + POFF + cell[a].size /\ Nexts[a] = cell[a].next
        BY InvFacts
      <3>4. Sound(CellEnds, Nexts, FreeCells, HeldCells, tail)
        BY DEF HeapInv
      <3> HIDE DEF f, r
      <3>5. \A a \in CellAddresses : a # c1 /\ a # c2 /\ a # c3 => r[a] = Nexts[a] /\ f[a] = CellEnds[a]
        BY <2>2, <3>2, <3>3
      <3>6. f[c1] = CellEnds[c3] /\ r[c1] = Nexts[c3] /\ r[c2] = 0 /\ r[c3] = 0
        BY <1>1, <2>3, <3>2, <3>3
      <3>7. JoinsBoth(CellEnds, Nexts, FreeCells, tail, c1, c2, c3, f, r, tail')
        BY <1>1, <1>5, <1>8, <1>9, <1>20, <2>1, <3>5, <3>6 DEF JoinsBoth
      <3>8. Sound(f, r, FreeCells \ {c3}, HeldCells \ {c2}, tail')
        BY <1>1, <3>1, <3>4, <3>7, JoinBothSound
      <3> QED BY <3>8 DEF f, r
    <2> QED BY <2>4, <2>5, <2>6, NextInv
  <1> QED BY <1>17, <1>18, <1>19, <1>20

LEMMA AllocStep ==
  ASSUME HeapInv, NEW n \in SubaAsks, MemAlloc(n)
  PROVE  /\ HeapInv'
         /\ \E c \in FreeCells : /\ n <= cell'[c].size
                                 /\ cells_given' = cells_given \cup {[at |-> c + POFF, size |-> n]}
  <1> DEFINE need == Need(n)
             k == StopsAt(need)
             c1 == Walk[k - 1]
             c2 == Walk[k]
  <1>1. need \in Nat /\ n <= need /\ n \in Nat
    BY NeedIsEnough
  <1>2. c1 \in FreeCells /\ c2 \in FreeCells /\ cell[c1].next = c2
    <2> HIDE DEF need
    <2> QED BY <1>1, Stops
  <1>3. /\ ~NoRoom(need)
        /\ IF Splits(c2, need) THEN Split(c1, c2, need) ELSE TakesWhole(c1, c2)
        /\ cells_given' = cells_given \cup {[at |-> c2 + POFF, size |-> n]}
    BY DEF MemAlloc, TakesWhole
  <1>4. ~(cell[c2].size < need) /\ ~(c2 = tail /\ ~Splits(c2, need))
    BY <1>3 DEF NoRoom
  <1> HIDE DEF c1, c2, k
  <1>5. CASE Splits(c2, need)
    <2>1. HeapInv' /\ cell'[c2].size = need
      BY <1>2, <1>3, <1>5, SplitStep
    <2> QED BY <1>1, <1>2, <1>3, <2>1
  <1>6. CASE ~Splits(c2, need)
    <2>1. need <= cell[c2].size /\ c2 # tail
      <3>1. cell[c2].size \in Nat
        BY <1>2, InvFacts
      <3> QED BY <1>1, <1>4, <1>6, <3>1
    <2>2. HeapInv' /\ n <= cell'[c2].size
      BY <1>2, <1>3, <1>6, <2>1, TakeStep
    <2> QED BY <1>2, <1>3, <2>2
  <1> QED BY <1>5, <1>6

LEMMA FreeStep ==
  ASSUME HeapInv, NEW b \in cells_given, MemFree(b)
  PROVE  HeapInv' /\ cells_given' = cells_given \ {b}
  <1> DEFINE c2 == b.at - POFF
             c1 == Walk[InsertionPoint(c2)]
  <1>1. /\ cells_given' = cells_given \ {b}
        /\ IF c2 > tail THEN AppendCell(c2) ELSE InsertBetween(c1, c2, cell[c1].next)
    BY DEF MemFree
  <1>2. c2 \in HeldCells
    BY DEF HeldCells
  <1>3. c2 \in CellAddresses /\ c2 \notin FreeCells /\ tail \in FreeCells /\ c2 \in Nat /\ tail \in Nat
    BY <1>2, InvFacts, AddressesAreNat
  <1>4. CASE c2 > tail
    BY <1>1, <1>4, AppendStep
  <1>5. CASE ~(c2 > tail)
    <2>1. c2 < tail
      BY <1>3, <1>5
    <2>2. c1 \in FreeCells /\ c2 <= cell[c1].next /\ (c1 = tail \/ c1 < c2)
      BY <1>3, <2>1, PlaceFound
    <2>3. cell[c1].next \in FreeCells /\ cell[c1].next \in Nat
      BY <2>2, InvFacts, AddressesAreNat
    <2>4. c2 < cell[c1].next
      BY <1>3, <2>2, <2>3
    <2>5. InsertBetween(c1, c2, cell[c1].next)
      BY <1>1, <1>5
    <2>6. c2 = b.at - POFF
      OBVIOUS
    <2> HIDE DEF c1, c2
    <2>7. HeapInv'
      BY <1>1, <2>1, <2>2, <2>4, <2>5, <2>6, InsertStep
    <2> QED BY <1>1, <2>7
  <1> QED BY <1>4, <1>5

LEMMA HeapBegins == SubaInit => HeapInv
  <1> SUFFICES ASSUME SubaInit PROVE HeapInv
    OBVIOUS
  <1> DEFINE z == SubaSize - (SubaHdr + POFF)
  <1>1. /\ SubaHdr \in CellAddresses /\ SubaHdr \in Nat \ {0} /\ z \in 0 .. SubaSize /\ 0 \in CellAddresses
        /\ SubaHdr + POFF + z = SubaSize /\ SubaHdr < SubaSize
    BY Sizes DEF CellAddresses
  <1> HIDE DEF z
  <1>2. /\ cell = [a \in CellAddresses |->
                     IF a = SubaHdr THEN [size |-> z, next |-> SubaHdr] ELSE NoCell]
        /\ tail = SubaHdr /\ cells_given = {}
    BY DEF SubaInit, z
  <1>3. NoCell \in [size : 0 .. SubaSize, next : CellAddresses] /\ NoCell.next = 0
    BY <1>1, Sizes DEF NoCell
  <1>4. cell \in Memories
    BY <1>1, <1>2, <1>3 DEF Memories
  <1>5. /\ cell[SubaHdr].size = z /\ cell[SubaHdr].next = SubaHdr
        /\ \A a \in CellAddresses : a # SubaHdr => cell[a].next = 0
    BY <1>1, <1>2, <1>3
  <1>6. FreeCells = {SubaHdr}
    BY <1>1, <1>5 DEF FreeCells
  <1>7. HeldCells = {}
    BY <1>2 DEF HeldCells
  <1>8. CellEnds \in [CellAddresses -> Nat] /\ Nexts \in [CellAddresses -> Nat]
        /\ CellEnds[SubaHdr] = SubaSize /\ Nexts[SubaHdr] = SubaHdr
        /\ \A a \in CellAddresses : Nexts[a] = cell[a].next
    <2>1. CellEnds[SubaHdr] = SubaHdr + POFF + cell[SubaHdr].size
      BY <1>1, <1>4, MemoryFacts DEF CellEnds
    <2>2. \A a \in CellAddresses : Nexts[a] = cell[a].next
      BY <1>4, MemoryFacts DEF Nexts
    <2> QED BY <1>1, <1>4, <1>5, <2>1, <2>2, MemoryFacts DEF CellEnds, Nexts
  <1>9. Sound(CellEnds, Nexts, {SubaHdr}, {}, SubaHdr)
    <2>1. {SubaHdr} = {a \in CellAddresses : Nexts[a] # 0}
      BY <1>1, <1>5, <1>8
    <2>2. Row({SubaHdr} \cup {}, CellEnds, SubaHdr, SubaSize)
      BY <1>1, <1>8, Sizes DEF Row
    <2>3. Ring({SubaHdr}, Nexts, SubaHdr)
      BY <1>1, <1>8 DEF Ring
    <2>4. Apart({SubaHdr}, CellEnds)
      BY <1>1, <1>8, Sizes DEF Apart
    <2> QED BY <1>8, <2>1, <2>2, <2>3, <2>4 DEF Sound
  <1> QED BY <1>2, <1>4, <1>6, <1>7, <1>9 DEF HeapInv, GivenOK

LEMMA HeapGoesOn == HeapInv /\ [SubaNext]_subaVars => HeapInv'
  <1> SUFFICES ASSUME HeapInv, [SubaNext]_subaVars PROVE HeapInv'
    OBVIOUS
  <1>1. ASSUME NEW n \in SubaAsks, MemAlloc(n) PROVE HeapInv'
    BY <1>1, AllocStep
  <1>2. CASE UNCHANGED subaVars
    BY <1>2 DEF subaVars, HeapInv, GivenOK, CellEnds, Nexts, FreeCells, HeldCells
  <1>3. ASSUME NEW n \in SubaAsks, MemAllocFails(n) PROVE HeapInv'
    BY <1>2, <1>3 DEF MemAllocFails
  <1>4. ASSUME NEW b \in cells_given, MemFree(b) PROVE HeapInv'
    BY <1>4, FreeStep
  <1> QED BY <1>1, <1>2, <1>3, <1>4 DEF SubaNext

LEMMA HeapAlways == SubaSpec => []HeapInv
  BY HeapBegins, HeapGoesOn, PTL DEF SubaSpec

-----------------------------------------------------------------------------
(* The theorems.                                                           *)

\* Headers stay in the heap, and so does what is given (suba.c:27-32).
THEOREM SubaTyped == SubaSpec => []SubaTypeOK
  <1>1. HeapInv => SubaTypeOK
    BY InvFacts DEF HeapInv, GivenOK, SubaTypeOK, Memories
  <1> QED BY <1>1, HeapAlways, PTL

LEMMA RangesApart ==
  ASSUME NEW a \in Int, NEW b \in Int, NEW c \in Int, NEW d \in Int, b < c
  PROVE  (a .. b) \cap (c .. d) = {} /\ (c .. d) \cap (a .. b) = {}
  OBVIOUS

\* Free and held cells make up the heap, without a gap and without overlap
\* (suba.c:150-163, 232-255).
THEOREM HeapIsCells == SubaSpec => []HeapIsCellsOnly
  <1>1. HeapInv => HeapIsCellsOnly
    <2> SUFFICES ASSUME HeapInv PROVE HeapIsCellsOnly
      OBVIOUS
    <2> DEFINE C == FreeCells \cup HeldCells
    <2>1. \A c \in C : CellBytes(c) = c .. CellEnds[c] - 1
      <3>1. \A c \in C : c \in CellAddresses
        BY InvFacts
      <3>2. \A c \in C : CellEnds[c] = c + POFF + cell[c].size
        BY <3>1, InvFacts
      <3> SUFFICES ASSUME NEW c \in C PROVE CellBytes(c) = c .. CellEnds[c] - 1
        OBVIOUS
      <3>3. cell[c].size \in Nat /\ c \in Nat /\ POFF \in Nat
        BY <3>1, InvFacts, AddressesAreNat, Sizes
      <3>4. c + POFF + cell[c].size - 1 = CellEnds[c] - 1
        BY <3>2, <3>3
      <3> QED BY <3>4, Zenon DEF CellBytes
    <2>2. /\ \A c \in C : c \in Nat /\ CellEnds[c] \in Nat
          /\ \A c \in C : SubaHdr <= c /\ c < CellEnds[c] /\ CellEnds[c] <= SubaSize
          /\ \A c, d \in C : c < d => CellEnds[c] <= d
          /\ \A x \in SubaHdr .. SubaSize - 1 : \E c \in C : c <= x /\ x < CellEnds[c]
      BY InvFacts, AddressesAreNat DEF HeapInv, Sound, Row
    <2> HIDE DEF C
    <2>3. UNION {CellBytes(c) : c \in C} = SubaHdr .. SubaSize - 1
      <3>1. ASSUME NEW c \in C, NEW x \in CellBytes(c) PROVE x \in SubaHdr .. SubaSize - 1
        BY <2>1, <2>2, <3>1, Sizes, SMTT(30)
      <3>2. ASSUME NEW x \in SubaHdr .. SubaSize - 1 PROVE \E c \in C : x \in CellBytes(c)
        BY <2>1, <2>2, Sizes, SMTT(30)
      <3> QED BY <3>1, <3>2
    <2>4. ASSUME NEW c \in C, NEW d \in C, c # d PROVE CellBytes(c) \cap CellBytes(d) = {}
      <3>1. ASSUME NEW x \in C, NEW y \in C, x < y PROVE CellBytes(x) \cap CellBytes(y) = {}
        <4>1. CellEnds[x] <= y /\ CellEnds[x] \in Nat /\ CellEnds[y] \in Nat /\ x \in Nat /\ y \in Nat
          BY <2>2, <3>1
        <4>2. CellBytes(x) = x .. CellEnds[x] - 1 /\ CellBytes(y) = y .. CellEnds[y] - 1
          BY <2>1
        <4>3. CellEnds[x] - 1 < y /\ CellEnds[x] - 1 \in Int /\ CellEnds[y] - 1 \in Int
          BY <4>1
        <4> QED BY <4>1, <4>2, <4>3, RangesApart
      <3>2. c < d \/ d < c
        BY <2>2, <2>4
      <3>3. CASE c < d
        BY <3>1, <3>3
      <3>4. CASE d < c
        BY <3>1, <3>4
      <3> QED BY <3>2, <3>3, <3>4
    <2>5. FreeCells \cap HeldCells = {}
      BY InvFacts
    <2> QED BY <2>3, <2>4, <2>5 DEF HeapIsCellsOnly, C
  <1> QED BY <1>1, HeapAlways, PTL

\* The free cells are one ring in the order of their addresses, and those that touch have
\* been joined (suba.c:212-255).
THEOREM FreeListIsARing == SubaSpec => []FreeListIsOneRing
  <1>1. HeapInv => FreeListIsOneRing
    <2> SUFFICES ASSUME HeapInv PROVE FreeListIsOneRing
      OBVIOUS
    <2>1. ASSUME NEW c \in FreeCells, NEW d \in FreeCells, Adjacent(c, d) PROVE FALSE
      <3>1. CellEnds[c] = d
        BY <2>1, InvFacts DEF Adjacent
      <3> QED BY <3>1 DEF HeapInv, Sound, Apart
    <2>2. FreeCells \in SUBSET Nat /\ \A c \in FreeCells : Nexts[c] = cell[c].next
      BY InvFacts, AddressesAreNat
    <2>3. Ring(FreeCells, Nexts, tail) /\ Nexts \in [CellAddresses -> Nat] /\ FreeCells \in SUBSET CellAddresses
      BY InvFacts DEF HeapInv, Sound
    <2>4. ASSUME NEW c \in FreeCells
          PROVE  IF c = tail THEN \A d \in FreeCells : cell[c].next <= d /\ d <= c
                 ELSE cell[c].next > c /\ ~\E d \in FreeCells : c < d /\ d < cell[c].next
      <3>1. CASE c = tail
        BY <2>2, <2>3, <3>1 DEF Ring
      <3>2. CASE c # tail
        BY <2>2, <2>3, <3>2 DEF Ring
      <3> QED BY <3>1, <3>2
    <2> QED BY <2>1, <2>4 DEF FreeListIsOneRing
  <1> QED BY <1>1, HeapAlways, PTL

\* suba.c implements the abstract heap: what it gives is memory of the heap that nobody
\* else holds, and stays so until it is given back (kogmo_rtdb_rtmalloc.c:31-60).
THEOREM SubaImplementsHeap == SubaSpec => SubaIsAHeap
  <1>1. SubaInit => SubaHeap!HeapInit
    BY DEF SubaInit, SubaHeap!HeapInit
  <1>2. HeapInv /\ [SubaNext]_subaVars => [SubaHeap!HeapNext]_cells_given
    <2> SUFFICES ASSUME HeapInv, [SubaNext]_subaVars PROVE [SubaHeap!HeapNext]_cells_given
      OBVIOUS
    <2>1. ASSUME NEW n \in SubaAsks, MemAlloc(n) PROVE SubaHeap!GiveBlock
      <3>1. HeapInv'
        BY <2>1, AllocStep
      <3>2. PICK c \in FreeCells : /\ n <= cell'[c].size
                                   /\ cells_given' = cells_given \cup {[at |-> c + POFF, size |-> n]}
        BY <2>1, AllocStep
      <3> DEFINE new == [at |-> c + POFF, size |-> n]
      <3> DEFINE size(a) == cell'[a].size
                 Data(b) == b.at .. b.at + b.size - 1
      <3>3. /\ c \in CellAddresses /\ c \in Nat /\ POFF \in Nat /\ n \in Nat \ {0}
            /\ c \notin HeldCells /\ new.at = c + POFF /\ new.size = n /\ new.at - POFF = c
        <4>1. c \in CellAddresses /\ c \notin HeldCells
          BY InvFacts
        <4>2. c \in Nat /\ POFF \in Nat /\ n \in Nat \ {0}
          BY <4>1, AddressesAreNat, Sizes
        <4> QED BY <4>1, <4>2
      <3>4. \A b \in cells_given : b.at - POFF \in HeldCells
        BY DEF HeldCells
      <3>5. new \notin cells_given
        BY <3>3, <3>4
      <3>6. /\ \A b \in cells_given' : b.at \in CellAddresses /\ b.size \in SubaAsks
            /\ \A b \in cells_given' : b.at - POFF \in HeldCells' /\ b.size <= size(b.at - POFF)
        BY <3>1 DEF HeapInv, GivenOK, HeldCells
      <3>7. /\ \A a \in HeldCells' : a \in CellAddresses /\ size(a) \in Nat
            /\ \A a \in HeldCells' : SubaHdr <= a /\ a + POFF + size(a) <= SubaSize
            /\ \A a, d \in HeldCells' : a < d => a + POFF + size(a) <= d
        <4> DEFINE e == EndsIn(cell')
        <4>1. cell' \in Memories /\ Sound(e, NextsIn(cell'), FreeCells', HeldCells', tail')
          BY <3>1 DEF HeapInv, CellEnds, Nexts
        <4>2. \A a \in CellAddresses : e[a] = a + POFF + size(a) /\ size(a) \in Nat
          BY <4>1, MemoryFacts
        <4> HIDE DEF e
        <4>3. /\ FreeCells' \cup HeldCells' \in SUBSET CellAddresses
              /\ \A a \in FreeCells' \cup HeldCells' : SubaHdr <= a /\ e[a] <= SubaSize
              /\ \A a, d \in FreeCells' \cup HeldCells' : a < d => e[a] <= d
          BY <4>1, SoundFacts
        <4>4. \A a \in HeldCells' : a \in CellAddresses /\ e[a] = a + POFF + size(a) /\ size(a) \in Nat
          BY <4>2, <4>3
        <4> HIDE DEF size
        <4> QED BY <4>3, <4>4
      <3> HIDE DEF new, size
      <3>8. \A b \in cells_given' :
              /\ b.at - POFF \in HeldCells' /\ b.at \in Nat /\ b.size \in Nat
              /\ b.at - POFF + POFF = b.at /\ SubaHdr <= b.at - POFF
              /\ b.at + b.size <= b.at + size(b.at - POFF) /\ b.at + size(b.at - POFF) <= SubaSize
        <4> TAKE b \in cells_given'
        <4>1. b.at - POFF \in HeldCells' /\ b.at \in Nat /\ b.size \in Nat /\ b.size <= size(b.at - POFF)
          BY <3>6, AddressesAreNat, Sizes
        <4>2. size(b.at - POFF) \in Nat /\ SubaHdr <= b.at - POFF /\ b.at - POFF + POFF + size(b.at - POFF) <= SubaSize
          BY <3>7, <4>1
        <4> QED BY <4>1, <4>2, Sizes
      <3>9. new \in cells_given' /\ cells_given \subseteq cells_given'
        BY <3>2 DEF new
      <3>10. Data(new) \subseteq SubaHdr .. SubaSize - 1
        <4>1. /\ new.at \in Nat /\ new.size \in Nat /\ new.at - POFF \in HeldCells'
              /\ new.at + new.size <= new.at + size(new.at - POFF)
              /\ new.at + size(new.at - POFF) <= SubaSize /\ SubaHdr <= new.at - POFF
          BY <3>8, <3>9
        <4>2. size(new.at - POFF) \in Nat
          BY <3>7, <4>1
        <4>3. SubaHdr <= new.at /\ new.at + new.size <= SubaSize
          BY <4>1, <4>2, Sizes
        <4> QED BY <4>1, <4>3, Sizes
      <3>11. ASSUME NEW other \in cells_given PROVE Data(other) \cap Data(new) = {}
        <4> DEFINE a == other.at - POFF
        <4>1. /\ a \in HeldCells' /\ c \in HeldCells' /\ a # c /\ new.at = c + POFF /\ other.at = a + POFF
              /\ a \in Nat /\ new.at \in Nat /\ new.size \in Nat /\ other.at \in Nat /\ other.size \in Nat
          BY <3>3, <3>4, <3>7, <3>8, <3>9, AddressesAreNat
        <4>2. /\ other.at + other.size <= a + POFF + size(a)
              /\ new.at + new.size <= c + POFF + size(c)
          BY <3>3, <3>8, <3>9, <4>1
        <4>3. size(a) \in Nat /\ size(c) \in Nat /\ POFF \in Nat
          BY <3>7, <4>1, Sizes
        <4> HIDE DEF a
        <4>4. CASE a < c
          <5>1. a + POFF + size(a) <= c
            BY <3>7, <4>1, <4>4
          <5>2. other.at + other.size - 1 < new.at
            BY <3>3, <4>1, <4>2, <4>3, <5>1
          <5> QED BY <4>1, <5>2, RangesApart
        <4>5. CASE c < a
          <5>1. c + POFF + size(c) <= a
            BY <3>7, <4>1, <4>5
          <5>2. new.at + new.size - 1 < other.at
            BY <3>3, <4>1, <4>2, <4>3, <5>1
          <5> QED BY <4>1, <5>2, RangesApart
        <4> QED BY <3>3, <4>1, <4>4, <4>5
      <3>12. cells_given' = cells_given \cup {new}
        BY <3>2 DEF new
      <3> QED BY <3>5, <3>9, <3>10, <3>11, <3>12 DEF SubaHeap!GiveBlock, SubaHeap!Bytes
    <2>2. ASSUME NEW n \in SubaAsks, MemAllocFails(n) PROVE UNCHANGED cells_given
      BY <2>2 DEF MemAllocFails, subaVars
    <2>3. ASSUME NEW b \in cells_given, MemFree(b) PROVE SubaHeap!TakeBack
      BY <2>3, FreeStep DEF SubaHeap!TakeBack
    <2>4. CASE UNCHANGED subaVars
      BY <2>4 DEF subaVars
    <2> QED BY <2>1, <2>2, <2>3, <2>4 DEF SubaNext, SubaHeap!HeapNext
  <1> QED BY <1>1, <1>2, HeapAlways, PTL DEF SubaSpec, SubaIsAHeap, SubaHeap!HeapSpec

-----------------------------------------------------------------------------
(* tlsf.c: powers of two, and the classes of sizes. *)

LEMMA Pow2Is ==
  /\ Pow2[0] = 1
  /\ \A i \in 0 .. 29 : Pow2[i + 1] = 2 * Pow2[i]
  <1> DEFINE IsIt(f) == f = [i \in 0 .. 30 |-> IF i = 0 THEN 1 ELSE 2 * f[i - 1]]
             twice == [x \in Nat |-> 2 * x]
  <1>1. HasWalk(30, Nat, twice, 1)
    <2>1. twice \in [Nat -> Nat] /\ 30 \in Nat /\ 1 \in Nat
      OBVIOUS
    <2> HIDE DEF twice
    <2> QED BY <2>1, AWalk
  <1>2. PICK f \in [0 .. 30 -> Nat] : f[0] = 1 /\ \A k \in 1 .. 30 : f[k] = 2 * f[k - 1]
    <2>1. PICK f \in [0 .. 30 -> Nat] : f[0] = 1 /\ \A k \in 1 .. 30 : f[k] = twice[f[k - 1]]
      BY <1>1 DEF HasWalk
    <2>2. \A k \in 1 .. 30 : f[k - 1] \in Nat
      BY <2>1
    <2> QED BY <2>1, <2>2
  <1>3. IsIt(f)
    <2>1. \A i \in 0 .. 30 : f[i] = IF i = 0 THEN 1 ELSE 2 * f[i - 1]
      BY <1>2
    <2>2. f = [i \in 0 .. 30 |-> f[i]]
      OBVIOUS
    <2> QED BY <2>1, <2>2
  <1>4. IsIt(Pow2)
    <2>1. Pow2 = CHOOSE g : IsIt(g)
      BY DEF Pow2
    <2> HIDE DEF IsIt
    <2> QED BY <1>3, <2>1
  <1>5. \A i \in 0 .. 30 : Pow2[i] = IF i = 0 THEN 1 ELSE 2 * Pow2[i - 1]
    <2> DEFINE g == Pow2
    <2>1. g = [i \in 0 .. 30 |-> IF i = 0 THEN 1 ELSE 2 * g[i - 1]]
      BY <1>4
    <2> HIDE DEF g
    <2>2. \A i \in 0 .. 30 : g[i] = IF i = 0 THEN 1 ELSE 2 * g[i - 1]
      BY <2>1
    <2> QED BY <2>2 DEF g
  <1> QED BY <1>5

\* The powers of two, and that they grow.
LEMMA Pow2Nat == \A i \in 0 .. 30 : Pow2[i] \in Nat \ {0}
  <1> DEFINE S == {i \in Nat : Pow2[i] \in Nat \ {0}}
  <1>1. 0 \in S
    BY Pow2Is
  <1>2. ASSUME NEW i \in 0 .. 30 - 1, i \in S PROVE i + 1 \in S
    BY <1>2, Pow2Is
  <1>3. 0 .. 30 \subseteq S
    <2> HIDE DEF S
    <2>1. 30 \in Nat
      OBVIOUS
    <2> QED BY <1>1, <1>2, <2>1, InductionUpTo
  <1> QED BY <1>3

LEMMA Pow2Grows == \A i, j \in 0 .. 30 : i <= j => Pow2[i] <= Pow2[j]
  <1> SUFFICES ASSUME NEW i \in 0 .. 30 PROVE \A j \in 0 .. 30 : i <= j => Pow2[i] <= Pow2[j]
    OBVIOUS
  <1> DEFINE S == {j \in Nat : i <= j => Pow2[i] <= Pow2[j]}
  <1>1. 0 \in S
    BY Pow2Nat
  <1>2. ASSUME NEW j \in 0 .. 30 - 1, j \in S PROVE j + 1 \in S
    <2>1. Pow2[j] \in Nat /\ Pow2[i] \in Nat /\ Pow2[j + 1] = 2 * Pow2[j]
      BY Pow2Is, Pow2Nat, SMTT(30)
    <2>2. CASE i <= j
      BY <1>2, <2>1, <2>2
    <2>3. CASE ~(i <= j)
      <3>1. i <= j + 1 => i = j + 1
        BY <2>3
      <3> QED BY <2>1, <3>1, Pow2Nat
    <2> QED BY <2>2, <2>3
  <1>3. 0 .. 30 \subseteq S
    <2> HIDE DEF S
    <2>1. 30 \in Nat
      OBVIOUS
    <2> QED BY <1>1, <1>2, <2>1, InductionUpTo
  <1> QED BY <1>3

\* A shift by i + j is a shift by i and one by j.
LEMMA Pow2Sum == \A i, j \in 0 .. 30 : i + j <= 30 => Pow2[i + j] = Pow2[i] * Pow2[j]
  <1> SUFFICES ASSUME NEW i \in 0 .. 30
               PROVE  \A j \in 0 .. 30 : i + j <= 30 => Pow2[i + j] = Pow2[i] * Pow2[j]
    OBVIOUS
  <1> DEFINE S == {j \in Nat : i + j <= 30 => Pow2[i + j] = Pow2[i] * Pow2[j]}
  <1>1. 0 \in S
    BY Pow2Is, Pow2Nat
  <1>2. ASSUME NEW j \in 0 .. 30 - 1, j \in S PROVE j + 1 \in S
    <2> SUFFICES ASSUME i + (j + 1) <= 30 PROVE Pow2[i + (j + 1)] = Pow2[i] * Pow2[j + 1]
      OBVIOUS
    <2>1. i + j \in 0 .. 29 /\ i + (j + 1) = (i + j) + 1 /\ j \in 0 .. 29
      OBVIOUS
    <2>2. Pow2[i + (j + 1)] = 2 * Pow2[i + j] /\ Pow2[j + 1] = 2 * Pow2[j]
      BY <2>1, Pow2Is
    <2>3. Pow2[i + j] = Pow2[i] * Pow2[j]
      BY <1>2, <2>1
    <2>4. Pow2[i] \in Nat /\ Pow2[j] \in Nat
      BY <2>1, Pow2Nat
    <2>5. 2 * (Pow2[i] * Pow2[j]) = Pow2[i] * (2 * Pow2[j])
      <3> DEFINE a == Pow2[i]
                 b == Pow2[j]
      <3>1. a \in Int /\ b \in Int
        BY <2>4
      <3> HIDE DEF a, b
      <3>2. 2 * (a * b) = a * (2 * b)
        BY <3>1
      <3> QED BY <3>2 DEF a, b
    <2> QED BY <2>2, <2>3, <2>5
  <1>3. 0 .. 30 \subseteq S
    <2> HIDE DEF S
    <2>1. 30 \in Nat
      OBVIOUS
    <2> QED BY <1>1, <1>2, <2>1, InductionUpTo
  <1> QED BY <1>3

\* fls is the position of the highest bit.
LEMMA HighestBit ==
  ASSUME NEW x \in Nat \ {0}, x < Pow2[30]
  PROVE  fls(x) \in 0 .. 29 /\ Pow2[fls(x)] <= x /\ x < Pow2[fls(x) + 1]
  <1> DEFINE S == {i \in 0 .. 30 : x < Pow2[i]}
  <1>1. PICK i \in S : \A j \in S : i <= j
    <2>1. S \in SUBSET Nat /\ 30 \in S
      OBVIOUS
    <2> HIDE DEF S
    <2> QED BY <2>1, LeastNat
  <1>2. i # 0
    BY <1>1, Pow2Is
  <1>3. i - 1 \in 0 .. 29 /\ i - 1 \notin S /\ i - 1 \in 0 .. 30
    BY <1>1, <1>2
  <1>4. Pow2[i - 1] <= x /\ x < Pow2[(i - 1) + 1]
    BY <1>1, <1>3, Pow2Nat
  <1> QED BY <1>3, <1>4 DEF fls

LEMMA HighestBitIs ==
  ASSUME NEW x \in Nat \ {0}, NEW i \in 0 .. 29, Pow2[i] <= x, x < Pow2[i + 1]
  PROVE  fls(x) = i
  <1> DEFINE k == fls(x)
  <1>1. k \in 0 .. 29 /\ Pow2[k] <= x /\ x < Pow2[k + 1]
    BY DEF fls
  <1>2. /\ \A j \in 0 .. 30 : Pow2[j] \in Nat
        /\ \A j, m \in 0 .. 30 : j <= m => Pow2[j] <= Pow2[m]
    BY Pow2Grows, Pow2Nat
  <1> HIDE DEF k
  <1>3. ~(k + 1 <= i)
    BY <1>1, <1>2
  <1>4. ~(i + 1 <= k)
    BY <1>1, <1>2
  <1> QED BY <1>1, <1>3, <1>4 DEF k
-----------------------------------------------------------------------------
(* Classes of sizes. *)

LEMMA DividesBy ==
  ASSUME NEW x \in Nat, NEW d \in Nat \ {0}
  PROVE  x \div d \in Nat /\ (x \div d) * d <= x /\ x < (x \div d) * d + d
  <1> DEFINE q == x \div d
             m == x % d
  <1>1. q \in Int /\ m \in 0 .. d - 1 /\ x = d * q + m
    BY Z3
  <1> HIDE DEF q, m
  <1>2. q >= 0
    <2> SUFFICES ASSUME q <= -1 PROVE FALSE
      BY <1>1
    <2>1. d * q <= d * (-1)
      BY <1>1, Z3
    <2> QED BY <1>1, <2>1
  <1>3. d * q = q * d /\ d * q \in Int
    BY <1>1
  <1>4. q * d <= x /\ x < q * d + d
    BY <1>1, <1>3
  <1> QED BY <1>1, <1>2, <1>4 DEF q

\* What lies between two multiples.
LEMMA DividesByIs ==
  ASSUME NEW x \in Nat, NEW d \in Nat \ {0}, NEW k \in Nat, k * d <= x, x < k * d + d
  PROVE  x \div d = k
  <1> DEFINE q == x \div d
  <1>1. q \in Nat /\ q * d <= x /\ x < q * d + d
    BY DividesBy
  <1> HIDE DEF q
  <1>2. q * d \in Int /\ k * d \in Int /\ q * d < k * d + d /\ k * d < q * d + d
    BY <1>1
  <1>3. ASSUME q >= k + 1 PROVE FALSE
    <2>1. q * d >= (k + 1) * d
      BY <1>1, <1>3, Z3
    <2>2. (k + 1) * d = k * d + d
      BY <1>1
    <2> QED BY <1>2, <2>1, <2>2
  <1>4. ASSUME k >= q + 1 PROVE FALSE
    <2>1. k * d >= (q + 1) * d
      BY <1>1, <1>4, Z3
    <2>2. (q + 1) * d = q * d + d
      BY <1>1
    <2> QED BY <1>2, <2>1, <2>2
  <1> QED BY <1>1, <1>3, <1>4 DEF q

LEMMA DividesByGrows ==
  ASSUME NEW x \in Nat, NEW d \in Nat \ {0}, NEW k \in Nat
  PROVE  /\ k * d <= x => k <= x \div d
         /\ k <= x \div d => k * d <= x
         /\ x < k * d => x \div d < k
  <1> DEFINE q == x \div d
  <1>1. q \in Nat /\ q * d <= x /\ x < q * d + d /\ q * d \in Nat /\ k * d \in Nat
    BY DividesBy
  <1> HIDE DEF q
  <1>2. ASSUME q + 1 <= k PROVE q * d + d <= k * d
    <2>1. (q + 1) * d <= k * d
      BY <1>1, <1>2, Z3
    <2>2. (q + 1) * d = q * d + d
      BY <1>1
    <2> QED BY <2>1, <2>2
  <1>3. ASSUME k <= q PROVE k * d <= q * d
    BY <1>1, <1>3, Z3
  <1>4. (k * d <= x => k <= q) /\ (k <= q => k * d <= x) /\ (x < k * d => q < k)
    BY <1>1, <1>2, <1>3
  <1> QED BY <1>4 DEF q
Limit == Pow2[MAX_FLI]

LEMMA TlsfSizes ==
  /\ TlsfSize \in Nat \ {0} /\ TlsfHdr \in Nat \ {0} /\ REAL_FLI \in Nat \ {0} /\ MIN_BLOCK_SIZE \in Nat \ {0}
  /\ MAX_LOG2_SLI \in Nat \ {0} /\ FLI_OFFSET = MAX_LOG2_SLI + 1 /\ MAX_FLI = REAL_FLI + FLI_OFFSET
  /\ MAX_FLI \in FLI_OFFSET + 1 .. 30 /\ MAX_LOG2_SLI + 2 \in 0 .. 30
  /\ TlsfHdr % 4 = 0 /\ MIN_BLOCK_SIZE % 4 = 0 /\ TlsfSize - TlsfHdr - 8 >= MIN_BLOCK_SIZE
  /\ Limit \in Nat /\ TlsfSize < Limit
  /\ TlsfAsks \subseteq Nat \ {0}
  BY TlsfAssumption, Pow2Nat DEF MAX_FLI, BHDR_OVERHEAD, Limit

LEMMA SmallBlocks ==
  /\ MAX_SLI \in Nat \ {0} /\ SMALL_BLOCK = 4 * MAX_SLI /\ SMALL_BLOCK \div MAX_SLI = 4
  /\ SMALL_BLOCK <= Limit
  <1>1. MAX_SLI \in Nat \ {0}
    BY TlsfSizes, Pow2Nat DEF MAX_SLI
  <1>2. FLI_OFFSET + 1 = (MAX_LOG2_SLI + 1) + 1 /\ MAX_LOG2_SLI + 1 \in 0 .. 29 /\ MAX_LOG2_SLI \in 0 .. 29
    BY TlsfSizes
  <1>3. SMALL_BLOCK = 4 * MAX_SLI
    BY <1>1, <1>2, Pow2Is DEF SMALL_BLOCK, MAX_SLI
  <1>4. SMALL_BLOCK \div MAX_SLI = 4
    BY <1>1, <1>3, DividesByIs
  <1>5. SMALL_BLOCK <= Limit
    BY TlsfSizes, Pow2Grows DEF SMALL_BLOCK, Limit
  <1> QED BY <1>1, <1>3, <1>4, <1>5

LEMMA ClassOfSmall ==
  ASSUME NEW s \in Nat, s < SMALL_BLOCK
  PROVE  ClassOf(s) = <<0, s \div 4>> /\ s \div 4 \in SLs
  <1>1. ClassOf(s) = <<0, s \div 4>>
    BY SmallBlocks DEF ClassOf
  <1>2. s \div 4 \in SLs
    BY SmallBlocks DEF SLs
  <1> QED BY <1>1, <1>2

\* Where a size that is not small lies: step is the width of its class.
Spans(s, f, step) ==
  /\ f \in FLI_OFFSET + 1 .. MAX_FLI - 1 /\ step \in Nat \ {0} /\ step % 4 = 0
  /\ Pow2[f] = MAX_SLI * step /\ Pow2[f + 1] = 2 * (MAX_SLI * step)
  /\ Pow2[f] <= s /\ s < Pow2[f + 1]
  /\ fls(s) = f /\ step = Pow2[f - MAX_LOG2_SLI]

LEMMA Widths ==
  ASSUME NEW f \in FLI_OFFSET + 1 .. 29
  PROVE  /\ Pow2[f - MAX_LOG2_SLI] \in Nat \ {0} /\ Pow2[f - MAX_LOG2_SLI] % 4 = 0
         /\ Pow2[f] = MAX_SLI * Pow2[f - MAX_LOG2_SLI]
         /\ Pow2[f + 1] = 2 * (MAX_SLI * Pow2[f - MAX_LOG2_SLI])
  <1> DEFINE k == f - MAX_LOG2_SLI
  <1>1. k \in 2 .. 30 /\ f = MAX_LOG2_SLI + k /\ MAX_LOG2_SLI \in 0 .. 30 /\ f \in 0 .. 29
    BY TlsfSizes
  <1>2. Pow2[f] = MAX_SLI * Pow2[k] /\ Pow2[f + 1] = 2 * Pow2[f]
    BY <1>1, Pow2Sum, Pow2Is DEF MAX_SLI
  <1>3. Pow2[k] \in Nat \ {0} /\ Pow2[k - 2] \in Nat /\ Pow2[k] = 4 * Pow2[k - 2]
    <2>1. k - 2 \in 0 .. 29 /\ k - 1 \in 0 .. 29 /\ (k - 2) + 1 = k - 1 /\ (k - 1) + 1 = k
      BY <1>1
    <2>2. Pow2[k - 1] = 2 * Pow2[k - 2] /\ Pow2[k] = 2 * Pow2[k - 1]
      BY <2>1, Pow2Is
    <2> QED BY <1>1, <2>1, <2>2, Pow2Nat
  <1>4. Pow2[k] % 4 = 0
    <2> DEFINE a == Pow2[k]
               b == Pow2[k - 2]
    <2>1. a \in Nat /\ b \in Nat /\ a = 4 * b
      BY <1>3
    <2> HIDE DEF a, b
    <2>2. a % 4 = 0
      BY <2>1
    <2> QED BY <2>2 DEF a
  <1> QED BY <1>2, <1>3, <1>4

LEMMA SpansOf ==
  ASSUME NEW s \in Nat, SMALL_BLOCK <= s, s < Limit
  PROVE  Spans(s, fls(s), Pow2[fls(s) - MAX_LOG2_SLI])
  <1> DEFINE f == fls(s)
  <1>1. SMALL_BLOCK \in Nat \ {0} /\ s # 0
    BY SmallBlocks
  <1>2. Limit <= Pow2[30]
    BY TlsfSizes, Pow2Grows DEF Limit
  <1>3. f \in 0 .. 29 /\ Pow2[f] <= s /\ s < Pow2[f + 1]
    BY <1>1, <1>2, HighestBit, TlsfSizes, Pow2Nat
  <1> HIDE DEF f
  <1>4. f + 1 > FLI_OFFSET + 1
    <2> SUFFICES ASSUME f + 1 <= FLI_OFFSET + 1 PROVE FALSE
      BY <1>3, TlsfSizes
    <2>1. Pow2[f + 1] <= SMALL_BLOCK
      BY <1>3, TlsfSizes, Pow2Grows DEF SMALL_BLOCK
    <2> QED BY <1>3, <2>1, SmallBlocks, Pow2Nat
  <1>5. f < MAX_FLI
    <2> SUFFICES ASSUME MAX_FLI <= f PROVE FALSE
      BY <1>3, TlsfSizes
    <2>1. Limit <= Pow2[f]
      BY <1>3, TlsfSizes, Pow2Grows DEF Limit
    <2> QED BY <1>3, <2>1, TlsfSizes, Pow2Nat
  <1>6. f \in FLI_OFFSET + 1 .. MAX_FLI - 1 /\ f \in FLI_OFFSET + 1 .. 29
    BY <1>3, <1>4, <1>5, TlsfSizes
  <1> QED BY <1>3, <1>6, Widths DEF Spans, f

LEMMA ClassOfLarge ==
  ASSUME NEW s \in Nat, SMALL_BLOCK <= s, NEW f, NEW step, Spans(s, f, step)
  PROVE  /\ ClassOf(s) = <<f - FLI_OFFSET, s \div step - MAX_SLI>>
         /\ f - FLI_OFFSET \in 1 .. REAL_FLI - 1 /\ s \div step - MAX_SLI \in SLs
  <1>1. ClassOf(s) = <<f - FLI_OFFSET, s \div step - MAX_SLI>>
    BY SmallBlocks DEF ClassOf, Spans
  <1>2. f - FLI_OFFSET \in 1 .. REAL_FLI - 1
    BY TlsfSizes DEF Spans
  <1>3. step \in Nat \ {0} /\ MAX_SLI * step <= s /\ s < (2 * MAX_SLI) * step
    BY SmallBlocks DEF Spans
  <1>4. s \div step \in Nat /\ MAX_SLI <= s \div step /\ s \div step < 2 * MAX_SLI
    <2> DEFINE k == 2 * MAX_SLI
    <2>1. MAX_SLI \in Nat /\ k \in Nat
      BY SmallBlocks
    <2>2. s < k * step
      BY <1>3
    <2> HIDE DEF k
    <2>3. s \div step \in Nat
      BY <1>3, DividesBy
    <2>4. MAX_SLI <= s \div step
      BY <1>3, <2>1, DividesByGrows
    <2>5. s \div step < k
      BY <1>3, <2>1, <2>2, DividesByGrows
    <2> QED BY <2>3, <2>4, <2>5 DEF k
  <1>5. s \div step - MAX_SLI \in SLs
    BY <1>4, SmallBlocks DEF SLs
  <1> QED BY <1>1, <1>2, <1>5

\* Every size has a list.
LEMMA ClassExists ==
  ASSUME NEW s \in Nat, s < Limit
  PROVE  ClassOf(s) \in FLs \X SLs
  <1>1. CASE s < SMALL_BLOCK
    <2>1. 0 \in FLs
      BY TlsfSizes DEF FLs
    <2> QED BY <1>1, <2>1, ClassOfSmall
  <1>2. CASE SMALL_BLOCK <= s
    <2>1. \A x \in 1 .. REAL_FLI - 1 : x \in FLs
      BY TlsfSizes DEF FLs
    <2> QED BY <1>2, <2>1, SpansOf, ClassOfLarge
  <1> QED BY <1>1, <1>2, SmallBlocks

\* No class has a smaller block than the search wants: r is what is asked for, in words, and
\* x a block whose class is not before the one that the search begins with.
NotBefore(c, d) == c[1] > d[1] \/ (c[1] = d[1] /\ c[2] >= d[2])

LEMMA SearchRounds ==
  ASSUME NEW r \in Nat \ {0}, r < Limit, r % 4 = 0
  PROVE  SearchSize(r) \in Nat /\ r <= SearchSize(r) /\ SearchSize(r) % 4 = 0
  <1>1. CASE r < SMALL_BLOCK
    BY <1>1 DEF SearchSize
  <1>2. CASE SMALL_BLOCK <= r
    <2> DEFINE step == Pow2[fls(r) - MAX_LOG2_SLI]
               q == (r + step - 1) \div step
    <2>1. step \in Nat \ {0} /\ step % 4 = 0
      BY <1>2, SpansOf DEF Spans
    <2>2. SearchSize(r) = q * step
      BY <1>2, SmallBlocks DEF SearchSize
    <2> HIDE DEF step
    <2>3. r + step - 1 \in Nat
      BY <2>1
    <2>4. q \in Nat /\ r + step - 1 < q * step + step
      BY <2>1, <2>3, DividesBy
    <2> HIDE DEF q
    <2>5. q * step \in Nat /\ r <= q * step
      BY <2>1, <2>4
    <2>6. (q * step) % 4 = 0
      <3>1. PICK k \in Nat : step = 4 * k
        <4>1. step = 4 * (step \div 4) /\ step \div 4 \in Nat
          BY <2>1
        <4> QED BY <4>1
      <3>2. q * step = 4 * (q * k) /\ q * k \in Nat
        BY <2>4, <3>1
      <3> DEFINE m == q * k
      <3> HIDE DEF m
      <3>3. q * step = 4 * m /\ m \in Nat
        BY <3>2 DEF m
      <3> QED BY <3>3
    <2> QED BY <2>2, <2>5, <2>6
  <1> QED BY <1>1, <1>2, SmallBlocks

\* What the search wants is where its class begins.
BeginsClass(w) ==
  \/ w < SMALL_BLOCK /\ w % 4 = 0
  \/ /\ SMALL_BLOCK <= w
     /\ \E q \in Nat : w = q * Pow2[fls(w) - MAX_LOG2_SLI]

LEMMA SearchBeginsClass ==
  ASSUME NEW r \in Nat \ {0}, r < Limit, r % 4 = 0, SearchSize(r) < Limit
  PROVE  BeginsClass(SearchSize(r))
  <1>1. CASE r < SMALL_BLOCK
    BY <1>1 DEF SearchSize, BeginsClass
  <1>2. CASE SMALL_BLOCK <= r
    <2> DEFINE f == fls(r)
               step == Pow2[f - MAX_LOG2_SLI]
               q == (r + step - 1) \div step
    <2>1. Spans(r, f, step)
      BY <1>2, SpansOf
    <2>2. SearchSize(r) = q * step
      BY <1>2, SmallBlocks DEF SearchSize
    <2>3. f \in FLI_OFFSET + 1 .. MAX_FLI - 1
      BY <2>1 DEF Spans
    <2>4. f \in 0 .. 29 /\ f + 1 \in 0 .. 30 /\ f - MAX_LOG2_SLI \in 0 .. 29
      BY <2>3, TlsfSizes
    <2> HIDE DEF f
    <2>5. step \in Nat \ {0} /\ Pow2[f] = MAX_SLI * step /\ r < 2 * (MAX_SLI * step)
          /\ Pow2[f + 1] = 2 * (MAX_SLI * step) /\ MAX_SLI * step <= r
      BY <2>1 DEF Spans
    <2>6. Pow2[f - MAX_LOG2_SLI + 1] = 2 * step
      BY <2>4, Pow2Is
    <2> HIDE DEF step
    <2>7. r + step - 1 \in Nat
      BY <2>5
    <2>8. q \in Nat /\ q * step <= r + step - 1 /\ r + step - 1 < q * step + step
      BY <2>5, <2>7, DividesBy
    <2>9. q <= 2 * MAX_SLI
      <3> DEFINE k == 2 * MAX_SLI + 1
      <3>1. k \in Nat /\ k * step = 2 * (MAX_SLI * step) + step
        BY <2>5, SmallBlocks
      <3>2. MAX_SLI * step \in Nat
        BY <2>5, SmallBlocks
      <3> HIDE DEF k, q
      <3>3. r + step - 1 < k * step
        BY <2>5, <3>1, <3>2
      <3>4. (r + step - 1) \div step < k
        BY <2>5, <2>7, <3>1, <3>3, DividesByGrows
      <3> QED BY <2>8, <3>4, SmallBlocks DEF k, q
    <2> HIDE DEF q
    <2>10. MAX_SLI \in Nat /\ MAX_SLI * step <= q * step /\ q * step \in Nat
      <3>1. MAX_SLI * step \in Nat /\ q * step \in Nat
        BY <2>5, <2>8, SmallBlocks
      <3> QED BY <2>5, <2>8, <3>1, SmallBlocks
    <2>11. SMALL_BLOCK <= SearchSize(r)
      <3>1. r <= SearchSize(r) /\ SearchSize(r) \in Nat
        BY SearchRounds
      <3> QED BY <1>2, <3>1, SmallBlocks
    <2>12. CASE q * step < Pow2[f + 1]
      <3>1. q * step \in Nat \ {0} /\ Pow2[f] <= q * step
        BY <2>2, <2>5, <2>10, <2>11, SmallBlocks
      <3>2. fls(q * step) = f
        BY <2>4, <2>12, <3>1, HighestBitIs
      <3> QED BY <2>2, <2>8, <2>11, <3>2 DEF BeginsClass, step
    <2>13. CASE ~(q * step < Pow2[f + 1])
      <3>1. q = 2 * MAX_SLI
        <4>1. ASSUME q <= 2 * MAX_SLI - 1 PROVE FALSE
          <5>1. q * step <= (2 * MAX_SLI - 1) * step
            BY <2>5, <2>8, <4>1, SmallBlocks, Z3
          <5>2. (2 * MAX_SLI - 1) * step = 2 * (MAX_SLI * step) - step
            BY <2>5, SmallBlocks
          <5>3. MAX_SLI * step \in Nat
            BY <2>5, SmallBlocks
          <5> QED BY <2>5, <2>10, <2>13, <5>1, <5>2, <5>3
        <4> QED BY <2>8, <2>9, <4>1, SmallBlocks
      <3>2. q * step = Pow2[f + 1] /\ q * step = MAX_SLI * (2 * step)
        BY <2>5, <3>1, SmallBlocks
      <3>3. f + 1 \in 0 .. 29
        <4>1. Pow2[f + 1] < Limit
          BY <2>2, <3>2
        <4>2. f + 1 # MAX_FLI
          BY <4>1, TlsfSizes DEF Limit
        <4> QED BY <2>3, <4>2, TlsfSizes
      <3>4. Pow2[f + 1] \in Nat \ {0} /\ Pow2[f + 1] < Pow2[(f + 1) + 1]
        BY <3>3, Pow2Nat, Pow2Is
      <3>5. fls(q * step) = f + 1
        BY <3>2, <3>3, <3>4, HighestBitIs
      <3>6. (f + 1) - MAX_LOG2_SLI = f - MAX_LOG2_SLI + 1
        BY <2>4, TlsfSizes
      <3>7. q * step = MAX_SLI * Pow2[fls(q * step) - MAX_LOG2_SLI]
        BY <2>6, <3>2, <3>5, <3>6
      <3> QED BY <2>2, <2>10, <2>11, <3>7 DEF BeginsClass
    <2> QED BY <2>12, <2>13
  <1> QED BY <1>1, <1>2, SmallBlocks

LEMMA ClassesFit ==
  ASSUME NEW w \in Nat, w < Limit, BeginsClass(w), NEW s \in Nat, s < Limit, NotBefore(ClassOf(s), ClassOf(w))
  PROVE  w <= s
  <1>0. SMALL_BLOCK \in Nat
    BY SmallBlocks
  <1>1. CASE w < SMALL_BLOCK /\ s < SMALL_BLOCK
    <2>1. ClassOf(s) = <<0, s \div 4>> /\ ClassOf(w) = <<0, w \div 4>>
      BY <1>1, ClassOfSmall
    <2>2. s \div 4 >= w \div 4 /\ w % 4 = 0
      BY <1>1, <2>1, <1>0 DEF NotBefore, BeginsClass
    <2> QED BY <2>2
  <1>2. CASE w < SMALL_BLOCK /\ SMALL_BLOCK <= s
    BY <1>0, <1>2
  <1>3. CASE SMALL_BLOCK <= w /\ s < SMALL_BLOCK
    <2> DEFINE f == fls(w)
               step == Pow2[f - MAX_LOG2_SLI]
    <2>1. Spans(w, f, step)
      BY <1>3, SpansOf
    <2>2. ClassOf(w)[1] = f - FLI_OFFSET /\ f - FLI_OFFSET \in 1 .. REAL_FLI - 1
      BY <1>3, <2>1, ClassOfLarge
    <2>3. ClassOf(s)[1] = 0
      BY <1>3, ClassOfSmall
    <2> QED BY <2>2, <2>3, TlsfSizes DEF NotBefore
  <1>4. CASE SMALL_BLOCK <= w /\ SMALL_BLOCK <= s
    <2> DEFINE f == fls(w)
               step == Pow2[f - MAX_LOG2_SLI]
               g == fls(s)
               other == Pow2[g - MAX_LOG2_SLI]
    <2>1. Spans(w, f, step) /\ Spans(s, g, other)
      BY <1>4, SpansOf
    <2>2. /\ ClassOf(w) = <<f - FLI_OFFSET, w \div step - MAX_SLI>>
          /\ ClassOf(s) = <<g - FLI_OFFSET, s \div other - MAX_SLI>>
      BY <1>4, <2>1, ClassOfLarge
    <2>3. PICK q \in Nat : w = q * step
      BY <1>0, <1>4 DEF BeginsClass
    <2>4. /\ f \in 0 .. 29 /\ g \in 0 .. 29 /\ f \in Nat /\ g \in Nat /\ FLI_OFFSET \in Nat
          /\ step \in Nat \ {0} /\ w < Pow2[f + 1] /\ Pow2[g] <= s
      BY <2>1, TlsfSizes DEF Spans
    <2>5. CASE f = g
      <3>1. step = other /\ w \div step \in Nat /\ s \div step \in Nat
        BY <2>4, <2>5, DividesBy
      <3>2. w \div step = q
        <4>1. q * step <= w /\ w < q * step + step
          BY <2>3, <2>4
        <4> HIDE DEF step
        <4> QED BY <2>3, <2>4, <4>1, DividesByIs
      <3>3. s \div step >= w \div step
        <4> DEFINE a == s \div step
                   b == w \div step
        <4>1. ClassOf(w) = <<f - FLI_OFFSET, b - MAX_SLI>> /\ ClassOf(s) = <<f - FLI_OFFSET, a - MAX_SLI>>
          BY <2>2, <2>5, <3>1
        <4>2. a \in Nat /\ b \in Nat
          BY <3>1
        <4> HIDE DEF a, b, f
        <4>3. a - MAX_SLI >= b - MAX_SLI
          BY <2>4, <4>1 DEF NotBefore
        <4>4. a >= b
          BY <4>2, <4>3, SmallBlocks
        <4> QED BY <4>4 DEF a, b
      <3> HIDE DEF step
      <3>4. q <= s \div step
        BY <2>3, <3>1, <3>2, <3>3
      <3>5. q * step <= s
        BY <2>3, <2>4, <3>4, DividesByGrows
      <3> QED BY <2>3, <3>5
    <2>6. CASE f # g
      <3>1. g - FLI_OFFSET > f - FLI_OFFSET
        <4> HIDE DEF f, g
        <4> QED BY <2>2, <2>4, <2>6 DEF NotBefore
      <3>2. f + 1 <= g
        BY <2>4, <3>1
      <3>3. f + 1 \in 0 .. 30 /\ g \in 0 .. 30
        BY <2>4
      <3>4. Pow2[f + 1] <= Pow2[g] /\ Pow2[f + 1] \in Nat /\ Pow2[g] \in Nat
        <4> HIDE DEF f, g
        <4> QED BY <3>2, <3>3, Pow2Grows, Pow2Nat
      <3> QED BY <2>4, <3>4
    <2> QED BY <2>5, <2>6
  <1> QED BY <1>0, <1>1, <1>2, <1>3, <1>4

LEMMA WantedFits ==
  ASSUME NEW n \in TlsfAsks
  PROVE  /\ Wanted(n) \in Nat /\ n <= Wanted(n) /\ Wanted(n) % 4 = 0 /\ Wanted(n) > 0
         /\ ClassOf(Wanted(n)) \in FLs \X SLs
         /\ \A s \in Nat : s < Limit /\ NotBefore(ClassOf(s), ClassOf(Wanted(n))) => Wanted(n) <= s
  <1> DEFINE r == IF n < MIN_BLOCK_SIZE THEN MIN_BLOCK_SIZE ELSE ROUNDUP_SIZE(n)
             w == Wanted(n)
  <1>1. n \in Nat \ {0} /\ ROUNDUP_SIZE(n) < Limit /\ w < Limit
    BY TlsfAssumption DEF Limit
  <1>2. n <= ROUNDUP_SIZE(n) /\ ROUNDUP_SIZE(n) % 4 = 0 /\ ROUNDUP_SIZE(n) \in Nat
    BY <1>1 DEF ROUNDUP_SIZE
  <1>3. r \in Nat \ {0} /\ r < Limit /\ r % 4 = 0 /\ n <= r
    BY <1>1, <1>2, TlsfSizes
  <1>4. w = SearchSize(r)
    BY DEF Wanted
  <1> HIDE DEF r, w
  <1>5. w \in Nat /\ r <= w /\ w % 4 = 0
    BY <1>3, <1>4, SearchRounds
  <1>6. BeginsClass(w)
    BY <1>1, <1>3, <1>4, SearchBeginsClass
  <1>7. ClassOf(w) \in FLs \X SLs
    BY <1>1, <1>5, ClassExists
  <1>8. \A s \in Nat : s < Limit /\ NotBefore(ClassOf(s), ClassOf(w)) => w <= s
    BY <1>1, <1>5, <1>6, ClassesFit
  <1>9. n <= w /\ w > 0
    BY <1>1, <1>3, <1>5
  <1> QED BY <1>5, <1>7, <1>8, <1>9 DEF w

-----------------------------------------------------------------------------
(* Lists. *)

\* q lists every member of S once.
ListsOnce(q, S) ==
  /\ q \in Seq(BlockAddresses)
  /\ S = {q[i] : i \in DOMAIN q}
  /\ \A i, j \in DOMAIN q : q[i] = q[j] => i = j

LEMMA WithoutOne ==
  ASSUME NEW q, NEW S, ListsOnce(q, S), NEW b \in S
  PROVE  ListsOnce(Unlinked(q, b), S \ {b})
  <1> DEFINE p == CHOOSE i \in DOMAIN q : q[i] = b
             w == Unlinked(q, b)
  <1>1. q \in Seq(BlockAddresses) /\ DOMAIN q = 1 .. Len(q) /\ Len(q) \in Nat
        /\ \A i \in 1 .. Len(q) : q[i] \in BlockAddresses
    BY DEF ListsOnce
  <1>2. p \in 1 .. Len(q) /\ q[p] = b
    BY <1>1 DEF ListsOnce
  <1>3. w = [i \in 1 .. Len(q) - 1 |-> IF i < p THEN q[i] ELSE q[i + 1]]
    BY DEF Unlinked
  <1>4. \A i, j \in 1 .. Len(q) : q[i] = q[j] => i = j
    BY <1>1 DEF ListsOnce
  <1> HIDE DEF p, w
  <1> DEFINE old(i) == IF i < p THEN i ELSE i + 1
  <1>5. \A i \in 1 .. Len(q) - 1 : old(i) \in 1 .. Len(q) /\ old(i) # p /\ w[i] = q[old(i)]
    BY <1>1, <1>2, <1>3
  <1>6. w \in Seq(BlockAddresses)
    <2>1. w \in [1 .. Len(q) - 1 -> BlockAddresses] /\ Len(q) - 1 \in Nat
      BY <1>1, <1>2, <1>3
    <2> QED BY <2>1
  <1>7. DOMAIN w = 1 .. Len(q) - 1
    BY <1>3
  <1>8. \A i, j \in DOMAIN w : w[i] = w[j] => i = j
    <2>1. \A i, j \in 1 .. Len(q) - 1 : old(i) = old(j) => i = j
      BY <1>1, <1>2
    <2> HIDE DEF old
    <2> QED BY <1>4, <1>5, <1>7, <2>1
  <1>9. ASSUME NEW x \in S \ {b} PROVE \E i \in DOMAIN w : w[i] = x
    <2>1. PICK k \in 1 .. Len(q) : q[k] = x /\ k # p
      BY <1>1, <1>2 DEF ListsOnce
    <2>2. CASE k < p
      <3>1. k \in 1 .. Len(q) - 1 /\ w[k] = x
        BY <1>1, <1>2, <1>3, <2>1, <2>2
      <3> QED BY <1>7, <3>1
    <2>3. CASE p < k
      <3>1. k - 1 \in 1 .. Len(q) - 1 /\ ~(k - 1 < p) /\ (k - 1) + 1 = k
        BY <1>1, <1>2, <2>1, <2>3
      <3>2. w[k - 1] = x
        BY <1>3, <2>1, <3>1
      <3> QED BY <1>7, <3>1, <3>2
    <2> QED BY <1>2, <2>1, <2>2, <2>3
  <1>10. ASSUME NEW i \in DOMAIN w PROVE w[i] \in S \ {b}
    <2>1. old(i) \in 1 .. Len(q) /\ old(i) # p /\ w[i] = q[old(i)]
      BY <1>5, <1>7
    <2> HIDE DEF old
    <2>2. q[old(i)] \in S /\ q[old(i)] # b
      BY <1>1, <1>2, <1>4, <2>1 DEF ListsOnce
    <2> QED BY <2>1, <2>2
  <1>11. S \ {b} = {w[i] : i \in DOMAIN w}
    BY <1>9, <1>10
  <1> QED BY <1>6, <1>8, <1>11 DEF ListsOnce, w

LEMMA WithAnother ==
  ASSUME NEW q, NEW S, ListsOnce(q, S), NEW b \in BlockAddresses, b \notin S
  PROVE  ListsOnce(<<b>> \o q, S \cup {b})
  <1> DEFINE w == <<b>> \o q
  <1>1. q \in Seq(BlockAddresses) /\ DOMAIN q = 1 .. Len(q) /\ Len(q) \in Nat
    BY DEF ListsOnce
  <1>2. w \in Seq(BlockAddresses) /\ DOMAIN w = 1 .. Len(q) + 1 /\ w[1] = b
    BY <1>1
  <1>3. \A i \in 2 .. Len(q) + 1 : w[i] = q[i - 1] /\ i - 1 \in 1 .. Len(q)
    BY <1>1
  <1>4. \A i \in 1 .. Len(q) : q[i] \in S
    BY <1>1 DEF ListsOnce
  <1>5. \A i, j \in 1 .. Len(q) : q[i] = q[j] => i = j
    BY <1>1 DEF ListsOnce
  <1> HIDE DEF w
  <1>6. ASSUME NEW i \in DOMAIN w, NEW j \in DOMAIN w, w[i] = w[j] PROVE i = j
    <2>1. CASE i = 1 /\ j = 1
      BY <2>1
    <2>2. CASE i = 1 /\ j # 1
      <3>1. j \in 2 .. Len(q) + 1
        BY <1>1, <1>2, <2>2
      <3> QED BY <1>2, <1>3, <1>4, <1>6, <2>2, <3>1
    <2>3. CASE i # 1 /\ j = 1
      <3>1. i \in 2 .. Len(q) + 1
        BY <1>1, <1>2, <2>3
      <3> QED BY <1>2, <1>3, <1>4, <1>6, <2>3, <3>1
    <2>4. CASE i # 1 /\ j # 1
      <3>1. i \in 2 .. Len(q) + 1 /\ j \in 2 .. Len(q) + 1
        BY <1>1, <1>2, <2>4
      <3>2. i - 1 = j - 1
        BY <1>3, <1>5, <1>6, <3>1
      <3> QED BY <3>1, <3>2
    <2> QED BY <2>1, <2>2, <2>3, <2>4
  <1>7. ASSUME NEW i \in DOMAIN w PROVE w[i] \in S \cup {b}
    <2>1. i = 1 \/ i \in 2 .. Len(q) + 1
      BY <1>1, <1>2
    <2> QED BY <1>2, <1>3, <1>4, <2>1
  <1>8. ASSUME NEW x \in S PROVE \E i \in DOMAIN w : w[i] = x
    <2>1. PICK k \in 1 .. Len(q) : q[k] = x
      BY <1>1 DEF ListsOnce
    <2>2. k + 1 \in 2 .. Len(q) + 1 /\ (k + 1) - 1 = k /\ k + 1 \in DOMAIN w
      BY <1>1, <1>2
    <2> QED BY <1>3, <2>1, <2>2
  <1>9. \E i \in DOMAIN w : w[i] = b
    <2>1. 1 \in DOMAIN w
      BY <1>1, <1>2
    <2> QED BY <1>2, <2>1
  <1>10. S \cup {b} = {w[i] : i \in DOMAIN w}
    BY <1>7, <1>8, <1>9
  <1> QED BY <1>2, <1>6, <1>10 DEF ListsOnce, w

\* The lists and bitmaps show the free blocks S, which are of the classes k.
Members(S, k, fl, sl) == {b \in S : k[b] = <<fl, sl>>}
ListsShow(l, S, k) ==
  /\ l.matrix \in [FLs -> [SLs -> Seq(BlockAddresses)]]
  /\ l.sl \in [FLs -> SUBSET SLs] /\ l.fl \in SUBSET FLs
  /\ \A fl \in FLs, sl \in SLs :
       /\ ListsOnce(l.matrix[fl][sl], Members(S, k, fl, sl))
       /\ sl \in l.sl[fl] <=> l.matrix[fl][sl] # <<>>
  /\ \A fl \in FLs : fl \in l.fl <=> l.sl[fl] # {}

LEMMA ExtractShows ==
  ASSUME NEW l, NEW S \in SUBSET BlockAddresses, NEW k, ListsShow(l, S, k),
         NEW b \in S, k[b] \in FLs \X SLs
  PROVE  ListsShow(ExtractBlock(l, b, k[b]), S \ {b}, k)
  <1> DEFINE n == ExtractBlock(l, b, k[b])
  <1>1. PICK f \in FLs, g \in SLs : k[b] = <<f, g>>
    OBVIOUS
  <1> DEFINE left == Unlinked(l.matrix[f][g], b)
             bits == IF left = <<>> THEN l.sl[f] \ {g} ELSE l.sl[f]
  <1>2. /\ n.matrix = [l.matrix EXCEPT ![f][g] = left]
        /\ n.sl = [l.sl EXCEPT ![f] = bits]
        /\ n.fl = IF bits = {} THEN l.fl \ {f} ELSE l.fl
    BY <1>1 DEF ExtractBlock
  <1>3. /\ l.matrix \in [FLs -> [SLs -> Seq(BlockAddresses)]]
        /\ l.sl \in [FLs -> SUBSET SLs] /\ l.fl \in SUBSET FLs
        /\ \A fl \in FLs, sl \in SLs :
             /\ ListsOnce(l.matrix[fl][sl], Members(S, k, fl, sl))
             /\ sl \in l.sl[fl] <=> l.matrix[fl][sl] # <<>>
        /\ \A fl \in FLs : fl \in l.fl <=> l.sl[fl] # {}
    BY DEF ListsShow
  <1>4. ListsOnce(left, Members(S \ {b}, k, f, g))
    <2>1. Members(S \ {b}, k, f, g) = Members(S, k, f, g) \ {b} /\ b \in Members(S, k, f, g)
      BY <1>1 DEF Members
    <2> DEFINE q == l.matrix[f][g]
               M == Members(S, k, f, g)
    <2>2. ListsOnce(q, M) /\ b \in M
      BY <1>3, <2>1
    <2> HIDE DEF q, M
    <2>3. ListsOnce(Unlinked(q, b), M \ {b})
      BY <2>2, WithoutOne
    <2> QED BY <2>1, <2>3 DEF q, M
  <1>5. left \in Seq(BlockAddresses) /\ g \in l.sl[f]
    <2>1. left \in Seq(BlockAddresses)
      BY <1>4 DEF ListsOnce
    <2> DEFINE q == l.matrix[f][g]
    <2>2. ListsOnce(q, Members(S, k, f, g)) /\ b \in Members(S, k, f, g)
      BY <1>1, <1>3 DEF Members
    <2> HIDE DEF q
    <2>3. q # <<>>
      BY <2>2 DEF ListsOnce
    <2> QED BY <1>3, <2>1, <2>3 DEF q
  <1> HIDE DEF left, n
  <1>6. /\ n.matrix \in [FLs -> [SLs -> Seq(BlockAddresses)]]
        /\ \A fl \in FLs, sl \in SLs :
             n.matrix[fl][sl] = IF fl = f /\ sl = g THEN left ELSE l.matrix[fl][sl]
    BY <1>2, <1>3, <1>5
  <1>7. /\ n.sl \in [FLs -> SUBSET SLs]
        /\ \A fl \in FLs : n.sl[fl] = IF fl = f THEN bits ELSE l.sl[fl]
    BY <1>2, <1>3
  <1>8. n.fl \in SUBSET FLs /\ \A fl \in FLs : fl \in n.fl <=> n.sl[fl] # {}
    BY SMTT(30), <1>2, <1>3, <1>7
  <1>9. ASSUME NEW fl \in FLs, NEW sl \in SLs
        PROVE  /\ ListsOnce(n.matrix[fl][sl], Members(S \ {b}, k, fl, sl))
               /\ sl \in n.sl[fl] <=> n.matrix[fl][sl] # <<>>
    <2>1. CASE fl = f /\ sl = g
      <3>1. n.matrix[fl][sl] = left /\ n.sl[fl] = bits
        BY <1>6, <1>7, <2>1
      <3> QED BY <1>4, <1>5, <2>1, <3>1
    <2>2. CASE ~(fl = f /\ sl = g)
      <3>1. Members(S \ {b}, k, fl, sl) = Members(S, k, fl, sl)
        BY <1>1, <2>2 DEF Members
      <3>2. n.matrix[fl][sl] = l.matrix[fl][sl]
        BY <1>6, <2>2
      <3>3. sl \in n.sl[fl] <=> sl \in l.sl[fl]
        BY <1>7, <2>2
      <3> QED BY <1>3, <3>1, <3>2, <3>3
    <2> QED BY <2>1, <2>2
  <1> QED BY <1>6, <1>7, <1>8, <1>9 DEF ListsShow, n

LEMMA InsertShows ==
  ASSUME NEW l, NEW S \in SUBSET BlockAddresses, NEW k, ListsShow(l, S, k),
         NEW b \in BlockAddresses, b \notin S, k[b] \in FLs \X SLs
  PROVE  ListsShow(InsertBlock(l, b, k[b]), S \cup {b}, k)
  <1> DEFINE n == InsertBlock(l, b, k[b])
  <1>1. PICK f \in FLs, g \in SLs : k[b] = <<f, g>>
    OBVIOUS
  <1> DEFINE more == <<b>> \o l.matrix[f][g]
             bits == l.sl[f] \cup {g}
  <1>2. /\ n.matrix = [l.matrix EXCEPT ![f][g] = more]
        /\ n.sl = [l.sl EXCEPT ![f] = bits]
        /\ n.fl = l.fl \cup {f}
    BY <1>1 DEF InsertBlock
  <1>3. /\ l.matrix \in [FLs -> [SLs -> Seq(BlockAddresses)]]
        /\ l.sl \in [FLs -> SUBSET SLs] /\ l.fl \in SUBSET FLs
        /\ \A fl \in FLs, sl \in SLs :
             /\ ListsOnce(l.matrix[fl][sl], Members(S, k, fl, sl))
             /\ sl \in l.sl[fl] <=> l.matrix[fl][sl] # <<>>
        /\ \A fl \in FLs : fl \in l.fl <=> l.sl[fl] # {}
    BY DEF ListsShow
  <1>4. ListsOnce(more, Members(S \cup {b}, k, f, g))
    <2>1. Members(S \cup {b}, k, f, g) = Members(S, k, f, g) \cup {b} /\ b \notin Members(S, k, f, g)
      BY <1>1 DEF Members
    <2> DEFINE q == l.matrix[f][g]
               M == Members(S, k, f, g)
    <2>2. ListsOnce(q, M) /\ b \notin M
      BY <1>3, <2>1
    <2> HIDE DEF q, M
    <2>3. ListsOnce(<<b>> \o q, M \cup {b})
      BY <2>2, WithAnother
    <2> QED BY <2>1, <2>3 DEF q, M
  <1>5. more \in Seq(BlockAddresses) /\ more # <<>>
    <2>1. l.matrix[f][g] \in Seq(BlockAddresses)
      BY <1>3
    <2>2. more \in Seq(BlockAddresses) /\ Len(more) = Len(l.matrix[f][g]) + 1 /\ Len(l.matrix[f][g]) \in Nat
      BY <2>1
    <2> HIDE DEF more
    <2> QED BY <2>2
  <1> HIDE DEF more, n
  <1>6. /\ n.matrix \in [FLs -> [SLs -> Seq(BlockAddresses)]]
        /\ \A fl \in FLs, sl \in SLs :
             n.matrix[fl][sl] = IF fl = f /\ sl = g THEN more ELSE l.matrix[fl][sl]
    BY <1>2, <1>3, <1>5
  <1>7. /\ n.sl \in [FLs -> SUBSET SLs]
        /\ \A fl \in FLs : n.sl[fl] = IF fl = f THEN bits ELSE l.sl[fl]
    <2>1. bits \in SUBSET SLs
      BY <1>3
    <2> HIDE DEF bits
    <2> QED BY <1>2, <1>3, <2>1
  <1>8. n.fl \in SUBSET FLs /\ \A fl \in FLs : fl \in n.fl <=> n.sl[fl] # {}
    BY <1>2, <1>3, <1>7
  <1>9. ASSUME NEW fl \in FLs, NEW sl \in SLs
        PROVE  /\ ListsOnce(n.matrix[fl][sl], Members(S \cup {b}, k, fl, sl))
               /\ sl \in n.sl[fl] <=> n.matrix[fl][sl] # <<>>
    <2>1. CASE fl = f /\ sl = g
      BY <1>3, <1>4, <1>5, <1>6, <1>7, <2>1
    <2>2. CASE ~(fl = f /\ sl = g)
      <3>1. Members(S \cup {b}, k, fl, sl) = Members(S, k, fl, sl)
        BY <1>1, <2>2 DEF Members
      <3>2. n.matrix[fl][sl] = l.matrix[fl][sl]
        BY <1>6, <2>2
      <3>3. sl \in n.sl[fl] <=> sl \in l.sl[fl]
        BY <1>7, <2>2
      <3> QED BY <1>3, <3>1, <3>2, <3>3
    <2> QED BY <2>1, <2>2
  <1> QED BY <1>6, <1>7, <1>8, <1>9 DEF ListsShow, n

\* The classes of other blocks do not matter.
LEMMA OtherClasses ==
  ASSUME NEW l, NEW S, NEW k, ListsShow(l, S, k), NEW k2, \A b \in S : k2[b] = k[b]
  PROVE  ListsShow(l, S, k2)
  <1>1. \A fl, sl : Members(S, k2, fl, sl) = Members(S, k, fl, sl)
    BY DEF Members
  <1> QED BY <1>1 DEF ListsShow

LEMMA LowestBit ==
  ASSUME NEW S \in SUBSET Nat, S # {}
  PROVE  ffs(S) \in S /\ \A j \in S : ffs(S) <= j
  BY LeastNat DEF ffs

\* What the search finds: a free block whose class is not before the one it begins with.
LEMMA SearchFinds ==
  ASSUME NEW l, l = Lists, NEW S, NEW k, ListsShow(l, S, k),
         NEW c \in FLs \X SLs, NEW d \in Suitable(c)
  PROVE  /\ d \in FLs \X SLs /\ NotBefore(d, c)
         /\ Head(matrix[d[1]][d[2]]) \in S /\ k[Head(matrix[d[1]][d[2]])] = d
  <1>1. l.matrix = matrix /\ l.sl = sl_bitmap /\ l.fl = fl_bitmap
    BY DEF Lists
  <1>2. /\ matrix \in [FLs -> [SLs -> Seq(BlockAddresses)]]
        /\ sl_bitmap \in [FLs -> SUBSET SLs] /\ fl_bitmap \in SUBSET FLs
        /\ \A fl \in FLs, sl \in SLs :
             /\ ListsOnce(matrix[fl][sl], Members(S, k, fl, sl))
             /\ sl \in sl_bitmap[fl] <=> matrix[fl][sl] # <<>>
        /\ \A fl \in FLs : fl \in fl_bitmap <=> sl_bitmap[fl] # {}
    BY <1>1 DEF ListsShow
  <1>3. PICK f \in FLs, g \in SLs : c = <<f, g>>
    OBVIOUS
  <1>4. FLs \in SUBSET Nat /\ SLs \in SUBSET Nat
    BY TlsfSizes, SmallBlocks DEF FLs, SLs
  <1> DEFINE here == {sl \in sl_bitmap[f] : sl >= g}
             above == {fl \in fl_bitmap : fl > f}
  <1>5. here \in SUBSET Nat /\ here \in SUBSET SLs /\ above \in SUBSET Nat /\ above \in SUBSET FLs
    BY <1>2, <1>4
  <1>6. PICK x \in FLs, y \in SLs : d = <<x, y>> /\ y \in sl_bitmap[x] /\ NotBefore(d, c)
    <2>1. CASE here # {}
      <3>1. d = <<f, ffs(here)>>
        BY <1>3, <2>1 DEF Suitable
      <3>2. ffs(here) \in here
        BY <1>5, <2>1, LowestBit
      <3>3. ffs(here) \in SLs /\ ffs(here) \in sl_bitmap[f] /\ ffs(here) >= g
        BY <1>5, <3>2
      <3> HIDE DEF here
      <3>4. NotBefore(d, c)
        BY <1>3, <3>1, <3>3 DEF NotBefore
      <3> QED BY <3>1, <3>3, <3>4
    <2>2. CASE here = {} /\ above # {}
      <3> DEFINE a == ffs(above)
      <3>1. d = <<a, ffs(sl_bitmap[a])>>
        BY <1>3, <2>2 DEF Suitable
      <3>2. a \in FLs /\ a > f /\ a \in fl_bitmap
        <4>1. a \in above
          BY <1>5, <2>2, LowestBit
        <4> HIDE DEF a
        <4> QED BY <1>5, <4>1
      <3> HIDE DEF a
      <3>3. sl_bitmap[a] # {} /\ sl_bitmap[a] \in SUBSET SLs
        BY <1>2, <3>2
      <3>4. ffs(sl_bitmap[a]) \in sl_bitmap[a]
        BY <1>4, <3>3, LowestBit
      <3>5. ffs(sl_bitmap[a]) \in SLs
        BY <3>3, <3>4
      <3>6. NotBefore(d, c)
        BY <1>3, <3>1, <3>2 DEF NotBefore
      <3> QED BY <3>1, <3>2, <3>4, <3>5, <3>6
    <2>3. CASE here = {} /\ above = {}
      BY <1>3, <2>3 DEF Suitable
    <2> QED BY <2>1, <2>2, <2>3
  <1>7. matrix[x][y] # <<>> /\ ListsOnce(matrix[x][y], Members(S, k, x, y))
    BY <1>2, <1>6
  <1>8. Head(matrix[x][y]) \in Members(S, k, x, y)
    <2> DEFINE q == matrix[x][y]
    <2>1. q \in Seq(BlockAddresses) /\ q # <<>> /\ Members(S, k, x, y) = {q[i] : i \in DOMAIN q}
      BY <1>7 DEF ListsOnce
    <2> HIDE DEF q
    <2>2. Head(q) = q[1] /\ 1 \in DOMAIN q
      BY <2>1
    <2>3. Head(q) \in Members(S, k, x, y)
      BY <2>1, <2>2
    <2> QED BY <2>3 DEF q
  <1>9. d[1] = x /\ d[2] = y /\ d \in FLs \X SLs /\ NotBefore(d, c)
    BY <1>6
  <1> DEFINE b == Head(matrix[x][y])
  <1>10. b \in S /\ k[b] = <<x, y>> /\ Head(matrix[d[1]][d[2]]) = b
    BY <1>8, <1>9 DEF Members
  <1> HIDE DEF b
  <1> QED BY <1>6, <1>9, <1>10

-----------------------------------------------------------------------------
(* Blocks and their neighbours. *)

LEMMA Neighbours ==
  ASSUME NEW lo \in Nat, NEW hi \in Nat, lo < hi,
         NEW A \in SUBSET Nat, NEW C \in SUBSET A, NEW e \in [A -> Nat], Row(C, e, lo, hi)
  PROVE  /\ \A c \in C : e[c] \in C \cup {hi}
         /\ \A d \in C \cup {hi} : d # lo => \E c \in C : e[c] = d
         /\ lo \in C /\ hi \notin C
         /\ \A c, d \in C : e[c] = e[d] => c = d
  <1>1. /\ \A c \in C : c \in Nat /\ e[c] \in Nat /\ lo <= c /\ c < e[c] /\ e[c] <= hi
        /\ \A c, d \in C : c < d => e[c] <= d
        /\ \A x \in lo .. hi - 1 : \E c \in C : c <= x /\ x < e[c]
    BY DEF Row
  <1>2. ASSUME NEW c \in C, e[c] # hi PROVE e[c] \in C
    <2>0. lo <= c /\ c < e[c] /\ e[c] <= hi /\ e[c] # hi /\ c \in Nat /\ e[c] \in Nat
      BY <1>1, <1>2
    <2>1. e[c] \in lo .. hi - 1
      BY <2>0
    <2>2. PICK d \in C : d <= e[c] /\ e[c] < e[d]
      BY <1>1, <2>1
    <2>3. ~(c < d) => d <= c
      BY <1>1
    <2>4. c < d
      <3>1. d = c => FALSE
        BY <1>1, <2>2
      <3>2. d < c => FALSE
        BY <1>1, <2>2
      <3> QED BY <1>1, <3>1, <3>2
    <2>5. d = e[c]
      <3>1. e[c] <= d /\ d \in Nat
        BY <1>1, <2>4
      <3> QED BY <2>0, <2>2, <3>1
    <2> QED BY <2>5
  <1>3. ASSUME NEW d \in C \cup {hi}, d # lo PROVE \E c \in C : e[c] = d
    <2>1. d - 1 \in lo .. hi - 1 /\ d \in Nat
      BY <1>1, <1>3
    <2>2. PICK c \in C : c <= d - 1 /\ d - 1 < e[c]
      BY <1>1, <2>1
    <2>3. e[c] <= d
      BY <1>1, <2>1, <2>2
    <2>4. e[c] = d
      BY <1>1, <2>1, <2>2, <2>3
    <2> QED BY <2>4
  <1>4. lo \in C
    <2>1. lo \in lo .. hi - 1
      OBVIOUS
    <2>2. PICK c \in C : c <= lo /\ lo < e[c]
      BY <1>1, <2>1
    <2> QED BY <1>1, <2>2
  <1>5. hi \notin C
    BY <1>1
  <1>6. ASSUME NEW c \in C, NEW d \in C, e[c] = e[d] PROVE c = d
    <2>1. ~(c < d) /\ ~(d < c)
      BY <1>1, <1>6
    <2> QED BY <1>1, <2>1
  <1> QED BY <1>2, <1>3, <1>4, <1>5, <1>6

\* The blocks F are free and H are not; they end before e.  P are the addresses whose header
\* says that the block before is free, and h where that one is.
Tagged(e, F, H, P, h) ==
  /\ e \in [BlockAddresses -> Nat]
  /\ F \subseteq BlockAddresses /\ H \subseteq BlockAddresses /\ F \cap H = {}
  /\ Row(F \cup H, e, TlsfHdr, Sentinel)
  /\ \A b \in F \cup H : e[b] \in P <=> b \in F
  /\ \A b \in F : h[e[b]] = b /\ e[b] \notin F
  /\ TlsfHdr \notin P

\* The addresses are words.
LEMMA WordAddresses ==
  /\ \A x : x \in BlockAddresses <=> x \in 0 .. TlsfSize /\ x % 4 = 0
  /\ BlockAddresses \in SUBSET Nat /\ 0 \in BlockAddresses
  <1>1. \A x \in 0 .. TlsfSize : x % 4 = 0 => \E i \in 0 .. TlsfSize \div 4 : x = 4 * i
    <2> TAKE x \in 0 .. TlsfSize
    <2> SUFFICES ASSUME x % 4 = 0 PROVE \E i \in 0 .. TlsfSize \div 4 : x = 4 * i
      OBVIOUS
    <2>1. x = 4 * (x \div 4) /\ x \div 4 \in 0 .. TlsfSize \div 4
      BY TlsfSizes
    <2> QED BY <2>1
  <1>2. \A i \in 0 .. TlsfSize \div 4 : 4 * i \in 0 .. TlsfSize /\ (4 * i) % 4 = 0
    BY TlsfSizes
  <1>3. \A x : x \in BlockAddresses <=> x \in 0 .. TlsfSize /\ x % 4 = 0
    BY <1>1, <1>2 DEF BlockAddresses
  <1>4. BlockAddresses \in SUBSET Nat
    BY <1>3
  <1>5. 0 \in BlockAddresses
    BY <1>3, TlsfSizes
  <1> QED BY <1>3, <1>4, <1>5

LEMMA TheEnds ==
  /\ FirstSize \in Nat /\ FirstSize >= MIN_BLOCK_SIZE /\ FirstSize % 4 = 0 /\ FirstSize > 0 /\ FirstSize < Limit
  /\ Sentinel = TlsfHdr + 4 + FirstSize
  /\ Sentinel \in Nat /\ TlsfHdr \in Nat /\ TlsfHdr < Sentinel
  /\ TlsfHdr \in BlockAddresses /\ Sentinel \in BlockAddresses
  /\ Sentinel + 4 <= TlsfSize
  <1> DEFINE all == TlsfSize - TlsfHdr - 8
  <1>1. FirstSize = (all \div 4) * 4
    BY DEF FirstSize, ROUNDDOWN_SIZE, BHDR_OVERHEAD
  <1>2. all \in Nat /\ all >= MIN_BLOCK_SIZE /\ MIN_BLOCK_SIZE \in Nat \ {0} /\ MIN_BLOCK_SIZE % 4 = 0
        /\ TlsfHdr \in Nat \ {0} /\ TlsfHdr % 4 = 0 /\ TlsfSize \in Nat /\ TlsfSize = all + TlsfHdr + 8
        /\ TlsfSize < Limit /\ Limit \in Nat
    BY TlsfSizes
  <1> HIDE DEF all
  <1>3. /\ FirstSize \in Nat /\ FirstSize >= MIN_BLOCK_SIZE /\ FirstSize % 4 = 0 /\ FirstSize > 0
        /\ FirstSize <= all
    BY <1>1, <1>2
  <1>4. Sentinel = TlsfHdr + 4 + FirstSize
    BY <1>2, <1>3 DEF Sentinel, After, BHDR_OVERHEAD
  <1>5. Sentinel \in 0 .. TlsfSize /\ Sentinel % 4 = 0 /\ TlsfHdr \in 0 .. TlsfSize /\ TlsfHdr < Sentinel
        /\ Sentinel + 4 <= TlsfSize
    BY <1>2, <1>3, <1>4
  <1> QED BY <1>2, <1>3, <1>4, <1>5, WordAddresses

LEMMA TaggedFacts ==
  ASSUME NEW e, NEW F, NEW H, NEW P, NEW h, Tagged(e, F, H, P, h)
  PROVE  LET C == F \cup H IN
         /\ C \in SUBSET BlockAddresses /\ C \in SUBSET Nat
         /\ \A c \in C : c \in Nat /\ e[c] \in Nat /\ TlsfHdr <= c /\ c < e[c] /\ e[c] <= Sentinel
         /\ \A c \in C : e[c] \in C \cup {Sentinel} /\ e[c] \in BlockAddresses
         /\ \A d \in C \cup {Sentinel} : d # TlsfHdr => \E c \in C : e[c] = d
         /\ TlsfHdr \in C /\ Sentinel \notin C
         /\ \A c, d \in C : e[c] = e[d] => c = d
         /\ \A c, d \in C : c < d => e[c] <= d
         /\ \A b \in C : b \in P => h[b] \in F /\ e[h[b]] = b
  <1> DEFINE C == F \cup H
  <1>1. /\ e \in [BlockAddresses -> Nat] /\ C \in SUBSET BlockAddresses
        /\ Row(C, e, TlsfHdr, Sentinel)
        /\ \A b \in C : e[b] \in P <=> b \in F
        /\ \A b \in F : h[e[b]] = b /\ b \in C
        /\ TlsfHdr \notin P
    BY DEF Tagged
  <1> HIDE DEF C
  <1>2. /\ \A c \in C : e[c] \in C \cup {Sentinel}
        /\ \A d \in C \cup {Sentinel} : d # TlsfHdr => \E c \in C : e[c] = d
        /\ TlsfHdr \in C /\ Sentinel \notin C
        /\ \A c, d \in C : e[c] = e[d] => c = d
    <2>1. TlsfHdr \in Nat /\ Sentinel \in Nat /\ TlsfHdr < Sentinel /\ BlockAddresses \in SUBSET Nat
      BY TheEnds, WordAddresses
    <2> QED BY <1>1, <2>1, Neighbours
  <1>3. /\ C \in SUBSET Nat
        /\ \A c \in C : c \in Nat /\ e[c] \in Nat /\ TlsfHdr <= c /\ c < e[c] /\ e[c] <= Sentinel
        /\ \A c, d \in C : c < d => e[c] <= d
    BY <1>1, WordAddresses DEF Row
  <1>4. \A c \in C : e[c] \in BlockAddresses
    BY <1>1, <1>2, TheEnds
  <1>5. ASSUME NEW b \in C, b \in P PROVE h[b] \in F /\ e[h[b]] = b
    <2>1. PICK p \in C : e[p] = b
      BY <1>1, <1>2, <1>5
    <2>2. p \in F /\ h[b] = p
      BY <1>1, <1>5, <2>1
    <2> QED BY <2>1, <2>2
  <1> QED BY <1>1, <1>2, <1>3, <1>4, <1>5 DEF C

\* A free block b is split at y: the front is given away, the rest is free.
SplitsBlock(e, F, H, P, h, b, y, f, G, I, Q, g) ==
  /\ b \in F /\ y \in BlockAddresses /\ b < y /\ y < e[b]
  /\ f \in [BlockAddresses -> Nat] /\ f[b] = y /\ f[y] = e[b]
  /\ \A a \in BlockAddresses : a # b /\ a # y => f[a] = e[a]
  /\ G = (F \ {b}) \cup {y} /\ I = H \cup {b}
  /\ Q = P \ {y}
  /\ g[e[b]] = y /\ \A a \in BlockAddresses : a # e[b] /\ a # y => g[a] = h[a]
LEMMA SplitTagged ==
  ASSUME NEW e, NEW F, NEW H, NEW P, NEW h, Tagged(e, F, H, P, h),
         NEW b, NEW y, NEW f, NEW G, NEW I, NEW Q, NEW g, SplitsBlock(e, F, H, P, h, b, y, f, G, I, Q, g)
  PROVE  Tagged(f, G, I, Q, g) /\ y \notin F \cup H
  <1> DEFINE C == F \cup H
             D == G \cup I
  <1>1. /\ b \in F /\ b \in C /\ y \in BlockAddresses /\ b < y /\ y < e[b]
        /\ f \in [BlockAddresses -> Nat] /\ f[b] = y /\ f[y] = e[b]
        /\ \A a \in BlockAddresses : a # b /\ a # y => f[a] = e[a]
        /\ G = (F \ {b}) \cup {y} /\ I = H \cup {b} /\ Q = P \ {y}
        /\ g[e[b]] = y /\ \A a \in BlockAddresses : a # e[b] /\ a # y => g[a] = h[a]
    BY DEF SplitsBlock
  <1>2. /\ e \in [BlockAddresses -> Nat] /\ F \subseteq BlockAddresses /\ H \subseteq BlockAddresses /\ F \cap H = {}
        /\ Row(C, e, TlsfHdr, Sentinel)
        /\ \A d \in C : e[d] \in P <=> d \in F
        /\ \A d \in F : h[e[d]] = d /\ e[d] \notin F
        /\ TlsfHdr \notin P
    BY DEF Tagged
  <1>3. /\ C \in SUBSET BlockAddresses /\ BlockAddresses \in SUBSET Nat
        /\ \A c \in C : c \in Nat /\ e[c] \in Nat /\ TlsfHdr <= c /\ c < e[c] /\ e[c] <= Sentinel
        /\ \A c \in C : e[c] \in C \cup {Sentinel} /\ e[c] \in BlockAddresses
        /\ \A c, d \in C : e[c] = e[d] => c = d
        /\ \A c, d \in C : c < d => e[c] <= d
    BY TaggedFacts, WordAddresses
  <1>4. y \notin C /\ y # b /\ y \in Nat /\ b \in Nat /\ e[b] \in Nat
    BY <1>1, <1>3
  <1>5. y # Sentinel /\ y # TlsfHdr
    BY <1>1, <1>3, <1>4, TheEnds
  <1>6. D = C \cup {y} /\ G \cap I = {} /\ G \subseteq BlockAddresses /\ I \subseteq BlockAddresses
    BY <1>1, <1>2, <1>4
  <1>7. \A d \in C : d # b => f[d] = e[d] /\ e[d] # y /\ e[d] # e[b]
    BY <1>1, <1>3, <1>4, <1>5
  <1> HIDE DEF C, D
  <1>8. Row(D, f, TlsfHdr, Sentinel)
    <2>1. CutsAt(C, e, b, y, D, f)
      BY <1>1, <1>6, <1>7 DEF CutsAt
    <2> QED BY <1>1, <1>2, <1>3, <2>1, RowSplit, TheEnds
  <1>9. /\ e[b] \in P /\ e[b] # y /\ f[y] = e[b] /\ e[b] \notin G /\ y \in G /\ b \notin G
        /\ f[b] = y /\ y \notin Q /\ e[b] \in Q /\ g[f[y]] = y
    BY <1>1, <1>2, <1>4
  <1>10. ASSUME NEW d \in C, d # b PROVE (f[d] \in Q <=> d \in G) /\ (d \in F => g[f[d]] = d /\ f[d] \notin G)
    <2>1. f[d] = e[d] /\ e[d] # y /\ e[d] # e[b] /\ e[d] \in BlockAddresses /\ d # y
      BY <1>3, <1>4, <1>7, <1>10
    <2>2. (e[d] \in P <=> d \in F) /\ (d \in F => h[e[d]] = d /\ e[d] \notin F)
      BY <1>2, <1>10
    <2>3. g[e[d]] = h[e[d]]
      BY <1>1, <2>1
    <2> QED BY <1>1, <1>10, <2>1, <2>2, <2>3
  <1>11. \A d \in D : f[d] \in Q <=> d \in G
    <2>1. \A d \in D : d = b \/ d = y \/ (d \in C /\ d # b)
      BY <1>6
    <2> QED BY <1>9, <1>10, <2>1
  <1>12. \A d \in G : g[f[d]] = d /\ f[d] \notin G
    <2>1. \A d \in G : d = y \/ (d \in C /\ d # b /\ d \in F)
      BY <1>1 DEF C
    <2> QED BY <1>9, <1>10, <2>1
  <1>13. TlsfHdr \notin Q
    BY <1>1, <1>2
  <1>14. y \notin F \cup H
    BY <1>4 DEF C
  <1> QED BY <1>1, <1>6, <1>8, <1>11, <1>12, <1>13, <1>14 DEF Tagged, D

\* A free block b is given away as it is.
TakesBlock(e, F, H, P, h, b, f, G, I, Q, g) ==
  /\ b \in F
  /\ f \in [BlockAddresses -> Nat] /\ \A a \in BlockAddresses : f[a] = e[a]
  /\ G = F \ {b} /\ I = H \cup {b}
  /\ Q = P \ {e[b]}
  /\ \A a \in BlockAddresses : a # e[b] => g[a] = h[a]
LEMMA TakeTagged ==
  ASSUME NEW e, NEW F, NEW H, NEW P, NEW h, Tagged(e, F, H, P, h),
         NEW b, NEW f, NEW G, NEW I, NEW Q, NEW g, TakesBlock(e, F, H, P, h, b, f, G, I, Q, g)
  PROVE  Tagged(f, G, I, Q, g)
  <1>1. /\ b \in F /\ f = e /\ G = F \ {b} /\ I = H \cup {b} /\ Q = P \ {e[b]}
        /\ \A a \in BlockAddresses : a # e[b] => g[a] = h[a]
    BY DEF TakesBlock, Tagged
  <1>2. /\ F \subseteq BlockAddresses /\ H \subseteq BlockAddresses /\ F \cap H = {}
        /\ Row(F \cup H, e, TlsfHdr, Sentinel)
        /\ \A d \in F \cup H : e[d] \in P <=> d \in F
        /\ \A d \in F : h[e[d]] = d /\ e[d] \notin F
        /\ TlsfHdr \notin P /\ e \in [BlockAddresses -> Nat]
    BY DEF Tagged
  <1>3. /\ \A d \in F \cup H : e[d] \in BlockAddresses
        /\ \A c, d \in F \cup H : e[c] = e[d] => c = d
    BY TaggedFacts
  <1>4. G \cup I = F \cup H /\ G \cap I = {}
    BY <1>1, <1>2
  <1>5. \A d \in F \cup H : f[d] \in Q <=> d \in G
    BY <1>1, <1>2, <1>3
  <1>6. \A d \in G : g[f[d]] = d /\ f[d] \notin G
    BY <1>1, <1>2, <1>3
  <1> QED BY <1>1, <1>2, <1>4, <1>5, <1>6 DEF Tagged

\* A held block b is given back; it becomes one, from q to z, with the free ones beside it,
\* and the headers W are no longer there.
Joined(e, F, H, P, h, b, q, z, W) ==
  /\ b \in H
  /\ q = IF b \in P THEN h[b] ELSE b
  /\ z = IF e[b] \in F THEN e[e[b]] ELSE e[b]
  /\ W = (IF e[b] \in F THEN {e[b]} ELSE {}) \cup (IF b \in P THEN {b} ELSE {})
LEMMA JoinedFacts ==
  ASSUME NEW e, NEW F, NEW H, NEW P, NEW h, Tagged(e, F, H, P, h),
         NEW b, NEW q, NEW z, NEW W, Joined(e, F, H, P, h, b, q, z, W)
  PROVE  /\ q \in F \cup H /\ q \notin W /\ q # e[b] /\ (b \in P => q \in F /\ e[q] = b /\ q < b)
         /\ z \in BlockAddresses /\ z \notin F /\ z \in F \cup H \cup {Sentinel} /\ z \notin W /\ z # q /\ z # TlsfHdr
         /\ e[b] # b /\ b \notin F /\ q < z /\ z <= Sentinel
  <1> DEFINE C == F \cup H
             n == e[b]
  <1>1. /\ b \in H /\ b \in C /\ n = e[b]
        /\ q = IF b \in P THEN h[b] ELSE b
        /\ z = IF n \in F THEN e[n] ELSE n
        /\ W = (IF n \in F THEN {n} ELSE {}) \cup (IF b \in P THEN {b} ELSE {})
    BY DEF Joined
  <1> HIDE DEF n
  <1>2. /\ e \in [BlockAddresses -> Nat] /\ F \subseteq BlockAddresses /\ H \subseteq BlockAddresses /\ F \cap H = {}
        /\ Row(C, e, TlsfHdr, Sentinel)
        /\ \A d \in C : e[d] \in P <=> d \in F
        /\ \A d \in F : h[e[d]] = d /\ e[d] \notin F
        /\ TlsfHdr \notin P
    BY DEF Tagged
  <1>3. /\ C \in SUBSET BlockAddresses /\ BlockAddresses \in SUBSET Nat
        /\ \A c \in C : c \in Nat /\ e[c] \in Nat /\ TlsfHdr <= c /\ c < e[c] /\ e[c] <= Sentinel
        /\ \A c \in C : e[c] \in C \cup {Sentinel} /\ e[c] \in BlockAddresses
        /\ \A c, d \in C : e[c] = e[d] => c = d
        /\ \A d \in C : d \in P => h[d] \in F /\ e[h[d]] = d
        /\ Sentinel \notin C
    BY TaggedFacts, WordAddresses
  <1>5. /\ b # n /\ n \in Nat /\ b \in Nat /\ b < n /\ b \notin F /\ (n \in F => n \in C /\ n < e[n] /\ e[n] \in Nat)
    BY <1>1, <1>2, <1>3
  <1>6. q \in C /\ q \notin W /\ q # n /\ (b \in P => q \in F /\ e[q] = b /\ q < b)
    <2>1. CASE b \in P
      <3>1. q \in F /\ e[q] = b /\ q \in C
        BY <1>1, <1>3, <2>1
      <3>2. q < b /\ q \in Nat
        BY <1>3, <3>1
      <3> QED BY <1>1, <1>5, <3>1, <3>2
    <2>2. CASE b \notin P
      BY <1>1, <1>5, <2>2
    <2> QED BY <2>1, <2>2
  <1>8. /\ z \in BlockAddresses /\ z \notin F /\ z \in C \cup {Sentinel} /\ z \notin W /\ z # q /\ z # TlsfHdr
    <2>1. CASE n \in F
      <3>1. z = e[n] /\ e[n] \notin F /\ n \in C
        BY <1>1, <1>2, <2>1
      <3>2. z \in Nat /\ n < z /\ z \in BlockAddresses /\ z \in C \cup {Sentinel}
        BY <1>3, <3>1
      <3>3. b # z /\ z # n
        BY <1>5, <3>2
      <3>4. q # z /\ TlsfHdr < z
        BY <1>3, <1>5, <1>6, <1>1, <3>1, <3>2, <3>3, TheEnds
      <3> QED BY <1>1, <3>1, <3>2, <3>3, <3>4, TheEnds
    <2>2. CASE n \notin F
      <3>1. z = n /\ z \in BlockAddresses /\ z \in C \cup {Sentinel}
        BY <1>1, <1>3, <2>2
      <3>2. TlsfHdr < z
        BY <1>1, <1>3, <1>5, <3>1, TheEnds
      <3> QED BY <1>1, <1>5, <1>6, <2>2, <3>1, <3>2, TheEnds
    <2> QED BY <2>1, <2>2
  <1>9. q < z /\ z <= Sentinel
    <2>1. CASE n \in F
      <3>1. z = e[n] /\ n < z /\ z <= Sentinel
        BY <1>1, <1>3, <1>5, <2>1
      <3>2. q <= b /\ b < n /\ z \in Nat /\ q \in Nat
        BY <1>1, <1>3, <1>5, <1>6, <3>1, <2>1
      <3> QED BY <1>5, <3>1, <3>2
    <2>2. CASE n \notin F
      BY <1>1, <1>3, <1>5, <1>6, <2>2
    <2> QED BY <2>1, <2>2
  <1> QED BY <1>1, <1>5, <1>6, <1>8, <1>9

FreesBlock(e, F, H, P, h, b, q, z, W, f, G, I, Q, g) ==
  /\ Joined(e, F, H, P, h, b, q, z, W)
  /\ f \in [BlockAddresses -> Nat] /\ f[q] = z
  /\ \A a \in BlockAddresses \ (W \cup {q}) : f[a] = e[a]
  /\ G = (F \ W) \cup {q} /\ I = H \ {b}
  /\ Q = (P \ W) \cup {z}
  /\ g[z] = q /\ \A a \in BlockAddresses \ (W \cup {z}) : g[a] = h[a]
LEMMA FreeTagged ==
  ASSUME NEW e, NEW F, NEW H, NEW P, NEW h, Tagged(e, F, H, P, h),
         NEW b, NEW q, NEW z, NEW W, NEW f, NEW G, NEW I, NEW Q, NEW g,
         FreesBlock(e, F, H, P, h, b, q, z, W, f, G, I, Q, g)
  PROVE  Tagged(f, G, I, Q, g)
  <1> DEFINE C == F \cup H
             D == G \cup I
             n == e[b]
  <1>1. /\ b \in H /\ b \in C /\ n = e[b]
        /\ q = IF b \in P THEN h[b] ELSE b
        /\ z = IF n \in F THEN e[n] ELSE n
        /\ W = (IF n \in F THEN {n} ELSE {}) \cup (IF b \in P THEN {b} ELSE {})
        /\ f \in [BlockAddresses -> Nat] /\ f[q] = z
        /\ \A a \in BlockAddresses \ (W \cup {q}) : f[a] = e[a]
        /\ G = (F \ W) \cup {q} /\ I = H \ {b}
        /\ Q = (P \ W) \cup {z}
        /\ g[z] = q /\ \A a \in BlockAddresses \ (W \cup {z}) : g[a] = h[a]
    BY DEF FreesBlock, Joined
  <1> HIDE DEF n
  <1>2. /\ e \in [BlockAddresses -> Nat] /\ F \subseteq BlockAddresses /\ H \subseteq BlockAddresses /\ F \cap H = {}
        /\ Row(C, e, TlsfHdr, Sentinel)
        /\ \A d \in C : e[d] \in P <=> d \in F
        /\ \A d \in F : h[e[d]] = d /\ e[d] \notin F
        /\ TlsfHdr \notin P
    BY DEF Tagged
  <1>3. /\ C \in SUBSET BlockAddresses /\ BlockAddresses \in SUBSET Nat
        /\ \A c \in C : c \in Nat /\ e[c] \in Nat /\ TlsfHdr <= c /\ c < e[c] /\ e[c] <= Sentinel
        /\ \A c \in C : e[c] \in C \cup {Sentinel} /\ e[c] \in BlockAddresses
        /\ \A c, d \in C : e[c] = e[d] => c = d
        /\ \A d \in C : d \in P => h[d] \in F /\ e[h[d]] = d
        /\ Sentinel \notin C
    BY TaggedFacts, WordAddresses
  <1>5. /\ b # n /\ n \in Nat /\ b \in Nat /\ b < n /\ b \notin F /\ (n \in F => n \in C /\ n < e[n] /\ e[n] \in Nat)
    BY <1>1, <1>2, <1>3
  <1>6. q \in C /\ q \notin W /\ q # n /\ (b \in P => q \in F /\ e[q] = b /\ q < b)
    BY <1>1, JoinedFacts DEF FreesBlock
  <1>7. D = C \ W /\ G \cap I = {} /\ G \subseteq BlockAddresses /\ I \subseteq BlockAddresses /\ D \subseteq C /\ q \in D
    <2>1. W \cap H \subseteq {b} /\ W \subseteq F \cup {b} /\ (q = b \/ (q \in F /\ b \in W))
      BY <1>1, <1>2, <1>6
    <2>2. q \notin I
      BY <1>1, <1>2, <1>6
    <2>3. D = C \ W
      BY <1>1, <1>6, <2>1
    <2>4. G \cap I = {}
      BY <1>1, <1>2, <2>2
    <2> QED BY <1>1, <1>2, <1>3, <1>6, <2>3, <2>4
  <1>8. /\ z \in BlockAddresses /\ z \notin F /\ z \in C \cup {Sentinel} /\ z \notin W /\ z # q /\ z # TlsfHdr
    BY JoinedFacts DEF FreesBlock
  <1>9. \A d \in D : d # q => f[d] = e[d]
    BY <1>1, <1>3, <1>7
  <1> HIDE DEF C, D
  <1>10. Row(D, f, TlsfHdr, Sentinel)
    <2>0. TlsfHdr \in Nat /\ Sentinel \in Nat
      BY TheEnds
    <2>1. CASE n \in F /\ b \notin P
      <3>1. Joins(C, e, b, n, D, f)
        BY <1>1, <1>5, <1>7, <1>9, <2>1 DEF Joins
      <3> QED BY <1>1, <1>2, <1>3, <2>0, <3>1, RowJoin
    <2>2. CASE n \notin F /\ b \in P
      <3>1. Joins(C, e, q, b, D, f)
        BY <1>1, <1>6, <1>7, <1>9, <2>2 DEF Joins
      <3> QED BY <1>1, <1>2, <1>3, <2>0, <3>1, RowJoin
    <2>3. CASE n \notin F /\ b \notin P
      <3>1. D = C /\ \A d \in C : f[d] = e[d]
        BY <1>1, <1>7, <1>9, <2>3
      <3> QED BY <1>2, <3>1 DEF Row
    <2>4. CASE n \in F /\ b \in P
      <3> DEFINE B == C \ {n}
                 m == [a \in BlockAddresses |-> IF a = b THEN e[n] ELSE e[a]]
      <3>1. /\ m \in [BlockAddresses -> Nat] /\ m[b] = e[n] /\ \A a \in B : a # b => m[a] = e[a]
            /\ B \in SUBSET BlockAddresses
        BY <1>1, <1>2, <1>3, <1>5
      <3>2. Joins(C, e, b, n, B, m)
        <4> HIDE DEF m
        <4> QED BY <1>1, <1>5, <2>4, <3>1 DEF Joins
      <3>3. Row(B, m, TlsfHdr, Sentinel)
        <4> HIDE DEF m, B
        <4> QED BY <1>2, <1>3, <2>0, <3>1, <3>2, RowJoin
      <3>4. Joins(B, m, q, b, D, f)
        <4>1. q \in B /\ b \in B /\ D = B \ {b} /\ q # b
          BY <1>1, <1>5, <1>6, <1>7, <2>4
        <4>2. m[q] = b /\ f[q] = m[b] /\ \A d \in D : d # q => f[d] = m[d]
          <5> HIDE DEF m
          <5> QED BY <1>1, <1>6, <1>9, <2>4, <3>1, <4>1
        <4> HIDE DEF m, B
        <4> QED BY <4>1, <4>2 DEF Joins
      <3> HIDE DEF m, B
      <3> QED BY <1>1, <1>3, <2>0, <3>1, <3>3, <3>4, RowJoin
    <2> QED BY <2>1, <2>2, <2>3, <2>4
  <1>11. ASSUME NEW d \in D, d # q PROVE (f[d] \in Q <=> d \in G) /\ (d \in G => g[f[d]] = d /\ f[d] \notin G)
    <2>1. d \in C /\ d \notin W /\ f[d] = e[d] /\ e[d] \in BlockAddresses /\ e[d] # z
      <3>1. d \in C /\ d \notin W /\ f[d] = e[d] /\ e[d] \in BlockAddresses
        BY <1>3, <1>7, <1>9, <1>11
      <3>2. e[d] # z
        <4>1. CASE n \in F
          BY <1>1, <1>3, <1>5, <3>1, <4>1
        <4>2. CASE n \notin F
          <5>1. z = e[b]
            BY <1>1, <4>2
          <5>2. d # b
            BY <1>1, <1>11, <3>1
          <5> QED BY <1>1, <1>3, <3>1, <5>1, <5>2
        <4> QED BY <4>1, <4>2
      <3> QED BY <3>1, <3>2
    <2>2. d # b
      BY <1>1, <1>11, <2>1
    <2>3. e[d] \notin W
      <3>1. e[d] # n
        BY <1>1, <1>3, <2>1, <2>2
      <3>2. b \in P => e[d] # b
        BY <1>3, <1>6, <1>11, <2>1
      <3> QED BY <1>1, <3>1, <3>2
    <2>4. d \in F <=> d \in G
      BY <1>1, <1>11, <2>1
    <2>5. (e[d] \in P <=> d \in F) /\ (d \in F => h[e[d]] = d /\ e[d] \notin F)
      BY <1>2, <2>1
    <2>6. e[d] \in Q <=> e[d] \in P
      BY <1>1, <2>1, <2>3
    <2>7. g[e[d]] = h[e[d]]
      BY <1>1, <2>1, <2>3
    <2>8. d \in F => e[d] # q
      <3> SUFFICES ASSUME d \in F, e[d] = q PROVE FALSE
        OBVIOUS
      <3>1. q \in P /\ q \notin F
        BY <2>5
      <3>2. q = b /\ b \notin P
        BY <1>1, <1>6, <3>1
      <3> QED BY <3>1, <3>2
    <2> QED BY <1>1, <2>1, <2>4, <2>5, <2>6, <2>7, <2>8
  <1>12. q \in G /\ f[q] \in Q /\ g[f[q]] = q /\ f[q] \notin G
    BY <1>1, <1>8
  <1>13. TlsfHdr \notin Q
    BY <1>1, <1>2, <1>8
  <1>14. (\A d \in D : f[d] \in Q <=> d \in G) /\ \A d \in G : g[f[d]] = d /\ f[d] \notin G
    BY <1>11, <1>12 DEF D
  <1> QED BY <1>1, <1>7, <1>10, <1>13, <1>14 DEF Tagged, D

-----------------------------------------------------------------------------
(* The invariant of tlsf.c. *)

BlockMemories ==
  [BlockAddresses -> [size : 0 .. TlsfSize, free : BOOLEAN, prev_free : BOOLEAN, prev_hdr : BlockAddresses]]
BlockEndsIn(m) == [a \in BlockAddresses |-> a + 4 + m[a].size]
BeforesIn(m) == [a \in BlockAddresses |-> m[a].prev_hdr]
ClassesIn(m) == [a \in BlockAddresses |-> ClassOf(m[a].size)]
FreeIn(m) == {a \in BlockAddresses : m[a].free}
MarkedIn(m) == {a \in BlockAddresses : m[a].prev_free}

BlocksTagged == Tagged(BlockEndsIn(block), FreeIn(block), HeldBlocks, MarkedIn(block), BeforesIn(block))

\* What was given is the data of a block that is large enough.
BlocksGivenOK ==
  /\ \A x \in blocks_given :
       /\ x.at \in BlockAddresses /\ x.size \in TlsfAsks
       /\ x.at - BHDR_OVERHEAD \in BlockAddresses /\ x.size <= block[x.at - BHDR_OVERHEAD].size
  /\ \A x, y \in blocks_given : x.at = y.at => x = y

TlsfInv ==
  /\ block \in BlockMemories
  /\ BlocksTagged
  /\ ListsShow(Lists, FreeIn(block), ClassesIn(block))
  /\ BlocksGivenOK

LEMMA BlockMemoryFacts ==
  ASSUME NEW m \in BlockMemories
  PROVE  /\ BlockEndsIn(m) \in [BlockAddresses -> Nat] /\ BeforesIn(m) \in [BlockAddresses -> BlockAddresses]
         /\ \A a \in BlockAddresses :
              /\ m[a].size \in Nat /\ m[a].size < Limit /\ m[a].prev_hdr \in BlockAddresses
              /\ m[a].free \in BOOLEAN /\ m[a].prev_free \in BOOLEAN
              /\ BlockEndsIn(m)[a] = a + 4 + m[a].size
              /\ BeforesIn(m)[a] = m[a].prev_hdr /\ ClassesIn(m)[a] = ClassOf(m[a].size)
              /\ ClassesIn(m)[a] \in FLs \X SLs
              /\ a \in FreeIn(m) <=> m[a].free
              /\ a \in MarkedIn(m) <=> m[a].prev_free
         /\ FreeIn(m) \in SUBSET BlockAddresses /\ MarkedIn(m) \in SUBSET BlockAddresses
  <1>1. \A a \in BlockAddresses :
          /\ m[a].size \in Nat /\ m[a].size < Limit /\ m[a].prev_hdr \in BlockAddresses
          /\ m[a].free \in BOOLEAN /\ m[a].prev_free \in BOOLEAN
    BY TlsfSizes DEF BlockMemories
  <1>2. BlockEndsIn(m) \in [BlockAddresses -> Nat] /\ BeforesIn(m) \in [BlockAddresses -> BlockAddresses]
    BY <1>1, WordAddresses DEF BlockEndsIn, BeforesIn
  <1>3. \A a \in BlockAddresses :
          /\ BlockEndsIn(m)[a] = a + 4 + m[a].size
          /\ BeforesIn(m)[a] = m[a].prev_hdr /\ ClassesIn(m)[a] = ClassOf(m[a].size)
    BY DEF BlockEndsIn, BeforesIn, ClassesIn
  <1>4. \A a \in BlockAddresses : ClassesIn(m)[a] \in FLs \X SLs
    BY <1>1, <1>3, ClassExists
  <1>5. \A a \in BlockAddresses : a \in FreeIn(m) <=> m[a].free
    BY DEF FreeIn
  <1>6. \A a \in BlockAddresses : a \in MarkedIn(m) <=> m[a].prev_free
    BY DEF MarkedIn
  <1>7. FreeIn(m) \in SUBSET BlockAddresses /\ MarkedIn(m) \in SUBSET BlockAddresses
    BY DEF FreeIn, MarkedIn
  <1> QED BY <1>1, <1>2, <1>3, <1>4, <1>5, <1>6, <1>7

\* A block is given.
LEMMA OneBlockGiven ==
  ASSUME TlsfInv, NEW b \in FreeIn(block), NEW n \in TlsfAsks,
         blocks_given' = blocks_given \cup {[at |-> b + BHDR_OVERHEAD, size |-> n]},
         \A h \in HeldBlocks : block'[h].size = block[h].size, n <= block'[b].size
  PROVE  BlocksGivenOK' /\ HeldBlocks' = HeldBlocks \cup {b}
  <1> DEFINE new == [at |-> b + BHDR_OVERHEAD, size |-> n]
  <1>0. block \in BlockMemories /\ BlocksTagged
    BY DEF TlsfInv
  <1>1. b \in Nat /\ b \in BlockAddresses /\ BHDR_OVERHEAD = 4 /\ b \notin HeldBlocks
    BY <1>0, WordAddresses, BlockMemoryFacts DEF BlocksTagged, Tagged, BHDR_OVERHEAD
  <1>2. new.at - BHDR_OVERHEAD = b /\ new.size = n /\ new.at = b + 4
    BY <1>1
  <1>3. new.at \in BlockAddresses
    <2>1. TlsfHdr <= b /\ b < Sentinel
      <3>1. TlsfHdr <= b /\ b < BlockEndsIn(block)[b] /\ BlockEndsIn(block)[b] <= Sentinel /\ BlockEndsIn(block)[b] \in Nat
        BY <1>0, TaggedFacts DEF BlocksTagged
      <3> QED BY <1>1, <3>1, TheEnds
    <2>2. b % 4 = 0 /\ b <= TlsfSize - 4
      BY <1>1, <2>1, TheEnds, WordAddresses, TlsfSizes
    <2> QED BY <1>1, <1>2, <2>2, WordAddresses, TlsfSizes
  <1>4. \A x \in blocks_given : x.at - BHDR_OVERHEAD \in HeldBlocks /\ x.at \in Nat /\ x.at \in BlockAddresses
    BY WordAddresses DEF HeldBlocks, TlsfInv, BlocksGivenOK
  <1>5. HeldBlocks' = {x.at - BHDR_OVERHEAD : x \in blocks_given'}
    BY DEF HeldBlocks, BHDR_OVERHEAD
  <1>6. HeldBlocks' = HeldBlocks \cup {b}
    BY <1>2, <1>5 DEF HeldBlocks
  <1>7. ASSUME NEW x \in blocks_given'
        PROVE  /\ x.at \in BlockAddresses /\ x.size \in TlsfAsks
               /\ x.at - BHDR_OVERHEAD \in BlockAddresses /\ x.size <= block'[x.at - BHDR_OVERHEAD].size
    <2>1. CASE x = new
      BY <1>1, <1>2, <1>3, <2>1
    <2>2. CASE x \in blocks_given
      BY <1>4, <2>2 DEF TlsfInv, BlocksGivenOK
    <2> QED BY <2>1, <2>2
  <1>8. ASSUME NEW x \in blocks_given', NEW y \in blocks_given', x.at = y.at PROVE x = y
    <2>1. \A z \in blocks_given : z.at # new.at
      BY <1>1, <1>2, <1>4
    <2>2. \A z, v \in blocks_given : z.at = v.at => z = v
      BY DEF TlsfInv, BlocksGivenOK
    <2> QED BY <1>8, <2>1, <2>2
  <1> QED BY <1>6, <1>7, <1>8 DEF BlocksGivenOK, BHDR_OVERHEAD

\* A block is given back.
LEMMA OneBlockBack ==
  ASSUME TlsfInv, NEW x \in blocks_given, blocks_given' = blocks_given \ {x},
         \A h \in HeldBlocks \ {x.at - BHDR_OVERHEAD} : block'[h].size = block[h].size
  PROVE  /\ BlocksGivenOK' /\ HeldBlocks' = HeldBlocks \ {x.at - BHDR_OVERHEAD}
         /\ x.at - BHDR_OVERHEAD \in HeldBlocks
  <1>0. BHDR_OVERHEAD = 4
    BY DEF BHDR_OVERHEAD
  <1>1. \A y \in blocks_given : y.at - BHDR_OVERHEAD \in HeldBlocks /\ y.at \in Nat
    BY WordAddresses DEF HeldBlocks, TlsfInv, BlocksGivenOK
  <1>2. \A y \in blocks_given : y # x => y.at - BHDR_OVERHEAD # x.at - BHDR_OVERHEAD
    <2>1. \A y \in blocks_given : y # x => y.at # x.at
      BY DEF TlsfInv, BlocksGivenOK
    <2> QED BY <1>0, <1>1, <2>1
  <1>3. HeldBlocks' = {y.at - BHDR_OVERHEAD : y \in blocks_given'}
    BY DEF HeldBlocks, BHDR_OVERHEAD
  <1>4. HeldBlocks' = HeldBlocks \ {x.at - BHDR_OVERHEAD}
    BY <1>2, <1>3 DEF HeldBlocks
  <1>5. \A y \in blocks_given' : block'[y.at - BHDR_OVERHEAD].size = block[y.at - BHDR_OVERHEAD].size
    BY <1>1, <1>2
  <1> QED BY <1>1, <1>4, <1>5 DEF TlsfInv, BlocksGivenOK, BHDR_OVERHEAD

LEMMA MallocFinds ==
  ASSUME TlsfInv, NEW n \in TlsfAsks, NEW c \in Suitable(ClassOf(Wanted(n))),
         NEW b, b = Head(matrix[c[1]][c[2]])
  PROVE  /\ b \in FreeIn(block) /\ ClassesIn(block)[b] = c /\ c \in FLs \X SLs
         /\ Wanted(n) \in Nat /\ Wanted(n) % 4 = 0 /\ Wanted(n) > 0 /\ n <= Wanted(n)
         /\ Wanted(n) <= block[b].size
  <1>1. /\ Wanted(n) \in Nat /\ n <= Wanted(n) /\ Wanted(n) % 4 = 0 /\ Wanted(n) > 0
        /\ ClassOf(Wanted(n)) \in FLs \X SLs
        /\ \A s \in Nat : s < Limit /\ NotBefore(ClassOf(s), ClassOf(Wanted(n))) => Wanted(n) <= s
    BY WantedFits
  <1>2. ListsShow(Lists, FreeIn(block), ClassesIn(block)) /\ block \in BlockMemories
    BY DEF TlsfInv
  <1>3. /\ c \in FLs \X SLs /\ NotBefore(c, ClassOf(Wanted(n)))
        /\ b \in FreeIn(block) /\ ClassesIn(block)[b] = c
    BY <1>1, <1>2, SearchFinds
  <1>4. block[b].size \in Nat /\ block[b].size < Limit /\ ClassOf(block[b].size) = c
    BY <1>2, <1>3, BlockMemoryFacts
  <1>5. Wanted(n) <= block[b].size
    BY <1>1, <1>3, <1>4
  <1> QED BY <1>1, <1>3, <1>5

\* The rest becomes a block of its own.
MallocSplits(b, n, w, b2, next_b, rest) ==
  /\ b2 = b + 4 + w /\ next_b = b + 4 + block[b].size /\ rest = block[b].size - w - 4
  /\ rest >= MIN_BLOCK_SIZE
  /\ block' = [block EXCEPT ![b2] = [NoHeader EXCEPT !.size = rest, !.free = TRUE],
                            ![next_b].prev_hdr = b2,
                            ![b].size = w, ![b].free = FALSE]
  /\ NewLists(InsertBlock(ExtractBlock(Lists, b, ClassesIn(block)[b]), b2, ClassOf(rest)))
  /\ blocks_given' = blocks_given \cup {[at |-> b + BHDR_OVERHEAD, size |-> n]}
LEMMA MallocSplitStep ==
  ASSUME TlsfInv, NEW n \in TlsfAsks, NEW b \in FreeIn(block),
         NEW w \in Nat, w % 4 = 0, w > 0, n <= w,
         NEW b2, NEW next_b, NEW rest, MallocSplits(b, n, w, b2, next_b, rest)
  PROVE  TlsfInv' /\ b \notin HeldBlocks /\ n <= block'[b].size
  <1> DEFINE e == BlockEndsIn(block)
             F == FreeIn(block)
             P == MarkedIn(block)
             h == BeforesIn(block)
             k == ClassesIn(block)
             H == HeldBlocks
  <1>1. block \in BlockMemories /\ Tagged(e, F, H, P, h) /\ ListsShow(Lists, F, k)
    BY DEF TlsfInv, BlocksTagged
  <1>2. /\ b2 = b + 4 + w /\ next_b = b + 4 + block[b].size /\ rest = block[b].size - w - 4
        /\ rest >= MIN_BLOCK_SIZE /\ MIN_BLOCK_SIZE \in Nat \ {0}
    BY TlsfSizes DEF MallocSplits
  <1>3. /\ b \in BlockAddresses /\ b \in Nat /\ block[b].size \in Nat /\ e[b] = next_b /\ block[b].size < Limit
        /\ b % 4 = 0 /\ b \notin H /\ F \in SUBSET BlockAddresses
    <2>1. /\ b \in BlockAddresses /\ block[b].size \in Nat /\ e[b] = b + 4 + block[b].size
          /\ block[b].size < Limit /\ F \in SUBSET BlockAddresses
      BY <1>1, BlockMemoryFacts
    <2> QED BY <1>1, <1>2, <2>1, WordAddresses DEF Tagged
  <1>4. /\ rest \in Nat /\ b < b2 /\ b2 < next_b /\ b2 \in Nat /\ next_b = b2 + 4 + rest
        /\ rest <= TlsfSize /\ w <= TlsfSize
    <2>1. block[b].size <= TlsfSize
      BY <1>1, <1>3 DEF BlockMemories
    <2> QED BY <1>2, <1>3, <2>1, TlsfSizes
  <1>5. next_b \in BlockAddresses /\ next_b <= Sentinel
    BY <1>1, <1>3, TaggedFacts
  <1>6. b2 \in BlockAddresses
    <2>1. b2 % 4 = 0
      BY <1>2, <1>3
    <2>2. b2 <= TlsfSize
      BY <1>4, <1>5, TheEnds, TlsfSizes
    <2> QED BY <1>4, <2>1, <2>2, WordAddresses, TlsfSizes
  <1>7. b # b2 /\ b # next_b /\ b2 # next_b
    BY <1>3, <1>4
  <1>8. /\ DOMAIN block' = BlockAddresses
        /\ \A a \in BlockAddresses :
             block'[a] = IF a = b2 THEN [NoHeader EXCEPT !.size = rest, !.free = TRUE]
                         ELSE IF a = next_b THEN [block[a] EXCEPT !.prev_hdr = b2]
                         ELSE IF a = b THEN [block[a] EXCEPT !.size = w, !.free = FALSE]
                         ELSE block[a]
    <2>1. block' = [block EXCEPT ![b2] = [NoHeader EXCEPT !.size = rest, !.free = TRUE],
                                 ![next_b].prev_hdr = b2,
                                 ![b].size = w, ![b].free = FALSE]
      BY DEF MallocSplits
    <2>2. block \in [BlockAddresses -> [size : 0 .. TlsfSize, free : BOOLEAN, prev_free : BOOLEAN, prev_hdr : BlockAddresses]]
      BY <1>1 DEF BlockMemories
    <2> QED BY <1>3, <1>5, <1>6, <1>7, <2>1, <2>2
  <1>9. \A a \in BlockAddresses :
          /\ block[a] \in [size : 0 .. TlsfSize, free : BOOLEAN, prev_free : BOOLEAN, prev_hdr : BlockAddresses]
          /\ 0 \in BlockAddresses /\ rest \in 0 .. TlsfSize /\ w \in 0 .. TlsfSize
    BY <1>1, <1>4, WordAddresses, TlsfSizes DEF BlockMemories
  <1>10. \A a \in BlockAddresses :
           /\ block'[a] \in [size : 0 .. TlsfSize, free : BOOLEAN, prev_free : BOOLEAN, prev_hdr : BlockAddresses]
           /\ block'[a].size = IF a = b2 THEN rest ELSE IF a = b THEN w ELSE block[a].size
           /\ block'[a].free = IF a = b2 THEN TRUE ELSE IF a = b THEN FALSE ELSE block[a].free
           /\ block'[a].prev_free = IF a = b2 THEN FALSE ELSE block[a].prev_free
           /\ block'[a].prev_hdr = IF a = b2 THEN 0 ELSE IF a = next_b THEN b2 ELSE block[a].prev_hdr
    <2> TAKE a \in BlockAddresses
    <2> DEFINE r == block[a]
    <2>1. /\ r \in [size : 0 .. TlsfSize, free : BOOLEAN, prev_free : BOOLEAN, prev_hdr : BlockAddresses]
          /\ 0 \in BlockAddresses /\ rest \in 0 .. TlsfSize /\ w \in 0 .. TlsfSize
      BY <1>9
    <2>2. block'[a] = IF a = b2 THEN [NoHeader EXCEPT !.size = rest, !.free = TRUE]
                      ELSE IF a = next_b THEN [r EXCEPT !.prev_hdr = b2]
                      ELSE IF a = b THEN [r EXCEPT !.size = w, !.free = FALSE]
                      ELSE r
      BY <1>8
    <2> HIDE DEF r
    <2>3. CASE a = b2
      <3>1. block'[a] = [size |-> rest, free |-> TRUE, prev_free |-> FALSE, prev_hdr |-> 0]
        BY <2>2, <2>3 DEF NoHeader
      <3> QED BY <1>7, <2>1, <2>3, <3>1 DEF r
    <2>4. CASE a = next_b
      <3>1. block'[a] = [r EXCEPT !.prev_hdr = b2]
        BY <1>7, <2>2, <2>4
      <3> QED BY <1>6, <1>7, <2>1, <2>4, <3>1 DEF r
    <2>5. CASE a = b
      <3>1. block'[a] = [r EXCEPT !.size = w, !.free = FALSE]
        BY <1>7, <2>2, <2>5
      <3> QED BY <1>7, <2>1, <2>5, <3>1 DEF r
    <2>6. CASE a # b2 /\ a # next_b /\ a # b
      <3>1. block'[a] = r
        BY <2>2, <2>6
      <3> QED BY <2>1, <2>6, <3>1 DEF r
    <2> QED BY <2>3, <2>4, <2>5, <2>6
  <1>11. block' \in BlockMemories
    <2>1. block' = [a \in BlockAddresses |-> block'[a]]
      <3>1. block' = [block EXCEPT ![b2] = [NoHeader EXCEPT !.size = rest, !.free = TRUE],
                                   ![next_b].prev_hdr = b2,
                                   ![b].size = w, ![b].free = FALSE]
        BY DEF MallocSplits
      <3> QED BY <1>8, <3>1
    <2> QED BY <1>10, <2>1 DEF BlockMemories
  <1> DEFINE f == BlockEndsIn(block')
             G == FreeIn(block')
             Q == MarkedIn(block')
             g == BeforesIn(block')
             j == ClassesIn(block')
  <1>12. /\ f \in [BlockAddresses -> Nat]
         /\ \A a \in BlockAddresses :
              /\ f[a] = a + 4 + block'[a].size /\ g[a] = block'[a].prev_hdr /\ j[a] = ClassOf(block'[a].size)
              /\ a \in G <=> block'[a].free
              /\ a \in Q <=> block'[a].prev_free
         /\ G \in SUBSET BlockAddresses /\ Q \in SUBSET BlockAddresses
         /\ j[b2] \in FLs \X SLs
    BY <1>6, <1>11, BlockMemoryFacts
  <1>13. /\ \A a \in BlockAddresses :
              /\ e[a] = a + 4 + block[a].size /\ h[a] = block[a].prev_hdr /\ k[a] = ClassOf(block[a].size)
              /\ a \in F <=> block[a].free
              /\ a \in P <=> block[a].prev_free
         /\ P \in SUBSET BlockAddresses /\ k[b] \in FLs \X SLs
    BY <1>1, <1>3, BlockMemoryFacts
  <1> HIDE DEF e, F, P, h, k, H, f, G, Q, g, j
  <1>14. SplitsBlock(e, F, H, P, h, b, b2, f, G, H \cup {b}, Q, g)
    <2>1. f[b] = b2 /\ f[b2] = e[b] /\ \A a \in BlockAddresses : a # b /\ a # b2 => f[a] = e[a]
      <3>1. f[b] = b2
        <4>1. block'[b].size = w
          BY <1>3, <1>7, <1>10
        <4> QED BY <1>2, <1>3, <1>12, <4>1
      <3>2. f[b2] = e[b]
        <4>1. block'[b2].size = rest
          BY <1>6, <1>10
        <4> QED BY <1>3, <1>4, <1>6, <1>12, <4>1
      <3>3. ASSUME NEW a \in BlockAddresses, a # b, a # b2 PROVE f[a] = e[a]
        <4>1. block'[a].size = block[a].size
          BY <1>10, <3>3
        <4> QED BY <1>12, <1>13, <4>1
      <3> QED BY <3>1, <3>2, <3>3
    <2>2. G = (F \ {b}) \cup {b2}
      <3>1. \A a \in BlockAddresses : a \in G <=> (a = b2 \/ (a # b /\ a \in F))
        BY <1>7, <1>10, <1>12, <1>13
      <3> QED BY <1>3, <1>6, <1>7, <1>12, <3>1
    <2>3. Q = P \ {b2}
      <3>1. \A a \in BlockAddresses : a \in Q <=> (a # b2 /\ a \in P)
        BY <1>10, <1>12, <1>13
      <3> QED BY <1>12, <1>13, <3>1
    <2>4. g[e[b]] = b2 /\ \A a \in BlockAddresses : a # e[b] /\ a # b2 => g[a] = h[a]
      <3>1. g[next_b] = b2
        <4>1. block'[next_b].prev_hdr = b2
          BY <1>5, <1>7, <1>10
        <4> QED BY <1>5, <1>12, <4>1
      <3>2. ASSUME NEW a \in BlockAddresses, a # next_b, a # b2 PROVE g[a] = h[a]
        <4>1. block'[a].prev_hdr = block[a].prev_hdr
          BY <1>10, <3>2
        <4> QED BY <1>12, <1>13, <4>1
      <3> QED BY <1>3, <3>1, <3>2
    <2>5. b \in F
      BY DEF F
    <2> QED BY <1>3, <1>4, <1>6, <1>12, <2>1, <2>2, <2>3, <2>4, <2>5 DEF SplitsBlock
  <1>15. Tagged(f, G, H \cup {b}, Q, g) /\ b2 \notin F \cup H
    BY <1>1, <1>14, SplitTagged
  <1>16. BlocksGivenOK' /\ H' = H \cup {b}
    <2>1. \A a \in H : a \in BlockAddresses /\ a # b /\ a # b2
      BY <1>1, <1>3, <1>15 DEF Tagged
    <2>2. \A a \in H : block'[a].size = block[a].size
      BY <1>10, <2>1
    <2>3. n <= block'[b].size
      BY <1>3, <1>7, <1>10
    <2>4. blocks_given' = blocks_given \cup {[at |-> b + BHDR_OVERHEAD, size |-> n]}
      BY DEF MallocSplits
    <2> QED BY <2>2, <2>3, <2>4, OneBlockGiven DEF H
  <1>17. ListsShow(Lists', G, j)
    <2> DEFINE l == ExtractBlock(Lists, b, k[b])
               l2 == InsertBlock(l, b2, ClassOf(rest))
    <2>1. ListsShow(l, F \ {b}, k)
      BY <1>1, <1>3, <1>13, ExtractShows DEF F
    <2>2. ListsShow(l, F \ {b}, j)
      <3>1. \A a \in F \ {b} : j[a] = k[a]
        <4> SUFFICES ASSUME NEW a \in F \ {b} PROVE j[a] = k[a]
          OBVIOUS
        <4>1. a \in BlockAddresses /\ a # b /\ a # b2
          BY <1>3, <1>15
        <4>2. block'[a].size = block[a].size
          BY <1>10, <4>1
        <4> QED BY <1>12, <1>13, <4>1, <4>2
      <3> HIDE DEF l
      <3> QED BY <2>1, <3>1, OtherClasses
    <2>3. j[b2] = ClassOf(rest)
      BY <1>6, <1>10, <1>12
    <2>4. G = (F \ {b}) \cup {b2} /\ b2 \notin F \ {b} /\ F \ {b} \in SUBSET BlockAddresses
      BY <1>3, <1>14, <1>15 DEF SplitsBlock
    <2>5. ListsShow(l2, G, j)
      <3> HIDE DEF l
      <3> QED BY <1>6, <1>12, <2>2, <2>3, <2>4, InsertShows, ZenonT(60)
    <2>6. Lists' = [matrix |-> l2.matrix, sl |-> l2.sl, fl |-> l2.fl]
      BY DEF MallocSplits, NewLists, Lists, k
    <2> HIDE DEF l2
    <2>7. Lists'.matrix = l2.matrix /\ Lists'.sl = l2.sl /\ Lists'.fl = l2.fl
      BY <2>6
    <2> QED BY <2>5, <2>7 DEF ListsShow
  <1>18. n <= block'[b].size /\ b \notin HeldBlocks
    BY <1>3, <1>7, <1>10 DEF H
  <1> QED BY <1>11, <1>15, <1>16, <1>17, <1>18 DEF TlsfInv, BlocksTagged, f, G, Q, g, j, H

\* The whole block is given.
MallocTakes(b, n, next_b) ==
  /\ next_b = b + 4 + block[b].size
  /\ block' = [block EXCEPT ![next_b].prev_free = FALSE, ![next_b].prev_hdr = 0, ![b].free = FALSE]
  /\ NewLists(ExtractBlock(Lists, b, ClassesIn(block)[b]))
  /\ blocks_given' = blocks_given \cup {[at |-> b + BHDR_OVERHEAD, size |-> n]}
LEMMA MallocTakeStep ==
  ASSUME TlsfInv, NEW n \in TlsfAsks, NEW b \in FreeIn(block), n <= block[b].size,
         NEW next_b, MallocTakes(b, n, next_b)
  PROVE  TlsfInv' /\ b \notin HeldBlocks /\ n <= block'[b].size
  <1> DEFINE e == BlockEndsIn(block)
             F == FreeIn(block)
             P == MarkedIn(block)
             h == BeforesIn(block)
             k == ClassesIn(block)
             H == HeldBlocks
             Headers == [size : 0 .. TlsfSize, free : BOOLEAN, prev_free : BOOLEAN, prev_hdr : BlockAddresses]
  <1>1. block \in BlockMemories /\ Tagged(e, F, H, P, h) /\ ListsShow(Lists, F, k)
    BY DEF TlsfInv, BlocksTagged
  <1>3. /\ b \in BlockAddresses /\ b \in Nat /\ block[b].size \in Nat /\ e[b] = next_b
        /\ b \notin H /\ F \in SUBSET BlockAddresses /\ next_b = b + 4 + block[b].size
    <2>1. /\ b \in BlockAddresses /\ block[b].size \in Nat /\ e[b] = b + 4 + block[b].size
          /\ F \in SUBSET BlockAddresses
      BY <1>1, BlockMemoryFacts
    <2> QED BY <1>1, <2>1, WordAddresses DEF Tagged, MallocTakes
  <1>5. next_b \in BlockAddresses /\ b # next_b
    BY <1>1, <1>3, TaggedFacts
  <1>8. /\ DOMAIN block' = BlockAddresses
        /\ \A a \in BlockAddresses :
             block'[a] = IF a = next_b THEN [block[a] EXCEPT !.prev_free = FALSE, !.prev_hdr = 0]
                         ELSE IF a = b THEN [block[a] EXCEPT !.free = FALSE]
                         ELSE block[a]
        /\ block' = [a \in BlockAddresses |-> block'[a]]
    <2>1. block' = [block EXCEPT ![next_b].prev_free = FALSE, ![next_b].prev_hdr = 0, ![b].free = FALSE]
      BY DEF MallocTakes
    <2>2. block \in [BlockAddresses -> Headers]
      BY <1>1 DEF BlockMemories
    <2> QED BY <1>3, <1>5, <2>1, <2>2
  <1>9. \A a \in BlockAddresses : block[a] \in Headers /\ 0 \in BlockAddresses
    BY <1>1, WordAddresses DEF BlockMemories
  <1>10. \A a \in BlockAddresses :
           /\ block'[a] \in Headers
           /\ block'[a].size = block[a].size
           /\ block'[a].free = IF a = b THEN FALSE ELSE block[a].free
           /\ block'[a].prev_free = IF a = next_b THEN FALSE ELSE block[a].prev_free
           /\ block'[a].prev_hdr = IF a = next_b THEN 0 ELSE block[a].prev_hdr
    <2> TAKE a \in BlockAddresses
    <2> DEFINE r == block[a]
    <2>1. r \in Headers /\ 0 \in BlockAddresses
      BY <1>9
    <2>2. block'[a] = IF a = next_b THEN [r EXCEPT !.prev_free = FALSE, !.prev_hdr = 0]
                      ELSE IF a = b THEN [r EXCEPT !.free = FALSE]
                      ELSE r
      BY <1>8
    <2> HIDE DEF r
    <2>4. CASE a = next_b
      <3>1. block'[a] = [r EXCEPT !.prev_free = FALSE, !.prev_hdr = 0]
        BY <2>2, <2>4
      <3> QED BY <1>5, <2>1, <2>4, <3>1 DEF r
    <2>5. CASE a = b
      <3>1. block'[a] = [r EXCEPT !.free = FALSE]
        BY <1>5, <2>2, <2>5
      <3> QED BY <1>5, <2>1, <2>5, <3>1 DEF r
    <2>6. CASE a # next_b /\ a # b
      <3>1. block'[a] = r
        BY <2>2, <2>6
      <3> QED BY <2>1, <2>6, <3>1 DEF r
    <2> QED BY <2>4, <2>5, <2>6
  <1>11. block' \in BlockMemories
    BY <1>8, <1>10 DEF BlockMemories
  <1> HIDE DEF Headers
  <1> DEFINE f == BlockEndsIn(block')
             G == FreeIn(block')
             Q == MarkedIn(block')
             g == BeforesIn(block')
             j == ClassesIn(block')
  <1>12. /\ f \in [BlockAddresses -> Nat]
         /\ \A a \in BlockAddresses :
              /\ f[a] = a + 4 + block'[a].size /\ g[a] = block'[a].prev_hdr /\ j[a] = ClassOf(block'[a].size)
              /\ a \in G <=> block'[a].free
              /\ a \in Q <=> block'[a].prev_free
         /\ G \in SUBSET BlockAddresses /\ Q \in SUBSET BlockAddresses
    BY <1>11, BlockMemoryFacts
  <1>13. /\ \A a \in BlockAddresses :
              /\ e[a] = a + 4 + block[a].size /\ h[a] = block[a].prev_hdr /\ k[a] = ClassOf(block[a].size)
              /\ a \in F <=> block[a].free
              /\ a \in P <=> block[a].prev_free
         /\ P \in SUBSET BlockAddresses /\ k[b] \in FLs \X SLs
    BY <1>1, <1>3, BlockMemoryFacts
  <1> HIDE DEF e, F, P, h, k, H, f, G, Q, g, j
  <1>14. TakesBlock(e, F, H, P, h, b, f, G, H \cup {b}, Q, g)
    <2>1. \A a \in BlockAddresses : f[a] = e[a]
      <3> TAKE a \in BlockAddresses
      <3>1. block'[a].size = block[a].size
        BY <1>10
      <3> QED BY <1>12, <1>13, <3>1
    <2>2. G = F \ {b}
      <3>1. \A a \in BlockAddresses : a \in G <=> (a # b /\ a \in F)
        BY <1>10, <1>12, <1>13
      <3> QED BY <1>3, <1>12, <3>1
    <2>3. Q = P \ {e[b]}
      <3>1. ASSUME NEW a \in BlockAddresses PROVE a \in Q <=> (a # next_b /\ a \in P)
        <4>1. block'[a].prev_free = IF a = next_b THEN FALSE ELSE block[a].prev_free
          BY <1>10
        <4> QED BY <1>12, <1>13, <4>1
      <3>2. Q \in SUBSET BlockAddresses /\ P \in SUBSET BlockAddresses /\ e[b] = next_b
        BY <1>3, <1>12, <1>13
      <3> QED BY <3>1, <3>2
    <2>4. ASSUME NEW a \in BlockAddresses, a # e[b] PROVE g[a] = h[a]
      <3>1. block'[a].prev_hdr = block[a].prev_hdr
        BY <1>3, <1>10, <2>4
      <3> QED BY <1>12, <1>13, <3>1
    <2>5. b \in F
      BY DEF F
    <2> QED BY <1>12, <2>1, <2>2, <2>3, <2>4, <2>5 DEF TakesBlock
  <1>15. Tagged(f, G, H \cup {b}, Q, g)
    BY <1>1, <1>14, TakeTagged
  <1>16. BlocksGivenOK' /\ H' = H \cup {b}
    <2>1. \A a \in H : block'[a].size = block[a].size
      BY <1>1, <1>10 DEF Tagged
    <2>2. n <= block'[b].size
      BY <1>3, <1>10
    <2>3. blocks_given' = blocks_given \cup {[at |-> b + BHDR_OVERHEAD, size |-> n]}
      BY DEF MallocTakes
    <2> QED BY <2>1, <2>2, <2>3, OneBlockGiven DEF H
  <1>17. ListsShow(Lists', G, j)
    <2> DEFINE l == ExtractBlock(Lists, b, k[b])
    <2>1. ListsShow(l, F \ {b}, k)
      BY <1>1, <1>3, <1>13, ExtractShows DEF F
    <2>2. \A a \in F \ {b} : j[a] = k[a]
      <3> SUFFICES ASSUME NEW a \in F \ {b} PROVE j[a] = k[a]
        OBVIOUS
      <3>1. a \in BlockAddresses /\ block'[a].size = block[a].size
        BY <1>3, <1>10
      <3> QED BY <1>12, <1>13, <3>1
    <2>3. G = F \ {b}
      BY <1>14 DEF TakesBlock
    <2>4. Lists' = [matrix |-> l.matrix, sl |-> l.sl, fl |-> l.fl]
      BY DEF MallocTakes, NewLists, Lists, k
    <2> HIDE DEF l
    <2>5. ListsShow(l, G, j)
      BY <2>1, <2>2, <2>3, OtherClasses
    <2>6. Lists'.matrix = l.matrix /\ Lists'.sl = l.sl /\ Lists'.fl = l.fl
      BY <2>4
    <2> QED BY <2>5, <2>6 DEF ListsShow
  <1>18. n <= block'[b].size /\ b \notin HeldBlocks
    BY <1>3, <1>10 DEF H
  <1> QED BY <1>11, <1>15, <1>16, <1>17, <1>18 DEF TlsfInv, BlocksTagged, f, G, Q, g, j, H

\* What malloc_ex returns is large enough and belongs to nobody.
MallocKeepsInv(n) ==
  /\ TlsfInv'
  /\ \E b \in FreeIn(block) :
       /\ b \notin HeldBlocks /\ n <= block'[b].size
       /\ blocks_given' = blocks_given \cup {[at |-> b + BHDR_OVERHEAD, size |-> n]}
LEMMA MallocStep ==
  ASSUME TlsfInv, NEW n \in TlsfAsks, MallocEx(n)
  PROVE  MallocKeepsInv(n)
  <1> DEFINE w == Wanted(n)
  <1>1. PICK c \in Suitable(ClassOf(w)) :
          LET b == Head(matrix[c[1]][c[2]])
              left == ExtractBlock(Lists, b, c)
              next_b == NextBlock(b)
              rest == block[b].size - w - BHDR_OVERHEAD
              b2 == After(b, w)
          IN /\ IF rest >= MIN_BLOCK_SIZE
                THEN /\ block' = [block EXCEPT
                          ![b2] = [NoHeader EXCEPT !.size = rest, !.free = TRUE],
                          ![next_b].prev_hdr = b2,
                          ![b].size = w, ![b].free = FALSE]
                     /\ NewLists(InsertBlock(left, b2, ClassOf(rest)))
                ELSE /\ block' = [block EXCEPT ![next_b].prev_free = FALSE, ![next_b].prev_hdr = 0,
                                               ![b].free = FALSE]
                     /\ NewLists(left)
             /\ blocks_given' = blocks_given \cup {[at |-> b + BHDR_OVERHEAD, size |-> n]}
    BY DEF MallocEx
  <1> DEFINE b == Head(matrix[c[1]][c[2]])
             next_b == NextBlock(b)
             rest == block[b].size - w - 4
             b2 == After(b, w)
  <1>2. /\ b \in FreeIn(block) /\ ClassesIn(block)[b] = c
        /\ w \in Nat /\ w % 4 = 0 /\ w > 0 /\ n <= w /\ w <= block[b].size
    BY MallocFinds
  <1>3. /\ IF rest >= MIN_BLOCK_SIZE
           THEN /\ block' = [block EXCEPT
                     ![b2] = [NoHeader EXCEPT !.size = rest, !.free = TRUE],
                     ![next_b].prev_hdr = b2,
                     ![b].size = w, ![b].free = FALSE]
                /\ NewLists(InsertBlock(ExtractBlock(Lists, b, ClassesIn(block)[b]), b2, ClassOf(rest)))
           ELSE /\ block' = [block EXCEPT ![next_b].prev_free = FALSE, ![next_b].prev_hdr = 0,
                                          ![b].free = FALSE]
                /\ NewLists(ExtractBlock(Lists, b, ClassesIn(block)[b]))
        /\ blocks_given' = blocks_given \cup {[at |-> b + BHDR_OVERHEAD, size |-> n]}
    <2> HIDE DEF w
    <2> QED BY <1>1, <1>2 DEF BHDR_OVERHEAD
  <1>4. b2 = b + 4 + w /\ next_b = b + 4 + block[b].size
    BY DEF After, NextBlock, BHDR_OVERHEAD
  <1>5. rest = block[b].size - w - 4
    OBVIOUS
  <1> HIDE DEF w, b, next_b, rest, b2
  <1>6. block[b].size \in Nat /\ TlsfAsks \in SUBSET Nat
    BY <1>2, BlockMemoryFacts, TlsfAssumption DEF TlsfInv
  <1>7. TlsfInv' /\ b \notin HeldBlocks /\ n <= block'[b].size
    <2>1. CASE rest >= MIN_BLOCK_SIZE
      <3>1. MallocSplits(b, n, w, b2, next_b, rest)
        BY <1>3, <1>4, <1>5, <2>1 DEF MallocSplits
      <3> QED BY <1>2, <3>1, MallocSplitStep
    <2>2. CASE ~(rest >= MIN_BLOCK_SIZE)
      <3>1. MallocTakes(b, n, next_b)
        BY <1>3, <1>4, <2>2 DEF MallocTakes
      <3>2. n <= block[b].size
        BY <1>2, <1>6
      <3> QED BY <1>2, <3>1, <3>2, MallocTakeStep
    <2> QED BY <2>1, <2>2
  <1> QED BY <1>2, <1>3, <1>7 DEF MallocKeepsInv

\* A block comes back and is joined with the free ones beside it.
FreesInto(x, b, q, z, W, whole, l2) ==
  /\ b = x.at - BHDR_OVERHEAD /\ z = q + 4 + whole
  /\ block' = [a \in BlockAddresses |->
       CASE a = q -> [block[a] EXCEPT !.size = whole, !.free = TRUE]
         [] a \in W -> NoHeader
         [] a = After(q, whole) -> [block[a] EXCEPT !.prev_free = TRUE, !.prev_hdr = q]
         [] OTHER -> block[a]]
  /\ NewLists(InsertBlock(l2, q, ClassOf(whole)))
  /\ blocks_given' = blocks_given \ {x}
LEMMA FreeIntoStep ==
  ASSUME TlsfInv, NEW x \in blocks_given, NEW b \in HeldBlocks, NEW q, NEW z, NEW W, NEW whole \in Nat, NEW l2,
         Joined(BlockEndsIn(block), FreeIn(block), HeldBlocks, MarkedIn(block), BeforesIn(block), b, q, z, W),
         FreesInto(x, b, q, z, W, whole, l2),
         ListsShow(l2, (FreeIn(block) \ W) \ {q}, ClassesIn(block))
  PROVE  TlsfInv'
  <1> DEFINE e == BlockEndsIn(block)
             F == FreeIn(block)
             P == MarkedIn(block)
             h == BeforesIn(block)
             k == ClassesIn(block)
             H == HeldBlocks
             Headers == [size : 0 .. TlsfSize, free : BOOLEAN, prev_free : BOOLEAN, prev_hdr : BlockAddresses]
  <1>1. block \in BlockMemories /\ Tagged(e, F, H, P, h) /\ Joined(e, F, H, P, h, b, q, z, W)
    BY DEF TlsfInv, BlocksTagged
  <1>2. /\ q \in F \cup H /\ q \notin W /\ z \in BlockAddresses /\ z \notin F /\ z \notin W /\ z # q
        /\ b \notin F /\ q < z /\ z <= Sentinel
    BY <1>1, JoinedFacts
  <1>3. /\ W \subseteq F \cup {b} /\ (q = b \/ q \in F)
    BY <1>1, TaggedFacts DEF Joined
  <1>4. /\ F \in SUBSET BlockAddresses /\ H \in SUBSET BlockAddresses /\ F \cap H = {}
        /\ q \in BlockAddresses /\ W \in SUBSET BlockAddresses /\ z = q + 4 + whole
    BY <1>1, <1>2, <1>3 DEF Tagged, FreesInto
  <1>5. whole \in 0 .. TlsfSize
    BY <1>2, <1>4, TheEnds, TlsfSizes, WordAddresses
  <1>8. /\ block' = [a \in BlockAddresses |-> block'[a]]
        /\ \A a \in BlockAddresses :
             /\ a = q => block'[a] = [block[a] EXCEPT !.size = whole, !.free = TRUE]
             /\ a \in W => block'[a] = NoHeader
             /\ a = z => block'[a] = [block[a] EXCEPT !.prev_free = TRUE, !.prev_hdr = q]
             /\ a # q /\ a \notin W /\ a # z => block'[a] = block[a]
    <2>1. block' = [a \in BlockAddresses |->
            CASE a = q -> [block[a] EXCEPT !.size = whole, !.free = TRUE]
              [] a \in W -> NoHeader
              [] a = After(q, whole) -> [block[a] EXCEPT !.prev_free = TRUE, !.prev_hdr = q]
              [] OTHER -> block[a]]
      BY DEF FreesInto
    <2>2. ASSUME NEW a \in BlockAddresses
          PROVE  /\ a = q => block'[a] = [block[a] EXCEPT !.size = whole, !.free = TRUE]
                 /\ a \in W => block'[a] = NoHeader
                 /\ a = z => block'[a] = [block[a] EXCEPT !.prev_free = TRUE, !.prev_hdr = q]
                 /\ a # q /\ a \notin W /\ a # z => block'[a] = block[a]
      <3> DEFINE r1 == [block[a] EXCEPT !.size = whole, !.free = TRUE]
                 r2 == [block[a] EXCEPT !.prev_free = TRUE, !.prev_hdr = q]
      <3>1. block'[a] = CASE a = q -> r1 [] a \in W -> NoHeader [] a = After(q, whole) -> r2 [] OTHER -> block[a]
        BY <2>1
      <3> HIDE DEF r1, r2
      <3>2. /\ a = q => block'[a] = r1
            /\ a \in W => block'[a] = NoHeader
            /\ a = z => block'[a] = r2
            /\ a # q /\ a \notin W /\ a # z => block'[a] = block[a]
        BY <1>2, <1>4, <3>1 DEF After, BHDR_OVERHEAD
      <3> QED BY <3>2 DEF r1, r2
    <2> QED BY <2>1, <2>2
  <1>9. \A a \in BlockAddresses : block[a] \in Headers /\ 0 \in BlockAddresses
    BY <1>1, WordAddresses DEF BlockMemories
  <1>10. \A a \in BlockAddresses :
           /\ block'[a] \in Headers
           /\ a = q => block'[a].size = whole
           /\ a # q /\ a \notin W => block'[a].size = block[a].size
           /\ block'[a].free = IF a = q THEN TRUE ELSE IF a \in W THEN FALSE ELSE block[a].free
           /\ block'[a].prev_free = IF a = z THEN TRUE ELSE IF a \in W THEN FALSE ELSE block[a].prev_free
           /\ a = z => block'[a].prev_hdr = q
           /\ a # z /\ a \notin W => block'[a].prev_hdr = block[a].prev_hdr
    <2> TAKE a \in BlockAddresses
    <2> DEFINE r == block[a]
    <2>1. r \in Headers /\ 0 \in BlockAddresses
      BY <1>9
    <2>2. /\ a = q => block'[a] = [r EXCEPT !.size = whole, !.free = TRUE]
          /\ a \in W => block'[a] = NoHeader
          /\ a = z => block'[a] = [r EXCEPT !.prev_free = TRUE, !.prev_hdr = q]
          /\ a # q /\ a \notin W /\ a # z => block'[a] = r
      BY <1>8
    <2> HIDE DEF r
    <2>3. CASE a = q
      <3>1. block'[a] = [r EXCEPT !.size = whole, !.free = TRUE] /\ a # z /\ a \notin W
        BY <1>2, <2>2, <2>3
      <3>2. /\ block'[a] \in Headers /\ block'[a].size = whole /\ block'[a].free = TRUE
            /\ block'[a].prev_free = r.prev_free /\ block'[a].prev_hdr = r.prev_hdr
        BY <1>5, <2>1, <3>1
      <3> QED BY <2>3, <3>1, <3>2 DEF r
    <2>4. CASE a \in W
      <3>1. block'[a] = [size |-> 0, free |-> FALSE, prev_free |-> FALSE, prev_hdr |-> 0] /\ a # z /\ a # q
        BY <1>2, <2>2, <2>4 DEF NoHeader
      <3>2. 0 \in 0 .. TlsfSize
        BY TlsfSizes
      <3> QED BY <2>1, <2>4, <3>1, <3>2
    <2>5. CASE a = z
      <3>1. block'[a] = [r EXCEPT !.prev_free = TRUE, !.prev_hdr = q] /\ a # q /\ a \notin W
        BY <1>2, <2>2, <2>5
      <3>2. /\ block'[a] \in Headers /\ block'[a].size = r.size /\ block'[a].free = r.free
            /\ block'[a].prev_free = TRUE /\ block'[a].prev_hdr = q
        BY <1>4, <2>1, <3>1
      <3> QED BY <2>5, <3>1, <3>2 DEF r
    <2>6. CASE a # q /\ a \notin W /\ a # z
      <3>1. block'[a] = r
        BY <2>2, <2>6
      <3> QED BY <2>1, <2>6, <3>1 DEF r
    <2> QED BY <2>3, <2>4, <2>5, <2>6
  <1>11. block' \in BlockMemories
    BY <1>8, <1>10 DEF BlockMemories
  <1> HIDE DEF Headers
  <1> DEFINE f == BlockEndsIn(block')
             G == FreeIn(block')
             Q == MarkedIn(block')
             g == BeforesIn(block')
             j == ClassesIn(block')
  <1>12. /\ f \in [BlockAddresses -> Nat]
         /\ \A a \in BlockAddresses :
              /\ f[a] = a + 4 + block'[a].size /\ g[a] = block'[a].prev_hdr /\ j[a] = ClassOf(block'[a].size)
              /\ a \in G <=> block'[a].free
              /\ a \in Q <=> block'[a].prev_free
         /\ G \in SUBSET BlockAddresses /\ Q \in SUBSET BlockAddresses
         /\ j[q] \in FLs \X SLs
    BY <1>4, <1>11, BlockMemoryFacts
  <1>13. /\ \A a \in BlockAddresses :
              /\ e[a] = a + 4 + block[a].size /\ h[a] = block[a].prev_hdr /\ k[a] = ClassOf(block[a].size)
              /\ a \in F <=> block[a].free
              /\ a \in P <=> block[a].prev_free
         /\ P \in SUBSET BlockAddresses
    BY <1>1, BlockMemoryFacts
  <1>14. ListsShow(l2, (F \ W) \ {q}, k)
    OBVIOUS
  <1> HIDE DEF e, F, P, h, k, H, f, G, Q, g, j
  <1>15. G = (F \ W) \cup {q}
    <2>1. ASSUME NEW a \in BlockAddresses PROVE a \in G <=> (a = q \/ (a \notin W /\ a \in F))
      <3>1. block'[a].free = IF a = q THEN TRUE ELSE IF a \in W THEN FALSE ELSE block[a].free
        BY <1>10
      <3> QED BY <1>12, <1>13, <3>1
    <2> QED BY <1>4, <1>12, <2>1
  <1>16. FreesBlock(e, F, H, P, h, b, q, z, W, f, G, H \ {b}, Q, g)
    <2>1. f[q] = z
      <3>1. block'[q].size = whole
        BY <1>4, <1>10
      <3> QED BY <1>4, <1>12, <3>1
    <2>2. ASSUME NEW a \in BlockAddresses \ (W \cup {q}) PROVE f[a] = e[a]
      <3>1. block'[a].size = block[a].size
        BY <1>10, <2>2
      <3> QED BY <1>12, <1>13, <3>1
    <2>3. Q = (P \ W) \cup {z}
      <3>1. ASSUME NEW a \in BlockAddresses PROVE a \in Q <=> (a = z \/ (a \notin W /\ a \in P))
        <4>1. block'[a].prev_free = IF a = z THEN TRUE ELSE IF a \in W THEN FALSE ELSE block[a].prev_free
          BY <1>10
        <4> QED BY <1>12, <1>13, <4>1
      <3> QED BY <1>2, <1>12, <1>13, <3>1
    <2>4. g[z] = q
      <3>1. block'[z].prev_hdr = q
        BY <1>2, <1>10
      <3> QED BY <1>2, <1>12, <3>1
    <2>5. ASSUME NEW a \in BlockAddresses \ (W \cup {z}) PROVE g[a] = h[a]
      <3>1. block'[a].prev_hdr = block[a].prev_hdr
        BY <1>10, <2>5
      <3> QED BY <1>12, <1>13, <3>1
    <2> QED BY <1>1, <1>12, <1>15, <2>1, <2>2, <2>3, <2>4, <2>5 DEF FreesBlock
  <1>17. Tagged(f, G, H \ {b}, Q, g)
    BY <1>1, <1>16, FreeTagged
  <1>18. BlocksGivenOK' /\ H' = H \ {b}
    <2>1. b = x.at - BHDR_OVERHEAD /\ blocks_given' = blocks_given \ {x}
      BY DEF FreesInto
    <2>2. ASSUME NEW a \in H \ {b} PROVE block'[a].size = block[a].size
      <3>1. a \in BlockAddresses /\ a # q /\ a \notin W
        BY <1>3, <1>4, <2>2
      <3> QED BY <1>10, <3>1
    <2> QED BY <2>1, <2>2, OneBlockBack DEF H
  <1>19. ListsShow(Lists', G, j)
    <2> DEFINE l == InsertBlock(l2, q, ClassOf(whole))
               S == (F \ W) \ {q}
    <2>1. ASSUME NEW a \in S PROVE j[a] = k[a]
      <3>1. a \in BlockAddresses /\ a \notin W /\ a # q
        BY <1>4
      <3>2. block'[a].size = block[a].size
        BY <1>10, <3>1
      <3> QED BY <1>12, <1>13, <3>1, <3>2
    <2>2. j[q] = ClassOf(whole)
      <3>1. block'[q].size = whole
        BY <1>4, <1>10
      <3> QED BY <1>4, <1>12, <3>1
    <2>3. G = S \cup {q} /\ q \notin S /\ S \in SUBSET BlockAddresses
      BY <1>4, <1>15
    <2>4. ListsShow(l2, S, k)
      BY <1>14
    <2> HIDE DEF S
    <2>5. ListsShow(l2, S, j)
      BY <2>1, <2>4, OtherClasses
    <2>6. ListsShow(l, G, j)
      BY <1>4, <1>12, <2>2, <2>3, <2>5, InsertShows
    <2>7. Lists' = [matrix |-> l.matrix, sl |-> l.sl, fl |-> l.fl]
      BY DEF FreesInto, NewLists, Lists
    <2> HIDE DEF l
    <2>8. Lists'.matrix = l.matrix /\ Lists'.sl = l.sl /\ Lists'.fl = l.fl
      BY <2>7
    <2> QED BY <2>6, <2>8 DEF ListsShow
  <1> QED BY <1>11, <1>17, <1>18, <1>19 DEF TlsfInv, BlocksTagged, f, G, Q, g, j, H

LEMMA FreeExStep ==
  ASSUME TlsfInv, NEW x \in blocks_given, FreeEx(x)
  PROVE  TlsfInv' /\ blocks_given' = blocks_given \ {x}
  <1> DEFINE e == BlockEndsIn(block)
             F == FreeIn(block)
             P == MarkedIn(block)
             h == BeforesIn(block)
             k == ClassesIn(block)
             H == HeldBlocks
             b == x.at - BHDR_OVERHEAD
             next_b == NextBlock(b)
             with_next == block[next_b].free
             l1 == IF with_next THEN ExtractBlock(Lists, next_b, ClassOf(block[next_b].size)) ELSE Lists
             size == block[b].size + (IF with_next THEN block[next_b].size + BHDR_OVERHEAD ELSE 0)
             prev == block[b].prev_hdr
             with_prev == block[b].prev_free
             l2 == IF with_prev THEN ExtractBlock(l1, prev, ClassOf(block[prev].size)) ELSE l1
             q == IF with_prev THEN prev ELSE b
             whole == size + (IF with_prev THEN block[prev].size + BHDR_OVERHEAD ELSE 0)
             W == (IF with_next THEN {next_b} ELSE {}) \cup (IF with_prev THEN {b} ELSE {})
             z == IF with_next THEN e[next_b] ELSE next_b
  <1>1. block \in BlockMemories /\ Tagged(e, F, H, P, h) /\ ListsShow(Lists, F, k)
    BY DEF TlsfInv, BlocksTagged
  <1>2. b \in H
    BY DEF HeldBlocks
  <1>3. /\ block' = [a \in BlockAddresses |->
             CASE a = q -> [block[a] EXCEPT !.size = whole, !.free = TRUE]
               [] a \in W -> NoHeader
               [] a = After(q, whole) -> [block[a] EXCEPT !.prev_free = TRUE, !.prev_hdr = q]
               [] OTHER -> block[a]]
        /\ NewLists(InsertBlock(l2, q, ClassOf(whole)))
        /\ blocks_given' = blocks_given \ {x}
    BY DEF FreeEx
  <1>4. /\ b \in BlockAddresses /\ b \in Nat /\ next_b = e[b] /\ next_b \in BlockAddresses /\ next_b \in Nat
        /\ next_b = b + 4 + block[b].size /\ block[b].size \in Nat
    <2>1. b \in BlockAddresses /\ e[b] \in BlockAddresses
      BY <1>1, <1>2, TaggedFacts
    <2>2. next_b = b + 4 + block[b].size
      BY DEF NextBlock, After, BHDR_OVERHEAD
    <2> HIDE DEF b, next_b
    <2>3. e[b] = b + 4 + block[b].size /\ block[b].size \in Nat
      BY <1>1, <2>1, BlockMemoryFacts
    <2> QED BY <2>1, <2>2, <2>3, WordAddresses
  <1>5. with_next <=> next_b \in F
    <2> HIDE DEF next_b
    <2> QED BY <1>1, <1>4, BlockMemoryFacts
  <1>6. (with_prev <=> b \in P) /\ prev = h[b] /\ prev \in BlockAddresses
    <2> HIDE DEF b
    <2> QED BY <1>1, <1>4, BlockMemoryFacts
  <1>7. Joined(e, F, H, P, h, b, q, z, W)
    <2> HIDE DEF e, F, H, P, h, b, next_b, with_next, with_prev, prev
    <2> QED BY <1>2, <1>4, <1>5, <1>6 DEF Joined
  <1>8. /\ with_next => e[next_b] = next_b + 4 + block[next_b].size /\ block[next_b].size \in Nat
                        /\ k[next_b] = ClassOf(block[next_b].size) /\ k[next_b] \in FLs \X SLs
        /\ with_prev => /\ e[prev] = prev + 4 + block[prev].size /\ block[prev].size \in Nat /\ prev \in Nat
                        /\ k[prev] = ClassOf(block[prev].size) /\ k[prev] \in FLs \X SLs
                        /\ prev \in F /\ e[prev] = b /\ prev # next_b
    <2>1. with_prev => prev \in F /\ e[prev] = b /\ prev # next_b
      <3> HIDE DEF e, F, H, P, h, b, next_b, with_next, with_prev, prev, z, W
      <3> QED BY <1>1, <1>4, <1>6, <1>7, JoinedFacts
    <2> HIDE DEF b, next_b, with_next, with_prev, prev, F
    <2>2. e[next_b] = next_b + 4 + block[next_b].size /\ block[next_b].size \in Nat
          /\ k[next_b] = ClassOf(block[next_b].size) /\ k[next_b] \in FLs \X SLs
      BY <1>1, <1>4, BlockMemoryFacts
    <2>3. e[prev] = prev + 4 + block[prev].size /\ block[prev].size \in Nat /\ prev \in Nat
          /\ k[prev] = ClassOf(block[prev].size) /\ k[prev] \in FLs \X SLs
      BY <1>1, <1>6, BlockMemoryFacts, WordAddresses
    <2> QED BY <2>1, <2>2, <2>3
  <1>9. whole \in Nat /\ z = q + 4 + whole
    <2> DEFINE s1 == block[b].size
               s2 == block[next_b].size
               s3 == block[prev].size
    <2>1. size = s1 + (IF with_next THEN s2 + 4 ELSE 0) /\ whole = size + (IF with_prev THEN s3 + 4 ELSE 0)
      BY DEF BHDR_OVERHEAD
    <2>2. /\ s1 \in Nat /\ next_b = b + 4 + s1 /\ b \in Nat
          /\ with_next => e[next_b] = next_b + 4 + s2 /\ s2 \in Nat
          /\ with_prev => s3 \in Nat /\ prev \in Nat /\ b = prev + 4 + s3
      BY <1>4, <1>8
    <2>3. z = (IF with_next THEN e[next_b] ELSE next_b) /\ q = IF with_prev THEN prev ELSE b
      OBVIOUS
    <2> HIDE DEF e, b, next_b, with_next, with_prev, prev, s1, s2, s3, size, whole, z, q
    <2>4. CASE with_prev
      <3>1. CASE with_next
        BY <2>1, <2>2, <2>3, <2>4, <3>1
      <3>2. CASE ~with_next
        BY <2>1, <2>2, <2>3, <2>4, <3>2
      <3> QED BY <3>1, <3>2
    <2>5. CASE ~with_prev
      <3>1. CASE with_next
        BY <2>1, <2>2, <2>3, <2>5, <3>1
      <3>2. CASE ~with_next
        BY <2>1, <2>2, <2>3, <2>5, <3>2
      <3> QED BY <3>1, <3>2
    <2> QED BY <2>4, <2>5
  <1>10. FreesInto(x, b, q, z, W, whole, l2)
    <2>2. b = x.at - BHDR_OVERHEAD
      OBVIOUS
    <2> HIDE DEF b, q, whole, z, W, l2
    <2> QED BY <1>3, <1>9, <2>2 DEF FreesInto
  <1>11. ListsShow(l2, (F \ W) \ {q}, k)
    <2> DEFINE N == IF with_next THEN {next_b} ELSE {}
               V == IF with_prev THEN {prev} ELSE {}
    <2>1. F \in SUBSET BlockAddresses /\ b \notin F
      BY <1>1, <1>2 DEF Tagged
    <2>2. ListsShow(l1, F \ N, k)
      <3> HIDE DEF F, k, next_b, with_next
      <3>1. CASE with_next
        <4>1. l1 = ExtractBlock(Lists, next_b, k[next_b]) /\ next_b \in F /\ k[next_b] \in FLs \X SLs
          BY <1>5, <1>8, <3>1
        <4>2. ListsShow(ExtractBlock(Lists, next_b, k[next_b]), F \ {next_b}, k)
          BY <1>1, <2>1, <4>1, ExtractShows
        <4> QED BY <3>1, <4>1, <4>2
      <3>2. CASE ~with_next
        BY <1>1, <3>2
      <3> QED BY <3>1, <3>2
    <2>3. F \ N \in SUBSET BlockAddresses
      BY <2>1
    <2>4. ListsShow(l2, (F \ N) \ V, k)
      <3> HIDE DEF l1, k, prev, with_prev
      <3>1. CASE with_prev
        <4>1. l2 = ExtractBlock(l1, prev, k[prev]) /\ k[prev] \in FLs \X SLs
          BY <1>8, <3>1
        <4>2. prev \in F \ N
          BY <1>8, <3>1
        <4> HIDE DEF F, N
        <4>3. ListsShow(ExtractBlock(l1, prev, k[prev]), (F \ N) \ {prev}, k)
          BY <2>2, <2>3, <4>1, <4>2, ExtractShows
        <4> QED BY <3>1, <4>1, <4>3
      <3>2. CASE ~with_prev
        BY <2>2, <3>2
      <3> QED BY <3>1, <3>2
    <2>5. (F \ N) \ V = (F \ W) \ {q}
      <3>1. W = N \cup (IF with_prev THEN {b} ELSE {}) /\ q = IF with_prev THEN prev ELSE b
        OBVIOUS
      <3> HIDE DEF F, N, b, prev, with_prev, W, q
      <3>2. CASE with_prev
        BY <2>1, <3>1, <3>2
      <3>3. CASE ~with_prev
        BY <2>1, <3>1, <3>3
      <3> QED BY <3>2, <3>3
    <2> QED BY <2>4, <2>5
  <1>12. TlsfInv'
    <2> HIDE DEF b, q, z, W, whole, l2
    <2> QED BY <1>2, <1>7, <1>9, <1>10, <1>11, FreeIntoStep
  <1>13. blocks_given' = blocks_given \ {x}
    BY <1>3
  <1> QED BY <1>12, <1>13

LEMMA TlsfInitInv == TlsfInit => TlsfInv
  <1> SUFFICES ASSUME TlsfInit PROVE TlsfInv
    OBVIOUS
  <1> DEFINE e == BlockEndsIn(block)
             F == FreeIn(block)
             P == MarkedIn(block)
             h == BeforesIn(block)
             k == ClassesIn(block)
             first == ClassOf(FirstSize)
             Headers == [size : 0 .. TlsfSize, free : BOOLEAN, prev_free : BOOLEAN, prev_hdr : BlockAddresses]
  <1>1. /\ FirstSize \in Nat /\ FirstSize > 0 /\ FirstSize < Limit /\ FirstSize <= TlsfSize
        /\ Sentinel = TlsfHdr + 4 + FirstSize /\ Sentinel \in Nat /\ TlsfHdr \in Nat /\ TlsfHdr < Sentinel
        /\ TlsfHdr \in BlockAddresses /\ Sentinel \in BlockAddresses /\ 0 \in BlockAddresses /\ TlsfHdr # Sentinel
    BY TheEnds, TlsfSizes, WordAddresses
  <1>2. /\ block = [a \in BlockAddresses |->
             CASE a = TlsfHdr -> [NoHeader EXCEPT !.size = FirstSize, !.free = TRUE]
               [] a = Sentinel -> [NoHeader EXCEPT !.prev_free = TRUE, !.prev_hdr = TlsfHdr]
               [] OTHER -> NoHeader]
        /\ matrix = [fl \in FLs |-> [sl \in SLs |-> IF <<fl, sl>> = first THEN <<TlsfHdr>> ELSE <<>>]]
        /\ sl_bitmap = [fl \in FLs |-> {sl \in SLs : <<fl, sl>> = first}]
        /\ fl_bitmap = {first[1]}
        /\ blocks_given = {}
    BY DEF TlsfInit
  <1>3. \A a \in BlockAddresses :
          /\ block[a] \in Headers
          /\ block[a].size = IF a = TlsfHdr THEN FirstSize ELSE 0
          /\ block[a].free <=> a = TlsfHdr
          /\ block[a].prev_free <=> a = Sentinel
          /\ a = Sentinel => block[a].prev_hdr = TlsfHdr
    <2> TAKE a \in BlockAddresses
    <2>1. block[a] = CASE a = TlsfHdr -> [NoHeader EXCEPT !.size = FirstSize, !.free = TRUE]
                       [] a = Sentinel -> [NoHeader EXCEPT !.prev_free = TRUE, !.prev_hdr = TlsfHdr]
                       [] OTHER -> NoHeader
      BY <1>2
    <2>2. 0 \in 0 .. TlsfSize /\ FirstSize \in 0 .. TlsfSize
      BY <1>1, TlsfSizes
    <2>3. CASE a = TlsfHdr
      <3>1. block[a] = [size |-> FirstSize, free |-> TRUE, prev_free |-> FALSE, prev_hdr |-> 0]
        BY <1>1, <2>1, <2>3 DEF NoHeader
      <3> QED BY <1>1, <2>2, <2>3, <3>1
    <2>4. CASE a = Sentinel
      <3>1. block[a] = [size |-> 0, free |-> FALSE, prev_free |-> TRUE, prev_hdr |-> TlsfHdr]
        BY <1>1, <2>1, <2>4 DEF NoHeader
      <3> QED BY <1>1, <2>2, <2>4, <3>1
    <2>5. CASE a # TlsfHdr /\ a # Sentinel
      <3>1. block[a] = [size |-> 0, free |-> FALSE, prev_free |-> FALSE, prev_hdr |-> 0]
        BY <2>1, <2>5 DEF NoHeader
      <3> QED BY <1>1, <2>2, <2>5, <3>1
    <2> QED BY <2>3, <2>4, <2>5
  <1>4. block \in BlockMemories
    BY <1>2, <1>3 DEF BlockMemories
  <1> HIDE DEF Headers
  <1>5. HeldBlocks = {}
    BY <1>2 DEF HeldBlocks
  <1>6. /\ e \in [BlockAddresses -> Nat]
        /\ \A a \in BlockAddresses :
              /\ e[a] = a + 4 + block[a].size /\ h[a] = block[a].prev_hdr /\ k[a] = ClassOf(block[a].size)
              /\ a \in F <=> block[a].free
              /\ a \in P <=> block[a].prev_free
        /\ F \in SUBSET BlockAddresses /\ P \in SUBSET BlockAddresses
        /\ k[TlsfHdr] \in FLs \X SLs
    BY <1>1, <1>4, BlockMemoryFacts
  <1> HIDE DEF e, F, P, h, k
  <1>7. F = {TlsfHdr} /\ P = {Sentinel}
    <2>1. \A a \in BlockAddresses : (a \in F <=> a = TlsfHdr) /\ (a \in P <=> a = Sentinel)
      BY <1>3, <1>6
    <2> QED BY <1>1, <1>6, <2>1
  <1>8. e[TlsfHdr] = Sentinel /\ h[Sentinel] = TlsfHdr /\ k[TlsfHdr] = first
    <2>1. block[TlsfHdr].size = FirstSize /\ block[Sentinel].prev_hdr = TlsfHdr
      BY <1>1, <1>3
    <2> QED BY <1>1, <1>6, <2>1
  <1>9. Tagged(e, F, {}, P, h)
    <2>1. Row({TlsfHdr}, e, TlsfHdr, Sentinel)
      BY <1>1, <1>6, <1>8 DEF Row
    <2> QED BY <1>1, <1>6, <1>7, <1>8, <2>1 DEF Tagged
  <1>10. ListsShow(Lists, F, k)
    <2>1. PICK f \in FLs, g \in SLs : first = <<f, g>>
      BY <1>6, <1>8
    <2>2. Lists.matrix = matrix /\ Lists.sl = sl_bitmap /\ Lists.fl = fl_bitmap
      BY DEF Lists
    <2>3. \A fl \in FLs, sl \in SLs : Members(F, k, fl, sl) = IF fl = f /\ sl = g THEN {TlsfHdr} ELSE {}
      BY <1>7, <1>8, <2>1 DEF Members
    <2>4. \A fl \in FLs, sl \in SLs : matrix[fl][sl] = IF fl = f /\ sl = g THEN <<TlsfHdr>> ELSE <<>>
      BY <1>2, <2>1
    <2>5. ListsOnce(<<TlsfHdr>>, {TlsfHdr}) /\ ListsOnce(<<>>, {})
      BY <1>1 DEF ListsOnce
    <2>6. \A fl \in FLs : sl_bitmap[fl] = IF fl = f THEN {g} ELSE {}
      BY <1>2, <2>1
    <2>7. fl_bitmap = {f}
      BY <1>2, <2>1
    <2>8. matrix \in [FLs -> [SLs -> Seq(BlockAddresses)]]
      <3>1. <<TlsfHdr>> \in Seq(BlockAddresses) /\ <<>> \in Seq(BlockAddresses)
        BY <1>1
      <3> QED BY <1>2, <3>1
    <2>9. sl_bitmap \in [FLs -> SUBSET SLs]
      BY <1>2
    <2>10. \A fl \in FLs, sl \in SLs : ListsOnce(matrix[fl][sl], Members(F, k, fl, sl))
      BY <2>3, <2>4, <2>5
    <2>11. \A fl \in FLs, sl \in SLs : sl \in sl_bitmap[fl] <=> matrix[fl][sl] # <<>>
      BY <2>4, <2>6
    <2>12. fl_bitmap \in SUBSET FLs /\ \A fl \in FLs : fl \in fl_bitmap <=> sl_bitmap[fl] # {}
      BY <2>6, <2>7
    <2> QED BY <2>2, <2>8, <2>9, <2>10, <2>11, <2>12 DEF ListsShow
  <1>11. BlocksGivenOK
    BY <1>2 DEF BlocksGivenOK
  <1> QED BY <1>4, <1>5, <1>9, <1>10, <1>11 DEF TlsfInv, BlocksTagged, e, F, P, h, k

LEMMA TlsfStands == ASSUME TlsfInv, UNCHANGED tlsfVars PROVE TlsfInv'
  BY DEF TlsfInv, tlsfVars, BlocksTagged, HeldBlocks, Lists, BlocksGivenOK

LEMMA TlsfAlways == TlsfSpec => []TlsfInv
  <1>1. ASSUME TlsfInv, [TlsfNext]_tlsfVars PROVE TlsfInv'
    <2>1. CASE \E n \in TlsfAsks : MallocEx(n)
      BY <1>1, <2>1, MallocStep DEF MallocKeepsInv
    <2>2. CASE \E n \in TlsfAsks : MallocExFails(n)
      BY <1>1, <2>2, TlsfStands DEF MallocExFails
    <2>3. CASE \E x \in blocks_given : FreeEx(x)
      BY <1>1, <2>3, FreeExStep
    <2>4. CASE UNCHANGED tlsfVars
      BY <1>1, <2>4, TlsfStands
    <2> QED BY <1>1, <2>1, <2>2, <2>3, <2>4 DEF TlsfNext
  <1> QED BY <1>1, TlsfInitInv, PTL DEF TlsfSpec

-----------------------------------------------------------------------------
(* Theorems about tlsf.c *)

\* The memory, the bitmaps and what was given have their types (tlsf.c:60-110).
THEOREM TlsfTyped == TlsfSpec => []TlsfTypeOK
  <1>1. TlsfInv => TlsfTypeOK
    BY DEF TlsfInv, BlocksGivenOK, BlockMemories, TlsfTypeOK, ListsShow, Lists
  <1> QED BY <1>1, TlsfAlways, PTL

\* The blocks are a row, and tags and prev_hdr tell of the neighbour (tlsf.c:282-348).
THEOREM BlocksAlwaysARow == TlsfSpec => []BlocksAreARow
  <1>1. TlsfInv => BlocksAreARow
    <2> SUFFICES ASSUME TlsfInv PROVE BlocksAreARow
      OBVIOUS
    <2> DEFINE e == BlockEndsIn(block)
               F == FreeIn(block)
               P == MarkedIn(block)
               h == BeforesIn(block)
               C == FreeBlocks \cup HeldBlocks
    <2>1. block \in BlockMemories /\ Tagged(e, F, HeldBlocks, P, h)
      BY DEF TlsfInv, BlocksTagged
    <2>2. FreeBlocks = F
      BY DEF FreeBlocks, FreeIn
    <2>3. \A a \in BlockAddresses :
            /\ e[a] = a + 4 + block[a].size /\ h[a] = block[a].prev_hdr
            /\ a \in F <=> block[a].free
            /\ a \in P <=> block[a].prev_free
            /\ block[a].free \in BOOLEAN /\ block[a].prev_free \in BOOLEAN
      BY <2>1, BlockMemoryFacts
    <2>4. /\ C \in SUBSET BlockAddresses /\ F \cap HeldBlocks = {}
          /\ \A c \in C : e[c] \in C \cup {Sentinel} /\ e[c] \in BlockAddresses
          /\ \A d \in C \cup {Sentinel} : d # TlsfHdr => \E c \in C : e[c] = d
          /\ TlsfHdr \in C
          /\ \A b \in C : e[b] \in P <=> b \in F
          /\ \A b \in F : h[e[b]] = b /\ e[b] \notin F
      <3> HIDE DEF e, F, P, h
      <3>1. C = F \cup HeldBlocks
        BY <2>2
      <3>2. /\ C \in SUBSET BlockAddresses
            /\ \A c \in C : e[c] \in C \cup {Sentinel} /\ e[c] \in BlockAddresses
            /\ \A d \in C \cup {Sentinel} : d # TlsfHdr => \E c \in C : e[c] = d
            /\ TlsfHdr \in C
        BY <2>1, <3>1, TaggedFacts
      <3>3. /\ F \cap HeldBlocks = {}
            /\ \A b \in C : e[b] \in P <=> b \in F
            /\ \A b \in F : h[e[b]] = b /\ e[b] \notin F
        BY <2>1, <3>1 DEF Tagged
      <3> QED BY <3>2, <3>3
    <2> HIDE DEF e, F, P, h
    <2>5. \A b \in C : NextBlock(b) = e[b]
      BY <2>3, <2>4 DEF NextBlock, After, BHDR_OVERHEAD
    <2>6. ASSUME NEW b \in C
          PROVE  /\ NextBlock(b) \in C \cup {Sentinel}
                 /\ block[NextBlock(b)].prev_free = block[b].free
                 /\ block[b].free => block[NextBlock(b)].prev_hdr = b /\ ~block[NextBlock(b)].free
                 /\ b # TlsfHdr => \E p \in C : NextBlock(p) = b
      <3> DEFINE n == NextBlock(b)
      <3>1. n = e[b] /\ n \in BlockAddresses /\ b \in BlockAddresses /\ n \in C \cup {Sentinel}
        BY <2>4, <2>5
      <3> HIDE DEF n
      <3>2. block[n].prev_free <=> block[b].free
        BY <2>3, <2>4, <3>1
      <3>3. block[b].free => block[n].prev_hdr = b /\ ~block[n].free
        BY <2>3, <2>4, <3>1
      <3>4. block[n].prev_free = block[b].free
        BY <2>3, <3>1, <3>2
      <3>5. b # TlsfHdr => \E p \in C : NextBlock(p) = b
        BY <2>4, <2>5
      <3> QED BY <3>1, <3>3, <3>4, <3>5 DEF n
    <2> QED BY <2>2, <2>4, <2>6 DEF BlocksAreARow
  <1> QED BY <1>1, TlsfAlways, PTL

\* A list without repetitions has as many members as it is long.
LEMMA ListsOnceCounts ==
  ASSUME NEW q, NEW S, ListsOnce(q, S)
  PROVE  Cardinality(S) = Len(q)
  <1>1. /\ q \in Seq(BlockAddresses) /\ DOMAIN q = 1 .. Len(q) /\ Len(q) \in Nat
        /\ S = {q[i] : i \in 1 .. Len(q)}
        /\ \A i, j \in 1 .. Len(q) : q[i] = q[j] => i = j
    BY DEF ListsOnce
  <1>2. q \in Bijection(1 .. Len(q), S)
    <2>1. q \in [1 .. Len(q) -> S]
      BY <1>1
    <2>2. q \in Injection(1 .. Len(q), S)
      BY <1>1, <2>1 DEF Injection, IsInjective
    <2>3. q \in Surjection(1 .. Len(q), S)
      BY <1>1, <2>1 DEF Surjection
    <2> QED BY <2>2, <2>3 DEF Bijection
  <1>3. ExistsBijection(1 .. Len(q), S)
    BY <1>2 DEF ExistsBijection
  <1> QED BY <1>1, <1>3, FS_CountingElements

\* The search finds what there is: every free block is listed once, in its class, and the
\* bitmaps tell which lists have members (tlsf.c:156-212).
THEOREM BitmapsAlwaysShow == TlsfSpec => []BitmapsShowTheLists
  <1>1. TlsfInv => BitmapsShowTheLists
    <2> SUFFICES ASSUME TlsfInv PROVE BitmapsShowTheLists
      OBVIOUS
    <2> DEFINE F == FreeIn(block)
               k == ClassesIn(block)
    <2>1. block \in BlockMemories /\ ListsShow(Lists, F, k)
      BY DEF TlsfInv
    <2>2. FreeBlocks = F
      BY DEF FreeBlocks, FreeIn
    <2>3. /\ \A a \in BlockAddresses : k[a] = ClassOf(block[a].size) /\ k[a] \in FLs \X SLs /\ (a \in F <=> block[a].free)
          /\ F \in SUBSET BlockAddresses
      BY <2>1, BlockMemoryFacts
    <2> HIDE DEF F, k
    <2>4. /\ \A fl \in FLs, sl \in SLs :
               /\ ListsOnce(matrix[fl][sl], Members(F, k, fl, sl))
               /\ sl \in sl_bitmap[fl] <=> matrix[fl][sl] # <<>>
          /\ \A fl \in FLs : fl \in fl_bitmap <=> sl_bitmap[fl] # {}
      BY <2>1 DEF ListsShow, Lists
    <2>5. ASSUME NEW fl \in FLs, NEW sl \in SLs
          PROVE  Listed(<<fl, sl>>) = Members(F, k, fl, sl) /\ Cardinality(Listed(<<fl, sl>>)) = Len(matrix[fl][sl])
      <3>1. ListsOnce(matrix[fl][sl], Members(F, k, fl, sl))
        BY <2>4
      <3>2. Listed(<<fl, sl>>) = {matrix[fl][sl][i] : i \in DOMAIN matrix[fl][sl]}
        BY DEF Listed
      <3>3. Listed(<<fl, sl>>) = Members(F, k, fl, sl)
        BY <3>1, <3>2 DEF ListsOnce
      <3>4. Cardinality(Members(F, k, fl, sl)) = Len(matrix[fl][sl])
        BY <3>1, ListsOnceCounts
      <3> QED BY <3>3, <3>4
    <2>7. ASSUME NEW b \in FreeBlocks PROVE b \in Listed(ClassOf(block[b].size))
      <3>1. b \in F /\ b \in BlockAddresses /\ k[b] = ClassOf(block[b].size)
        BY <2>2, <2>3, <2>7
      <3>2. PICK fl \in FLs, sl \in SLs : k[b] = <<fl, sl>>
        BY <2>3, <3>1
      <3>3. b \in Members(F, k, fl, sl)
        BY <3>1, <3>2 DEF Members
      <3> QED BY <2>5, <3>1, <3>2, <3>3
    <2>8. ASSUME NEW fl \in FLs, NEW sl \in SLs, NEW b \in Listed(<<fl, sl>>)
          PROVE  block[b].free /\ ClassOf(block[b].size) = <<fl, sl>>
      <3>1. b \in F /\ k[b] = <<fl, sl>>
        BY <2>5, <2>8 DEF Members
      <3> QED BY <2>3, <3>1
    <2> QED BY <2>4, <2>5, <2>7, <2>8 DEF BitmapsShowTheLists
  <1> QED BY <1>1, TlsfAlways, PTL

\* Blocks that belong to somebody do not overlap and lie between header and sentinel.
BlocksLieApart ==
  /\ \A x \in blocks_given :
       /\ x.at - 4 \in HeldBlocks /\ x.at \in Nat /\ x.size \in Nat /\ TlsfHdr <= x.at - 4
       /\ x.at + x.size <= BlockEndsIn(block)[x.at - 4]
       /\ BlockEndsIn(block)[x.at - 4] \in Nat /\ BlockEndsIn(block)[x.at - 4] <= Sentinel
  /\ \A x, y \in blocks_given :
       x.at < y.at => BlockEndsIn(block)[x.at - 4] <= y.at - 4
LEMMA BlocksApart == TlsfInv => BlocksLieApart
  <1> SUFFICES ASSUME TlsfInv PROVE BlocksLieApart
    OBVIOUS
  <1> DEFINE e == BlockEndsIn(block)
             C == FreeIn(block) \cup HeldBlocks
  <1>1. block \in BlockMemories /\ BlocksGivenOK
        /\ Tagged(e, FreeIn(block), HeldBlocks, MarkedIn(block), BeforesIn(block))
    BY DEF TlsfInv, BlocksTagged
  <1>2. /\ \A c \in C : c \in Nat /\ e[c] \in Nat /\ TlsfHdr <= c /\ c < e[c] /\ e[c] <= Sentinel
        /\ \A c, d \in C : c < d => e[c] <= d
    BY <1>1, TaggedFacts
  <1>3. \A a \in BlockAddresses : e[a] = a + 4 + block[a].size /\ block[a].size \in Nat
    BY <1>1, BlockMemoryFacts
  <1>4. TlsfAsks \in SUBSET Nat /\ BlockAddresses \in SUBSET Nat
    BY TlsfAssumption, WordAddresses
  <1> HIDE DEF e
  <1>5. ASSUME NEW x \in blocks_given
        PROVE  /\ x.at - 4 \in HeldBlocks /\ x.at - 4 \in C /\ x.at \in Nat /\ x.size \in Nat
               /\ x.at + x.size <= e[x.at - 4]
    <2>1. x.at - 4 \in HeldBlocks /\ x.at - 4 \in BlockAddresses /\ x.at \in Nat /\ x.size \in Nat
          /\ x.size <= block[x.at - 4].size
      BY <1>1, <1>4 DEF BlocksGivenOK, HeldBlocks, BHDR_OVERHEAD
    <2>2. e[x.at - 4] = x.at - 4 + 4 + block[x.at - 4].size /\ block[x.at - 4].size \in Nat
      BY <1>3, <2>1
    <2> QED BY <2>1, <2>2
  <1>6. ASSUME NEW x \in blocks_given, NEW y \in blocks_given, x.at < y.at
        PROVE  e[x.at - 4] <= y.at - 4
    <2>1. x.at - 4 \in C /\ y.at - 4 \in C /\ x.at - 4 < y.at - 4
      BY <1>5, <1>6
    <2> QED BY <1>2, <2>1
  <1> QED BY <1>2, <1>5, <1>6 DEF e, BlocksLieApart

\* Who asks gets memory of the pool that nobody else has, and a block goes only when it is
\* given back (tlsf.c:215-348).
THEOREM TlsfImplementsHeap == TlsfSpec => TlsfIsAHeap
  <1>1. TlsfInit => TlsfHeap!HeapInit
    BY DEF TlsfInit, TlsfHeap!HeapInit
  <1>3. TlsfInv' => BlocksLieApart'
    BY BlocksApart, PTL
  <1>2. TlsfInv /\ [TlsfNext]_tlsfVars => [TlsfHeap!HeapNext]_blocks_given
    <2> SUFFICES ASSUME TlsfInv, [TlsfNext]_tlsfVars PROVE [TlsfHeap!HeapNext]_blocks_given
      OBVIOUS
    <2>1. ASSUME NEW n \in TlsfAsks, MallocEx(n) PROVE TlsfHeap!GiveBlock
      <3>1. MallocKeepsInv(n)
        BY <2>1, MallocStep
      <3>2. PICK b \in FreeIn(block) :
              /\ b \notin HeldBlocks
              /\ blocks_given' = blocks_given \cup {[at |-> b + BHDR_OVERHEAD, size |-> n]}
        BY <3>1 DEF MallocKeepsInv
      <3> DEFINE new == [at |-> b + BHDR_OVERHEAD, size |-> n]
                 e == BlockEndsIn(block')
                 Data(x) == x.at .. x.at + x.size - 1
      <3>3. TlsfInv'
        BY <3>1 DEF MallocKeepsInv
      <3>4. /\ \A x \in blocks_given' :
                 /\ x.at - 4 \in HeldBlocks' /\ x.at \in Nat /\ x.size \in Nat /\ TlsfHdr <= x.at - 4
                 /\ x.at + x.size <= e[x.at - 4]
                 /\ e[x.at - 4] \in Nat /\ e[x.at - 4] <= Sentinel
            /\ \A x, y \in blocks_given' : x.at < y.at => e[x.at - 4] <= y.at - 4
        BY <1>3, <3>3 DEF BlocksLieApart
      <3>5. b \in Nat /\ new.at = b + 4 /\ new.at - 4 = b /\ new.size = n
        BY WordAddresses DEF FreeIn, BHDR_OVERHEAD
      <3> HIDE DEF e, new
      <3>6. new \in blocks_given' /\ blocks_given \subseteq blocks_given' /\ blocks_given' = blocks_given \cup {new}
        BY <3>2 DEF new
      <3>7. \A x \in blocks_given : x.at # new.at
        <4>1. \A x \in blocks_given : x.at - 4 \in HeldBlocks
          BY DEF HeldBlocks, BHDR_OVERHEAD
        <4> QED BY <3>2, <3>5, <4>1
      <3>8. new \notin blocks_given
        BY <3>7
      <3>9. TlsfHdr \in Nat /\ Sentinel \in Nat
        BY TheEnds
      <3>10. Data(new) \subseteq TlsfHdr + BHDR_OVERHEAD .. Sentinel - 1
        <4>1. new.at \in Nat /\ new.size \in Nat /\ TlsfHdr + 4 <= new.at /\ new.at + new.size <= Sentinel
          BY <3>4, <3>6, <3>9
        <4> QED BY <3>9, <4>1 DEF BHDR_OVERHEAD
      <3>11. ASSUME NEW x \in blocks_given PROVE Data(x) \cap Data(new) = {}
        <4>1. /\ x \in blocks_given' /\ x.at \in Nat /\ x.size \in Nat /\ new.at \in Nat /\ new.size \in Nat
              /\ e[x.at - 4] \in Nat /\ e[new.at - 4] \in Nat
              /\ x.at + x.size <= e[x.at - 4] /\ new.at + new.size <= e[new.at - 4]
          BY <3>4, <3>6
        <4>2. CASE x.at < new.at
          <5>1. e[x.at - 4] <= new.at - 4
            BY <3>4, <3>6, <4>1, <4>2
          <5>2. x.at + x.size - 1 < new.at
            BY <4>1, <5>1
          <5> QED BY <4>1, <5>2, RangesApart
        <4>3. CASE new.at < x.at
          <5>1. e[new.at - 4] <= x.at - 4
            BY <3>4, <3>6, <4>1, <4>3
          <5>2. new.at + new.size - 1 < x.at
            BY <4>1, <5>1
          <5> QED BY <4>1, <5>2, RangesApart
        <4> QED BY <3>7, <4>1, <4>2, <4>3
      <3> QED BY <3>6, <3>8, <3>10, <3>11 DEF TlsfHeap!GiveBlock, TlsfHeap!Bytes
    <2>2. ASSUME NEW n \in TlsfAsks, MallocExFails(n) PROVE UNCHANGED blocks_given
      BY <2>2 DEF MallocExFails, tlsfVars
    <2>3. ASSUME NEW x \in blocks_given, FreeEx(x) PROVE TlsfHeap!TakeBack
      BY <2>3, FreeExStep DEF TlsfHeap!TakeBack
    <2>4. CASE UNCHANGED tlsfVars
      BY <2>4 DEF tlsfVars
    <2> QED BY <2>1, <2>2, <2>3, <2>4 DEF TlsfNext, TlsfHeap!HeapNext
  <1> QED BY <1>1, <1>2, TlsfAlways, PTL DEF TlsfSpec, TlsfIsAHeap, TlsfHeap!HeapSpec
=============================================================================
