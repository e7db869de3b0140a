-------------------------- MODULE PhotonIterations_proofs --------------------------
(***************************************************************************)
(* Proofs about PhotonIterations, for all grids, copy levels, sources and  *)
(* numbers of packets.                                                     *)
(*                                                                         *)
(* The tables of the copies are described by TablesOK: every original with *)
(* a level has its copies in one block, whose place is the sum of the      *)
(* numbers of copies before it.  From there on the loops that start at an  *)
(* offset are loops over a block (LoopFindsBlock), and the neighbour of a  *)
(* copy is in the block of the neighbour (CopyNeighbourIs).                *)
(*                                                                         *)
(* On that rest the freshness of the copies (FreshOK), the packets being   *)
(* in the cells of subgrids or around them (SourcesOK, PacketsOK), and the *)
(* counters of a subgrid and its copies adding up to what was crossed      *)
(* (CountsOK).                                                             *)
(*                                                                         *)
(* The last part proves that the packets walk through an undivided box     *)
(* (WalkImplemented).  A direction is a side for every axis (DirectionOf), *)
(* so that what a packet does at the boundary of a subgrid can be followed *)
(* axis by axis (NextOnAxis, LeaveCell); every action on a packet is first *)
(* turned into a relation between the packet before and after (CrossIs to  *)
(* ReemitIs), and that into a step of the walk (CrossWalks to              *)
(* RestartWalks).                                                          *)
(*                                                                         *)
(* Sums, powers and concatenations are recursive functions: a property of  *)
(* them is proved for the least number, or the least set, for which it     *)
(* would fail.                                                             *)
(***************************************************************************)
EXTENDS PhotonIterations, FiniteSetTheorems, WellFoundedInduction, TLAPS

-----------------------------------------------------------------------------
(* A nonempty set of natural numbers has a least element. *)
LEMMA LeastNumber ==
  ASSUME NEW B \in SUBSET Nat, B # {}
  PROVE  \E n \in B : \A m \in B : n <= m
<1>1. PICK n \in B : \A m \in B : ~ (<<m, n>> \in OpToRel(<, Nat))
  BY NatLessThanWellFounded, WFMin
<1>2. \A m \in B : <<m, n>> \in OpToRel(<, Nat) <=> m < n
  <2>1. \A m \in B : m \in Nat /\ n \in Nat
    OBVIOUS
  <2> QED
    BY <2>1, Zenon DEF OpToRel
<1>3. \A m \in B : ~ (m < n)
  BY <1>1, <1>2, Zenon
<1> QED
  BY <1>3

(* G is the concatenation of the first sequences, for each number of them. *)
Flattens(G, s, n) ==
  G = [i \in 1 .. n |-> IF i = 1 THEN s[1] ELSE G[i - 1] \o s[i]]

(* There is such a concatenation. *)
LEMMA FlattensExist ==
  ASSUME NEW s, NEW n \in Nat \ {0}
  PROVE  \E G : Flattens(G, s, n)
<1> DEFINE B == {m \in Nat \ {0} : ~ \E G : Flattens(G, s, m)}
<1> SUFFICES ASSUME B # {} PROVE FALSE
  OBVIOUS
<1>1. PICK m \in B : \A k \in B : m <= k
  <2>1. B \in SUBSET Nat
    OBVIOUS
  <2> HIDE DEF B
  <2> QED
    BY <2>1, LeastNumber
<1>2. m # 1
  <2>1. Flattens([i \in 1 .. 1 |-> s[1]], s, 1)
    BY DEF Flattens
  <2> QED
    BY <2>1, <1>1
<1>3. m - 1 \in Nat \ {0} /\ m - 1 \notin B
  BY <1>1, <1>2
<1>4. PICK G : Flattens(G, s, m - 1)
  BY <1>3
<1> DEFINE H == [i \in 1 .. m |-> IF i = m THEN G[m - 1] \o s[m] ELSE G[i]]
<1>5. Flattens(H, s, m)
  <2>1. ASSUME NEW i \in 1 .. m
        PROVE  H[i] = IF i = 1 THEN s[1] ELSE H[i - 1] \o s[i]
    <3>1. /\ m \in Nat \ {0, 1} /\ m - 1 \in Nat /\ m - 1 >= 1
          /\ \A h \in 1 .. m - 1 : G[h] = IF h = 1 THEN s[1] ELSE G[h - 1] \o s[h]
      <4>1. m \in Nat \ {0, 1}
        BY <1>1, <1>2
      <4>2. G = [h \in 1 .. m - 1 |-> IF h = 1 THEN s[1] ELSE G[h - 1] \o s[h]]
        BY <1>4 DEF Flattens
      <4> HIDE DEF B, H
      <4>3. \A h \in 1 .. m - 1 : G[h] = IF h = 1 THEN s[1] ELSE G[h - 1] \o s[h]
        BY <4>2
      <4> QED
        BY <4>1, <4>3
    <3>2. CASE i = m
      <4>0. m - 1 \in 1 .. m /\ m \in 1 .. m /\ m - 1 # m
        BY <3>1
      <4>1. H[m] = G[m - 1] \o s[m] /\ H[m - 1] = G[m - 1]
        BY <4>0
      <4> HIDE DEF H
      <4> QED
        BY <4>1, <3>1, <3>2
    <3>3. CASE i # m
      <4>1. i \in 1 .. m - 1 /\ (i # 1 => i - 1 \in 1 .. m /\ i - 1 # m)
        BY <3>1, <3>3
      <4>2. H[i] = G[i] /\ (i # 1 => H[i - 1] = G[i - 1])
        BY <4>1, <3>1, <3>3
      <4> QED
        BY <3>1, <4>1, <4>2
    <3> HIDE DEF H
    <3> QED
      BY <3>2, <3>3
  <2>2. DOMAIN H = 1 .. m /\ H = [i \in 1 .. m |-> H[i]]
    OBVIOUS
  <2> HIDE DEF H
  <2> QED
    BY <2>1, <2>2 DEF Flattens
<1> QED
  BY <1>1, <1>5

(* The elements of a concatenation. *)
Concatenates(c, a, b, E) ==
  /\ c \in Seq(E) /\ Len(c) = Len(a) + Len(b)
  /\ \A h \in 1 .. Len(a) : c[h] = a[h]
  /\ \A h \in 1 .. Len(b) : c[Len(a) + h] = b[h]

(* Two sequences one after the other. *)
LEMMA Concat ==
  ASSUME NEW E, NEW a \in Seq(E), NEW b \in Seq(E)
  PROVE  Concatenates(a \o b, a, b, E)
  BY DEF Concatenates

-----------------------------------------------------------------------------
(* The positions of subgrids. *)
Positions(g) == {p \in [Axis -> Int] : \A a \in Axis : p[a] \in 0 .. g.n[a] - 1}

(* What a grid is. *)
LEMMA GridType ==
  ASSUME NEW g, IsGrid(g)
  PROVE  /\ g.n[1] \in Nat \ {0} /\ g.n[2] \in Nat \ {0} /\ g.n[3] \in Nat \ {0}
         /\ g.cells[1] \in Nat \ {0} /\ g.cells[2] \in Nat \ {0} /\ g.cells[3] \in Nat \ {0}
  BY DEF IsGrid, Axis

(* Division with remainder. *)
LEMMA Division ==
  ASSUME NEW q \in Nat, NEW m \in Nat \ {0}, NEW r \in 0 .. m - 1
  PROVE  (q * m + r) \div m = q /\ (q * m + r) % m = r
  OBVIOUS

(* A number is so many rows and a rest. *)
LEMMA DivisionBack ==
  ASSUME NEW i \in Nat, NEW m \in Nat \ {0}
  PROVE  i \div m \in Nat /\ i % m \in 0 .. m - 1 /\ i = (i \div m) * m + (i % m)
  OBVIOUS

(* A number below a product is a number of rows and a rest. *)
LEMMA BelowProduct ==
  ASSUME NEW n \in Nat, NEW m \in Nat \ {0}, NEW q \in Nat, NEW r \in 0 .. m - 1
  PROVE  q < n <=> q * m + r < n * m
<1>1. ASSUME q < n PROVE q * m + r < n * m
  <2>1. n * m = q * m + m + (n - 1 - q) * m /\ (n - 1 - q) * m >= 0
    BY <1>1
  <2> QED
    BY <2>1
<1>2. ASSUME ~ (q < n) PROVE ~ (q * m + r < n * m)
  <2>1. q * m = n * m + (q - n) * m /\ (q - n) * m >= 0
    BY <1>2
  <2> QED
    BY <2>1
<1> QED
  BY <1>1, <1>2

(* Products of numbers of subgrids. *)
LEMMA Products ==
  ASSUME NEW g, IsGrid(g)
  PROVE  /\ g.n[2] * g.n[3] \in Nat \ {0}
         /\ g.n[1] * g.n[2] * g.n[3] = g.n[1] * (g.n[2] * g.n[3])
         /\ g.n[1] * g.n[2] * g.n[3] \in Nat \ {0}
  BY GridType

(* The index of a position is that of a subgrid, which is there. *)
LEMMA IndexPosition ==
  ASSUME NEW g, IsGrid(g), NEW p \in Positions(g)
  PROVE  GridIndex(g, p) \in Original(g) /\ GridPosition(g, GridIndex(g, p)) = p
<1> DEFINE m == g.n[2] * g.n[3]
           r == p[2] * g.n[3] + p[3]
<1>1. /\ p[1] \in 0 .. g.n[1] - 1 /\ p[2] \in 0 .. g.n[2] - 1 /\ p[3] \in 0 .. g.n[3] - 1
      /\ p = <<p[1], p[2], p[3]>>
  BY DEF Positions, Axis
<1>2. m \in Nat \ {0} /\ g.n[1] * g.n[2] * g.n[3] = g.n[1] * m
  BY Products
<1>3. r \in 0 .. m - 1
  <2>1. r \in Nat
    BY <1>1, GridType
  <2>2. r < m
    <3>1. /\ p[2] \in Nat /\ p[2] < g.n[2] /\ g.n[2] \in Nat /\ g.n[3] \in Nat \ {0}
          /\ p[3] \in 0 .. g.n[3] - 1
      BY <1>1, GridType
    <3> QED
      BY <3>1, BelowProduct
  <2> QED
    BY <2>1, <2>2, <1>2
<1>4. GridIndex(g, p) = p[1] * m + r
  <2>1. p[1] * g.n[2] * g.n[3] = p[1] * (g.n[2] * g.n[3])
    BY <1>1, GridType
  <2>2. p[1] * (g.n[2] * g.n[3]) \in Nat /\ p[2] * g.n[3] \in Nat
    BY <1>1, GridType
  <2> QED
    BY <1>1, <2>1, <2>2 DEF GridIndex
<1>5. r \div g.n[3] = p[2] /\ r % g.n[3] = p[3]
  BY <1>1, GridType, Division
<1>6. GridIndex(g, p) \div g.n[3] = p[1] * g.n[2] + p[2] /\ GridIndex(g, p) % g.n[3] = p[3]
  <2> DEFINE q == p[1] * g.n[2] + p[2]
  <2>1. q \in Nat
    BY <1>1, GridType
  <2>2. GridIndex(g, p) = q * g.n[3] + p[3]
    BY <1>1, GridType DEF GridIndex
  <2>3. g.n[3] \in Nat \ {0} /\ p[3] \in 0 .. g.n[3] - 1
    BY <1>1, GridType
  <2> HIDE DEF q
  <2>4. (q * g.n[3] + p[3]) \div g.n[3] = q /\ (q * g.n[3] + p[3]) % g.n[3] = p[3]
    BY <2>1, <2>3, Division
  <2> QED
    BY <2>2, <2>4 DEF q
<1>7. (p[1] * g.n[2] + p[2]) % g.n[2] = p[2]
  BY <1>1, GridType, Division
<1> HIDE DEF m, r
<1>8. GridIndex(g, p) \div m = p[1]
  BY <1>1, <1>2, <1>3, <1>4, Division
<1>9. GridIndex(g, p) \in Nat /\ GridIndex(g, p) < g.n[1] * m
  <2>1. p[1] \in Nat /\ g.n[1] \in Nat /\ p[1] < g.n[1] /\ p[1] * m \in Nat
    BY <1>1, <1>2, GridType
  <2> QED
    BY <2>1, <1>2, <1>3, <1>4, BelowProduct
<1>10. GridIndex(g, p) \in Original(g)
  <2>1. g.n[1] * m \in Nat
    BY <1>2, GridType
  <2> QED
    BY <2>1, <1>2, <1>9 DEF Original
<1> QED
  BY <1>1, <1>6, <1>7, <1>8, <1>10 DEF GridPosition, m

(* A subgrid has a position, with its index. *)
LEMMA PositionIndex ==
  ASSUME NEW g, IsGrid(g), NEW i \in Original(g)
  PROVE  GridPosition(g, i) \in Positions(g) /\ GridIndex(g, GridPosition(g, i)) = i
<1> DEFINE m == g.n[2] * g.n[3]
           q == i \div g.n[3]
<1>1. i \in Nat /\ i < g.n[1] * m
  BY Products DEF Original
<1>2. m \in Nat \ {0}
  BY Products
<1>3. q \in Nat /\ i % g.n[3] \in 0 .. g.n[3] - 1 /\ i = q * g.n[3] + (i % g.n[3])
  BY <1>1, GridType, DivisionBack
<1>4. q \div g.n[2] \in Nat /\ q % g.n[2] \in 0 .. g.n[2] - 1 /\ q = (q \div g.n[2]) * g.n[2] + (q % g.n[2])
  <2> HIDE DEF q
  <2> QED
    BY <1>3, GridType, DivisionBack
<1> HIDE DEF q, m
<1> DEFINE r == (q % g.n[2]) * g.n[3] + (i % g.n[3])
           d == q \div g.n[2]
           e == q % g.n[2]
           f == i % g.n[3]
<1>5. r \in 0 .. m - 1
  <2>1. r \in Nat
    <3>1. e \in Nat /\ f \in Nat /\ g.n[3] \in Nat
      BY <1>3, <1>4, GridType
    <3> HIDE DEF e, f
    <3>2. e * g.n[3] + f \in Nat
      BY <3>1
    <3> QED
      BY <3>2 DEF e, f
  <2>2. r < m
    <3>1. /\ g.n[2] \in Nat /\ g.n[3] \in Nat \ {0} /\ e \in Nat /\ f \in 0 .. g.n[3] - 1
          /\ e < g.n[2]
      BY <1>3, <1>4, GridType
    <3>2. e * g.n[3] + f < g.n[2] * g.n[3]
      <4> HIDE DEF e, f
      <4> QED
        BY <3>1, BelowProduct
    <3> QED
      BY <3>2 DEF m
  <2> QED
    BY <2>1, <2>2, <1>2
<1>6. i = d * m + r
  <2>1. d \in Nat /\ e \in Nat /\ f \in Nat /\ q = d * g.n[2] + e /\ i = q * g.n[3] + f /\ r = e * g.n[3] + f
    BY <1>3, <1>4
  <2> HIDE DEF d, e, f, r
  <2> QED
    BY <2>1, GridType DEF m
<1>7. i \div m = d /\ d \in Nat /\ d < g.n[1]
  <2>1. d \in Nat
    BY <1>4
  <2> HIDE DEF d, r
  <2>2. d < g.n[1]
    BY <2>1, <1>1, <1>2, <1>5, <1>6, GridType, BelowProduct
  <2> QED
    BY <2>1, <2>2, <1>1, <1>2, <1>5, <1>6, Division
<1>8. GridPosition(g, i) = <<d, e, f>>
  BY <1>7 DEF GridPosition, m, q
<1>9. GridPosition(g, i) \in Positions(g)
  <2>1. d \in 0 .. g.n[1] - 1 /\ e \in 0 .. g.n[2] - 1 /\ f \in 0 .. g.n[3] - 1
    BY <1>3, <1>4, <1>7, GridType
  <2> HIDE DEF d, e, f, r
  <2>2. <<d, e, f>> \in [Axis -> Int]
    BY <2>1, GridType DEF Axis
  <2> QED
    BY <2>1, <2>2, <1>8 DEF Positions, Axis
<1>10. GridIndex(g, <<d, e, f>>) = i
  <2>1. d \in Nat /\ e \in Nat /\ f \in Nat /\ q = d * g.n[2] + e /\ i = q * g.n[3] + f
    BY <1>3, <1>4
  <2> HIDE DEF d, e, f, r
  <2> QED
    BY <2>1, GridType DEF GridIndex
<1> QED
  BY <1>8, <1>9, <1>10

-----------------------------------------------------------------------------
(* G adds up the numbers f before each place.                              *)
Sums(G, f, n) == G = [i \in 0 .. n |-> IF i = 0 THEN 0 ELSE G[i - 1] + f[i]]

(* There are such sums. *)
LEMMA SumsExist ==
  ASSUME NEW f, NEW n \in Nat
  PROVE  \E G : Sums(G, f, n)
<1> DEFINE B == {m \in Nat : ~ \E G : Sums(G, f, m)}
<1> SUFFICES ASSUME B # {} PROVE FALSE
  OBVIOUS
<1>1. PICK m \in B : \A k \in B : m <= k
  <2>1. B \in SUBSET Nat
    OBVIOUS
  <2> HIDE DEF B
  <2> QED
    BY <2>1, LeastNumber
<1>2. m # 0
  <2>1. Sums([i \in 0 .. 0 |-> 0], f, 0)
    BY DEF Sums
  <2> QED
    BY <2>1, <1>1
<1>3. m \in Nat \ {0} /\ m - 1 \in Nat /\ m - 1 \notin B
  BY <1>1, <1>2
<1>4. PICK G : Sums(G, f, m - 1)
  BY <1>3
<1> DEFINE H == [i \in 0 .. m |-> IF i = m THEN G[m - 1] + f[m] ELSE G[i]]
<1>5. \A i \in 0 .. m - 1 : G[i] = IF i = 0 THEN 0 ELSE G[i - 1] + f[i]
  BY <1>4 DEF Sums
<1>6. \A i \in 0 .. m : H[i] = IF i = 0 THEN 0 ELSE H[i - 1] + f[i]
  <2> TAKE i \in 0 .. m
  <2>1. CASE i = m
    BY <1>3, <2>1
  <2>2. CASE i # m
    <3>1. i \in 0 .. m - 1 /\ (i # 0 => i - 1 \in 0 .. m - 1 /\ i - 1 # m)
      BY <1>3, <2>2
    <3> QED
      BY <1>3, <1>5, <2>2, <3>1
  <2> QED
    BY <2>1, <2>2
<1>7. H = [i \in 0 .. m |-> IF i = 0 THEN 0 ELSE H[i - 1] + f[i]]
  <2>1. H = [i \in 0 .. m |-> H[i]]
    OBVIOUS
  <2> HIDE DEF H
  <2> QED
    BY <1>6, <2>1
<1>8. Sums(H, f, m)
  BY <1>7 DEF Sums
<1> QED
  BY <1>1, <1>8

(* b holds where blocks of f[1], f[2], ... elements begin.                 *)
Begins(b, f, n) ==
  /\ b \in [0 .. n -> Nat] /\ b[0] = 0
  /\ \A i \in 1 .. n : b[i] = b[i - 1] + f[i]

(* The sums of natural numbers are the places where blocks begin.          *)
LEMMA SumsBegin ==
  ASSUME NEW n \in Nat, NEW f \in [1 .. n -> Nat], NEW G, Sums(G, f, n)
  PROVE  Begins(G, f, n)
<1>1. \A i \in 0 .. n : G[i] = IF i = 0 THEN 0 ELSE G[i - 1] + f[i]
  BY DEF Sums
<1>2. \A i \in 1 .. n : i \in 0 .. n /\ i # 0
  OBVIOUS
<1>3. G[0] = 0 /\ \A i \in 1 .. n : G[i] = G[i - 1] + f[i]
  BY <1>1, <1>2
<1> DEFINE B == {i \in 0 .. n : G[i] \notin Nat}
<1>4. B = {}
  <2> SUFFICES ASSUME B # {} PROVE FALSE
    OBVIOUS
  <2>1. PICK m \in B : \A k \in B : m <= k
    <3>1. B \in SUBSET Nat
      OBVIOUS
    <3> HIDE DEF B
    <3> QED
      BY <3>1, LeastNumber
  <2>2. m \in 1 .. n /\ m - 1 \in 0 .. n /\ m - 1 < m
    BY <1>3, <2>1
  <2>3. m - 1 \notin B
    <3> HIDE DEF B
    <3> QED
      BY <2>1, <2>2
  <2>4. G[m - 1] \in Nat /\ f[m] \in Nat /\ G[m] = G[m - 1] + f[m]
    BY <1>3, <2>2, <2>3
  <2> QED
    BY <2>1, <2>4
<1>5. G \in [0 .. n -> Nat]
  <2>1. G = [i \in 0 .. n |-> IF i = 0 THEN 0 ELSE G[i - 1] + f[i]]
    BY DEF Sums
  <2>2. DOMAIN G = 0 .. n /\ G = [i \in 0 .. n |-> G[i]]
    BY <2>1
  <2>3. \A i \in 0 .. n : G[i] \in Nat
    BY <1>4
  <2> QED
    BY <2>2, <2>3
<1> QED
  BY <1>3, <1>5 DEF Begins

(* A later block begins later. *)
LEMMA BeginsOrdered ==
  ASSUME NEW n \in Nat, NEW f \in [1 .. n -> Nat], NEW b, Begins(b, f, n),
         NEW i \in 0 .. n, NEW j \in i .. n
  PROVE  b[i] <= b[j]
<1> DEFINE B == {k \in i .. n : ~ (b[i] <= b[k])}
<1>0. b \in [0 .. n -> Nat] /\ \A k \in 1 .. n : b[k] = b[k - 1] + f[k]
  BY DEF Begins
<1>1. B = {}
  <2> SUFFICES ASSUME B # {} PROVE FALSE
    OBVIOUS
  <2>1. PICK m \in B : \A k \in B : m <= k
    <3>1. B \in SUBSET Nat
      OBVIOUS
    <3> HIDE DEF B
    <3> QED
      BY <3>1, LeastNumber
  <2>2. m \in i .. n /\ m # i /\ ~ (b[i] <= b[m])
    BY <1>0, <2>1
  <2>3. m \in 1 .. n /\ m - 1 \in i .. n /\ m - 1 \in 0 .. n /\ m - 1 < m
    BY <2>2
  <2>4. b[i] <= b[m - 1]
    <3>1. m - 1 \notin B
      <4> HIDE DEF B
      <4> QED
        BY <2>1, <2>3
    <3> QED
      BY <2>3, <3>1
  <2>5. b[m] = b[m - 1] + f[m] /\ f[m] \in Nat /\ b[m - 1] \in Nat /\ b[i] \in Nat
    BY <1>0, <2>3
  <2> QED
    BY <2>2, <2>4, <2>5
<1> QED
  BY <1>1

(* The elements of sequences, one after the other. *)
Blocks(c, s, n, b, E) ==
  /\ c \in Seq(E) /\ Len(c) = b[n]
  /\ \A i \in 1 .. n : \A j \in 1 .. Len(s[i]) : c[b[i - 1] + j] = s[i][j]

(* Flattening keeps every element, in its place. *)
LEMMA FlattenBlocks ==
  ASSUME NEW E, NEW n \in Nat, NEW s \in [1 .. n -> Seq(E)], NEW b,
         Begins(b, [i \in 1 .. n |-> Len(s[i])], n)
  PROVE  Blocks(FlattenSeq(s), s, n, b, E)
<1>0. s \in Seq(Seq(E)) /\ Len(s) = n
  OBVIOUS
<1>10. /\ b \in [0 .. n -> Nat] /\ b[0] = 0
       /\ \A i \in 1 .. n : b[i] = b[i - 1] + Len(s[i])
  BY DEF Begins
<1> DEFINE f == [i \in 1 .. n |-> Len(s[i])]
<1>13. f \in [1 .. n -> Nat] /\ Begins(b, f, n)
  BY <1>0
<1>14. \A i \in 0 .. n : \A j \in i .. n : b[i] <= b[j]
  <2> HIDE DEF f
  <2> QED
    BY <1>13, BeginsOrdered
<1> HIDE DEF f
<1>11. CASE n = 0
  <2>1. s = <<>>
    BY <1>0, <1>11
  <2>2. FlattenSeq(s) = <<>>
    BY <1>0, <1>11, <2>1 DEF FlattenSeq
  <2>3. FlattenSeq(s) \in Seq(E) /\ Len(FlattenSeq(s)) = 0
    BY <2>2
  <2> QED
    BY <1>10, <1>11, <2>3 DEF Blocks
<1>12. CASE n # 0
  <2> DEFINE G == CHOOSE g : g = [i \in 1 .. n |-> IF i = 1 THEN s[i] ELSE g[i - 1] \o s[i]]
  <2>1. FlattenSeq(s) = G[n]
    BY <1>0, <1>12 DEF FlattenSeq
  <2>2. Flattens(G, s, n)
    <3>0. n \in Nat \ {0}
      BY <1>12
    <3>1. PICK g : Flattens(g, s, n)
      BY <3>0, FlattensExist
    <3>2. g = [i \in 1 .. n |-> IF i = 1 THEN s[i] ELSE g[i - 1] \o s[i]]
      BY <3>1 DEF Flattens
    <3>3. G = [i \in 1 .. n |-> IF i = 1 THEN s[i] ELSE G[i - 1] \o s[i]]
      BY <3>2
    <3> HIDE DEF G
    <3> QED
      BY <3>3 DEF Flattens
  <2> HIDE DEF G
  <2> DEFINE OK(k) == /\ G[k] \in Seq(E) /\ Len(G[k]) = b[k]
                      /\ \A i \in 1 .. k : \A j \in 1 .. Len(s[i]) : G[k][b[i - 1] + j] = s[i][j]
             B == {k \in 1 .. n : ~ OK(k)}
  <2>3. B = {}
    <3> SUFFICES ASSUME B # {} PROVE FALSE
      OBVIOUS
    <3>1. PICK k \in B : \A h \in B : k <= h
      <4>1. B \in SUBSET Nat
        OBVIOUS
      <4> HIDE DEF B
      <4> QED
        BY <4>1, LeastNumber
    <3>0. k \in 1 .. n
      BY <3>1
    <3>2. k # 1
      <4>1. G[1] = s[1] /\ 1 \in 1 .. n
        BY <3>0, <2>2 DEF Flattens
      <4>2. b[1] = Len(s[1]) /\ s[1] \in Seq(E)
        BY <1>10, <4>1
      <4>4. ASSUME NEW j \in 1 .. Len(s[1]) PROVE G[1][b[1 - 1] + j] = s[1][j]
        <5>1. j \in Int
          BY <4>2
        <5>2. 1 - 1 = 0 /\ 0 + j = j
          BY <5>1
        <5>3. b[1 - 1] + j = j
          BY <1>10, <5>2, Zenon
        <5> QED
          BY <4>1, <5>3, Zenon
      <4>5. \A i \in 1 .. 1 : i = 1
        OBVIOUS
      <4>3. OK(1)
        BY <4>1, <4>2, <4>4, <4>5
      <4> HIDE DEF OK
      <4> QED
        BY <4>1, <4>3, <3>1
    <3>3. k - 1 \in 1 .. n /\ OK(k - 1)
      <4>1. k - 1 \in 1 .. n /\ k - 1 < k
        BY <3>0, <3>2
      <4>2. k - 1 \notin B
        <5> HIDE DEF B
        <5> QED
          BY <4>1, <3>0, <3>1
      <4> HIDE DEF OK
      <4> QED
        BY <4>1, <4>2
    <3>4. G[k] = G[k - 1] \o s[k]
      BY <2>2, <3>0, <3>2 DEF Flattens
    <3>7. /\ k \in 2 .. n /\ s[k] \in Seq(E) /\ b[k] = b[k - 1] + Len(s[k])
          /\ G[k - 1] \in Seq(E) /\ Len(G[k - 1]) = b[k - 1] /\ b[k - 1] \in Nat
          /\ \A i \in 1 .. k - 1 : \A j \in 1 .. Len(s[i]) : G[k - 1][b[i - 1] + j] = s[i][j]
      <4>1. k \in 2 .. n /\ s[k] \in Seq(E) /\ b[k] = b[k - 1] + Len(s[k]) /\ b[k - 1] \in Nat
        BY <1>10, <3>0, <3>2
      <4>2. /\ G[k - 1] \in Seq(E) /\ Len(G[k - 1]) = b[k - 1]
            /\ \A i \in 1 .. k - 1 : \A j \in 1 .. Len(s[i]) : G[k - 1][b[i - 1] + j] = s[i][j]
        BY <3>3
      <4> QED
        BY <4>1, <4>2
    <3> HIDE DEF B, OK
    <3>8. /\ G[k] \in Seq(E) /\ Len(G[k]) = Len(G[k - 1]) + Len(s[k])
          /\ \A h \in 1 .. Len(G[k - 1]) : G[k][h] = G[k - 1][h]
          /\ \A h \in 1 .. Len(s[k]) : G[k][Len(G[k - 1]) + h] = s[k][h]
      <4> DEFINE c == G[k - 1]
                 d == s[k]
      <4>2. c \in Seq(E) /\ d \in Seq(E) /\ G[k] = c \o d
        BY <3>7, <3>4
      <4> HIDE DEF c, d
      <4>3. Concatenates(G[k], c, d, E)
        BY <4>2, Concat
      <4> QED
        BY <4>3 DEF c, d, Concatenates
    <3>5. G[k] \in Seq(E) /\ Len(G[k]) = b[k]
      BY <3>7, <3>8
    <3>6. ASSUME NEW i \in 1 .. k, NEW j \in 1 .. Len(s[i]) PROVE G[k][b[i - 1] + j] = s[i][j]
      <4>1. CASE i = k
        <5>1. G[k][Len(G[k - 1]) + j] = s[k][j]
          BY <3>8, <4>1
        <5> QED
          BY <4>1, <5>1, <3>7
      <4>2. CASE i # k
        <5>1. i \in 1 .. k - 1 /\ i \in 0 .. n /\ i \in 1 .. n /\ k - 1 \in i .. n /\ i - 1 \in 0 .. n
          BY <4>2, <3>0
        <5>2. b[i] <= b[k - 1]
          BY <5>1, <1>14
        <5>3. b[i] = b[i - 1] + Len(s[i]) /\ b[i - 1] \in Nat /\ b[i] \in Nat /\ Len(s[i]) \in Nat
          BY <1>10, <5>1
        <5>4. b[i - 1] + j \in 1 .. Len(G[k - 1])
          BY <3>7, <5>2, <5>3
        <5>5. G[k][b[i - 1] + j] = G[k - 1][b[i - 1] + j]
          BY <5>4, <3>8
        <5>6. G[k - 1][b[i - 1] + j] = s[i][j]
          BY <5>1, <3>7
        <5> QED
          BY <5>5, <5>6
      <4> QED
        BY <4>1, <4>2
    <3> QED
      BY <3>1, <3>5, <3>6 DEF B, OK
  <2>4. OK(n)
    <3>1. n \in 1 .. n
      BY <1>12
    <3> QED
      BY <3>1, <2>3
  <2> QED
    BY <2>1, <2>4 DEF Blocks
<1> QED
  BY <1>11, <1>12

-----------------------------------------------------------------------------
(* G holds the powers of two up to the n-th. *)
Doubles(G, n) == G = [k \in 0 .. n |-> IF k = 0 THEN 1 ELSE 2 * G[k - 1]]

(* There are such functions. *)
LEMMA DoublesExist ==
  ASSUME NEW n \in Nat
  PROVE  \E G : Doubles(G, n)
<1> DEFINE B == {m \in Nat : ~ \E G : Doubles(G, m)}
<1> SUFFICES ASSUME B # {} PROVE FALSE
  OBVIOUS
<1>1. PICK m \in B : \A k \in B : m <= k
  <2>1. B \in SUBSET Nat
    OBVIOUS
  <2> HIDE DEF B
  <2> QED
    BY <2>1, LeastNumber
<1>2. m # 0
  <2>1. Doubles([k \in 0 .. 0 |-> 1], 0)
    BY DEF Doubles
  <2> QED
    BY <2>1, <1>1
<1>3. m \in Nat \ {0} /\ m - 1 \in Nat /\ m - 1 \notin B
  BY <1>1, <1>2
<1>4. PICK G : Doubles(G, m - 1)
  BY <1>3
<1> DEFINE H == [k \in 0 .. m |-> IF k = m THEN 2 * G[m - 1] ELSE G[k]]
<1>5. \A k \in 0 .. m - 1 : G[k] = IF k = 0 THEN 1 ELSE 2 * G[k - 1]
  BY <1>4 DEF Doubles
<1>6. \A k \in 0 .. m : H[k] = IF k = 0 THEN 1 ELSE 2 * H[k - 1]
  <2> TAKE k \in 0 .. m
  <2>1. CASE k = m
    BY <1>3, <2>1
  <2>2. CASE k # m
    <3>1. k \in 0 .. m - 1 /\ (k # 0 => k - 1 \in 0 .. m - 1 /\ k - 1 # m)
      BY <1>3, <2>2
    <3> QED
      BY <1>3, <1>5, <2>2, <3>1
  <2> QED
    BY <2>1, <2>2
<1>7. H = [k \in 0 .. m |-> IF k = 0 THEN 1 ELSE 2 * H[k - 1]]
  <2>1. H = [k \in 0 .. m |-> H[k]]
    OBVIOUS
  <2> HIDE DEF H
  <2> QED
    BY <1>6, <2>1
<1>8. Doubles(H, m)
  BY <1>7 DEF Doubles
<1> QED
  BY <1>1, <1>8

(* They agree where both are defined. *)
LEMMA DoublesAgree ==
  ASSUME NEW n \in Nat, NEW m \in Nat, NEW G, NEW H, Doubles(G, n), Doubles(H, m),
         NEW k \in 0 .. n, k <= m
  PROVE  G[k] = H[k]
<1> DEFINE B == {h \in 0 .. k : G[h] # H[h]}
<1>0. /\ \A h \in 0 .. n : G[h] = IF h = 0 THEN 1 ELSE 2 * G[h - 1]
      /\ \A h \in 0 .. m : H[h] = IF h = 0 THEN 1 ELSE 2 * H[h - 1]
  BY DEF Doubles
<1> SUFFICES ASSUME B # {} PROVE FALSE
  BY <1>0
<1>1. PICK h \in B : \A j \in B : h <= j
  <2>1. B \in SUBSET Nat
    OBVIOUS
  <2> HIDE DEF B
  <2> QED
    BY <2>1, LeastNumber
<1>2. h \in 0 .. n /\ h \in 0 .. m /\ h \in Nat
  BY <1>1
<1>3. h # 0
  BY <1>0, <1>1, <1>2
<1>4. h - 1 \in 0 .. k /\ h - 1 < h /\ h - 1 \in Nat
  BY <1>1, <1>2, <1>3
<1>5. h - 1 \notin B
  <2> HIDE DEF B
  <2> QED
    BY <1>1, <1>2, <1>4
<1>6. G[h - 1] = H[h - 1]
  BY <1>4, <1>5
<1>7. G[h] = 2 * G[h - 1] /\ H[h] = 2 * H[h - 1]
  BY <1>0, <1>2, <1>3
<1> QED
  BY <1>1, <1>6, <1>7

(* Every power is twice the one before it. *)
LEMMA Powers ==
  /\ Pow2[0] = 1
  /\ \A k \in Nat : Pow2[k + 1] = 2 * Pow2[k]
  /\ \A k \in Nat : Pow2[k] \in Nat \ {0}
<1> DEFINE F(n) == CHOOSE G : Doubles(G, n)
           H == [k \in Nat |-> F(k)[k]]
<1>1. \A n \in Nat : Doubles(F(n), n)
  BY DoublesExist, Zenon
<1> HIDE DEF F
<1>2. ASSUME NEW k \in Nat PROVE H[k] = IF k = 0 THEN 1 ELSE 2 * H[k - 1]
  <2>1. F(k)[k] = IF k = 0 THEN 1 ELSE 2 * F(k)[k - 1]
    <3>1. \A h \in 0 .. k : F(k)[h] = IF h = 0 THEN 1 ELSE 2 * F(k)[h - 1]
      BY <1>1 DEF Doubles
    <3> QED
      BY <3>1
  <2>2. k # 0 => k - 1 \in Nat /\ F(k)[k - 1] = F(k - 1)[k - 1]
    <3> SUFFICES ASSUME k # 0 PROVE k - 1 \in Nat /\ F(k)[k - 1] = F(k - 1)[k - 1]
      OBVIOUS
    <3>1. k - 1 \in Nat /\ k - 1 \in 0 .. k - 1 /\ k - 1 <= k
      OBVIOUS
    <3>2. Doubles(F(k), k) /\ Doubles(F(k - 1), k - 1)
      BY <1>1, <3>1
    <3> QED
      BY <3>1, <3>2, DoublesAgree
  <2> QED
    BY <2>1, <2>2
<1>3. H = [k \in Nat |-> IF k = 0 THEN 1 ELSE 2 * H[k - 1]]
  <2>1. H = [k \in Nat |-> H[k]]
    OBVIOUS
  <2> HIDE DEF H
  <2> QED
    BY <1>2, <2>1
<1>4. Pow2 = [k \in Nat |-> IF k = 0 THEN 1 ELSE 2 * Pow2[k - 1]]
  <2>1. \E G : G = [k \in Nat |-> IF k = 0 THEN 1 ELSE 2 * G[k - 1]]
    <3> HIDE DEF H
    <3> QED
      BY <1>3
  <2> QED
    BY <2>1, Zenon DEF Pow2
<1> HIDE DEF Pow2, H
<1>5. \A k \in Nat : Pow2[k] = IF k = 0 THEN 1 ELSE 2 * Pow2[k - 1]
  BY <1>4, Zenon
<1>6. Pow2[0] = 1
  BY <1>5
<1>7. ASSUME NEW k \in Nat PROVE Pow2[k + 1] = 2 * Pow2[k]
  <2>1. k + 1 \in Nat /\ k + 1 # 0 /\ k + 1 - 1 = k
    OBVIOUS
  <2> QED
    BY <1>5, <2>1
<1> DEFINE B == {k \in Nat : Pow2[k] \notin Nat \ {0}}
<1>8. B = {}
  <2> SUFFICES ASSUME B # {} PROVE FALSE
    OBVIOUS
  <2>1. PICK m \in B : \A k \in B : m <= k
    <3>1. B \in SUBSET Nat
      OBVIOUS
    <3> HIDE DEF B
    <3> QED
      BY <3>1, LeastNumber
  <2>2. m # 0
    BY <1>6, <2>1
  <2>3. m - 1 \in Nat /\ m - 1 + 1 = m /\ m - 1 < m
    BY <2>1, <2>2
  <2>4. m - 1 \notin B
    <3>1. m \in Nat
      BY <2>1
    <3> HIDE DEF B
    <3> QED
      BY <2>1, <2>3, <3>1
  <2>5. Pow2[m - 1] \in Nat \ {0} /\ Pow2[m] = 2 * Pow2[m - 1]
    BY <1>7, <2>3, <2>4
  <2> QED
    BY <2>1, <2>5
<1> QED
  BY <1>6, <1>7, <1>8

(* Adding exponents multiplies powers. *)
LEMMA PowersMultiply ==
  ASSUME NEW a \in Nat, NEW b \in Nat
  PROVE  Pow2[a + b] = Pow2[a] * Pow2[b]
<1> HIDE DEF Pow2
<1> DEFINE B == {c \in Nat : Pow2[a + c] # Pow2[a] * Pow2[c]}
<1> SUFFICES ASSUME B # {} PROVE FALSE
  OBVIOUS
<1>2. PICK m \in B : \A k \in B : m <= k
  <2>1. B \in SUBSET Nat
    OBVIOUS
  <2> HIDE DEF B
  <2> QED
    BY <2>1, LeastNumber
<1>3. Pow2[a] \in Nat
  BY Powers
<1>4. m # 0
  BY <1>2, <1>3, Powers
<1>5. /\ m \in Nat /\ m - 1 \in Nat /\ m - 1 + 1 = m /\ m - 1 < m
      /\ a + (m - 1) \in Nat /\ a + (m - 1) + 1 = a + m
  BY <1>2, <1>4
<1>6. m - 1 \notin B
  <2> HIDE DEF B
  <2> QED
    BY <1>2, <1>5
<1>7. Pow2[a + (m - 1)] = Pow2[a] * Pow2[m - 1]
  BY <1>5, <1>6
<1>8. Pow2[a + m] = 2 * Pow2[a + (m - 1)] /\ Pow2[m] = 2 * Pow2[m - 1]
  BY <1>5, Powers
<1>9. Pow2[m - 1] \in Nat
  BY <1>5, Powers
<1>10. 2 * (Pow2[a] * Pow2[m - 1]) = Pow2[a] * (2 * Pow2[m - 1])
  BY <1>3, <1>9
<1> QED
  BY <1>2, <1>7, <1>8, <1>10

-----------------------------------------------------------------------------
(* The levels of the copies. *)
Levels(g) == [Original(g) -> Nat]

(* The blocks of copies. *)
Block(g, lv) == [i \in 1 .. Count(g) |-> Copied(lv, i - 1)]

(* The number of copies of a subgrid. *)
LEMMA CopiedIs ==
  ASSUME NEW g, IsGrid(g), NEW lv \in Levels(g)
  PROVE  /\ Count(g) \in Nat \ {0} /\ Original(g) = 0 .. Count(g) - 1
         /\ \A i \in Original(g) :
              /\ Copied(lv, i) \in Nat /\ Copied(lv, i) = Pow2[lv[i]] - 1
              /\ Copied(lv, i) = 0 <=> lv[i] = 0
         /\ Block(g, lv) \in [1 .. Count(g) -> Nat]
<1> HIDE DEF Pow2
<1>1. Count(g) \in Nat \ {0} /\ Original(g) = 0 .. Count(g) - 1
  BY Products DEF Count, Original
<1>2. ASSUME NEW i \in Original(g)
      PROVE  /\ Copied(lv, i) \in Nat /\ Copied(lv, i) = Pow2[lv[i]] - 1
             /\ Copied(lv, i) = 0 <=> lv[i] = 0
  <2>1. lv[i] \in Nat /\ Pow2[lv[i]] \in Nat \ {0}
    BY Powers DEF Levels
  <2>2. lv[i] # 0 => Pow2[lv[i]] # 1
    <3> SUFFICES ASSUME lv[i] # 0 PROVE Pow2[lv[i]] # 1
      OBVIOUS
    <3>1. lv[i] - 1 \in Nat /\ lv[i] - 1 + 1 = lv[i]
      BY <2>1
    <3>2. Pow2[lv[i]] = 2 * Pow2[lv[i] - 1] /\ Pow2[lv[i] - 1] \in Nat \ {0}
      BY <3>1, Powers
    <3> QED
      BY <3>2
  <2>3. lv[i] = 0 => Pow2[lv[i]] = 1
    BY Powers
  <2> QED
    BY <2>1, <2>2, <2>3 DEF Copied
<1>3. Block(g, lv) \in [1 .. Count(g) -> Nat]
  <2>1. \A i \in 1 .. Count(g) : i - 1 \in Original(g)
    BY <1>1
  <2> QED
    BY <1>2, <2>1 DEF Block
<1> QED
  BY <1>1, <1>2, <1>3

(* The blocks begin after the copies of the subgrids before. *)
LEMMA BlocksBegin ==
  ASSUME NEW g, IsGrid(g), NEW lv \in Levels(g)
  PROVE  Begins(CopiedBefore(g, lv), Block(g, lv), Count(g))
<1>1. /\ Count(g) \in Nat /\ Block(g, lv) \in [1 .. Count(g) -> Nat]
  BY CopiedIs
<1> DEFINE n == Count(g)
           f == Block(g, lv)
<1>2. ASSUME NEW G
      PROVE  [i \in 0 .. n |-> IF i = 0 THEN 0 ELSE G[i - 1] + Copied(lv, i - 1)]
               = [i \in 0 .. n |-> IF i = 0 THEN 0 ELSE G[i - 1] + f[i]]
  <2>1. \A i \in 0 .. n : i # 0 => f[i] = Copied(lv, i - 1)
    BY <1>1 DEF Block
  <2> HIDE DEF f
  <2> QED
    BY <2>1
<1>3. PICK G : Sums(G, f, n)
  BY <1>1, SumsExist
<1>4. G = [i \in 0 .. n |-> IF i = 0 THEN 0 ELSE G[i - 1] + Copied(lv, i - 1)]
  BY <1>2, <1>3 DEF Sums
<1> DEFINE b == CopiedBefore(g, lv)
<1>5. b = [i \in 0 .. n |-> IF i = 0 THEN 0 ELSE b[i - 1] + Copied(lv, i - 1)]
  <2>1. \E h : h = [i \in 0 .. Count(g) |-> IF i = 0 THEN 0 ELSE h[i - 1] + Copied(lv, i - 1)]
    BY <1>4
  <2> QED
    BY <2>1, Zenon DEF CopiedBefore
<1> HIDE DEF b
<1>6. Sums(b, f, n)
  BY <1>2, <1>5 DEF Sums
<1> HIDE DEF f, n
<1>7. Begins(b, f, n)
  BY <1>1, <1>6, SumsBegin DEF n, f
<1> QED
  BY <1>7 DEF b, f, n

(* A place is in one of the blocks.                                        *)
InSomeBlock(n, f, b, p) == \E i \in 0 .. n - 1 : p - b[i] \in 1 .. f[i + 1]

(* Every place is in one of the blocks. *)
LEMMA InBlock ==
  ASSUME NEW n \in Nat, NEW f \in [1 .. n -> Nat], NEW b, Begins(b, f, n), NEW p \in 1 .. b[n]
  PROVE  InSomeBlock(n, f, b, p)
<1>0. /\ b \in [0 .. n -> Nat] /\ b[0] = 0
      /\ \A i \in 1 .. n : b[i] = b[i - 1] + f[i]
  BY DEF Begins
<1> DEFINE B == {i \in 0 .. n : p <= b[i]}
<1>1. PICK i \in B : \A j \in B : i <= j
  <2>1. B \in SUBSET Nat /\ n \in B
    BY <1>0
  <2> HIDE DEF B
  <2> QED
    BY <2>1, LeastNumber
<1>2. i \in 1 .. n /\ i - 1 \in 0 .. n /\ i - 1 < i
  BY <1>0, <1>1
<1>3. i - 1 \notin B
  <2> HIDE DEF B
  <2> QED
    BY <1>1, <1>2
<1>4. /\ ~ (p <= b[i - 1]) /\ p <= b[i] /\ b[i] = b[i - 1] + f[i]
      /\ b[i - 1] \in Nat /\ f[i] \in Nat /\ b[i] \in Nat /\ p \in Nat
  BY <1>0, <1>1, <1>2, <1>3
<1>5. p - b[i - 1] \in 1 .. f[i]
  BY <1>4
<1>6. i - 1 \in 0 .. n - 1 /\ i - 1 + 1 = i
  BY <1>2
<1>7. p - b[i - 1] \in 1 .. f[i - 1 + 1]
  BY <1>5, <1>6
<1> QED
  BY <1>6, <1>7 DEF InSomeBlock

(* The list of originals: the copies of each subgrid are in one block.     *)
LEMMA OriginalsAre ==
  ASSUME NEW g, IsGrid(g), NEW lv \in Levels(g)
  PROVE  /\ OriginalsOf(g, lv) \in Seq(Original(g))
         /\ Len(OriginalsOf(g, lv)) = CopiedBefore(g, lv)[Count(g)]
         /\ \A i \in Original(g) : \A j \in 1 .. Copied(lv, i) :
              OriginalsOf(g, lv)[CopiedBefore(g, lv)[i] + j] = i
<1> DEFINE n == Count(g)
           b == CopiedBefore(g, lv)
           s == [j \in 1 .. n |-> [k \in 1 .. Copied(lv, j - 1) |-> j - 1]]
<1>1. /\ n \in Nat /\ Original(g) = 0 .. n - 1 /\ Block(g, lv) \in [1 .. n -> Nat]
      /\ \A i \in Original(g) : Copied(lv, i) \in Nat
  BY CopiedIs
<1>2. OriginalsOf(g, lv) = FlattenSeq(s)
  BY DEF OriginalsOf
<1>3. \A j \in 1 .. n : j - 1 \in Original(g)
  BY <1>1
<1>4. \A j \in 1 .. n : s[j] \in Seq(Original(g)) /\ Len(s[j]) = Copied(lv, j - 1)
  <2> TAKE j \in 1 .. n
  <2>1. s[j] = [k \in 1 .. Copied(lv, j - 1) |-> j - 1]
    OBVIOUS
  <2>2. Copied(lv, j - 1) \in Nat /\ j - 1 \in Original(g)
    BY <1>1, <1>3
  <2> HIDE DEF s
  <2> QED
    BY <2>1, <2>2
<1>5. s \in [1 .. n -> Seq(Original(g))]
  <2>1. s = [j \in 1 .. n |-> s[j]]
    OBVIOUS
  <2> HIDE DEF s
  <2> QED
    BY <1>4, <2>1
<1>6. [j \in 1 .. n |-> Len(s[j])] = Block(g, lv)
  <2> HIDE DEF s
  <2> QED
    BY <1>4 DEF Block
<1>7. Begins(b, Block(g, lv), n)
  BY BlocksBegin
<1>13. \A i \in Original(g) :
         /\ Len(s[i + 1]) = Copied(lv, i)
         /\ \A j \in 1 .. Copied(lv, i) : s[i + 1][j] = i
  <2> TAKE i \in Original(g)
  <2>1. i + 1 \in 1 .. n /\ i + 1 - 1 = i /\ Copied(lv, i) \in Nat
    BY <1>1
  <2>2. \A j \in 1 .. n : s[j] = [k \in 1 .. Copied(lv, j - 1) |-> j - 1]
    OBVIOUS
  <2> HIDE DEF s
  <2>3. s[i + 1] = [k \in 1 .. Copied(lv, i) |-> i]
    <3> DEFINE j == i + 1
    <3>1. j \in 1 .. n /\ j - 1 = i
      BY <1>1
    <3> HIDE DEF j
    <3>2. s[j] = [k \in 1 .. Copied(lv, j - 1) |-> j - 1]
      BY <2>2, <3>1
    <3>3. s[j] = [k \in 1 .. Copied(lv, i) |-> i]
      BY <3>1, <3>2
    <3> QED
      BY <3>3 DEF j
  <2> QED
    BY <2>1, <2>3
<1> HIDE DEF s, b, n
<1>8. Blocks(FlattenSeq(s), s, n, b, Original(g))
  BY <1>1, <1>5, <1>6, <1>7, FlattenBlocks
<1>9. /\ FlattenSeq(s) \in Seq(Original(g)) /\ Len(FlattenSeq(s)) = b[n]
      /\ \A i \in 1 .. n : \A j \in 1 .. Len(s[i]) : FlattenSeq(s)[b[i - 1] + j] = s[i][j]
  BY <1>8 DEF Blocks
<1>10. ASSUME NEW i \in Original(g), NEW j \in 1 .. Copied(lv, i)
       PROVE  FlattenSeq(s)[b[i] + j] = i
  <2>1. i + 1 \in 1 .. n /\ i + 1 - 1 = i
    BY <1>1
  <2>2. Len(s[i + 1]) = Copied(lv, i)
    BY <1>13
  <2>3. FlattenSeq(s)[b[i] + j] = s[i + 1][j]
    <3> DEFINE h == i + 1
    <3>0. Len(s[h]) = Copied(lv, i)
      BY <2>2, Zenon
    <3>1. h \in 1 .. n /\ h - 1 = i
      BY <1>1
    <3> HIDE DEF h
    <3>2. FlattenSeq(s)[b[h - 1] + j] = s[h][j]
      BY <1>9, <3>0, <3>1
    <3> QED
      BY <3>1, <3>2 DEF h
  <2> QED
    BY <1>13, <2>3
<1> QED
  BY <1>2, <1>9, <1>10 DEF b, n

(* The copies of a subgrid are where its block is, and nowhere else.       *)
LEMMA CopiesInBlock ==
  ASSUME NEW g, IsGrid(g), NEW lv \in Levels(g), NEW i \in Original(g)
  PROVE  /\ CopiedBefore(g, lv)[i] \in Nat
         /\ CopiedBefore(g, lv)[i] + Copied(lv, i) <= Len(OriginalsOf(g, lv))
         /\ \A p \in 1 .. Len(OriginalsOf(g, lv)) :
              OriginalsOf(g, lv)[p] = i <=>
                p - CopiedBefore(g, lv)[i] \in 1 .. Copied(lv, i)
<1> DEFINE n == Count(g)
           b == CopiedBefore(g, lv)
           f == Block(g, lv)
           o == OriginalsOf(g, lv)
<1>1. /\ n \in Nat /\ Original(g) = 0 .. n - 1 /\ f \in [1 .. n -> Nat]
      /\ \A h \in Original(g) : Copied(lv, h) \in Nat
      /\ \A h \in 1 .. n : f[h] = Copied(lv, h - 1)
  BY CopiedIs DEF Block
<1>2. Begins(b, f, n)
  BY BlocksBegin
<1>3. Len(o) = b[n] /\ \A h \in Original(g) : \A j \in 1 .. Copied(lv, h) : o[b[h] + j] = h
  BY OriginalsAre
<1> HIDE DEF n, b, f, o
<1>4. /\ b \in [0 .. n -> Nat] /\ b[0] = 0 /\ \A h \in 1 .. n : b[h] = b[h - 1] + f[h]
  BY <1>2 DEF Begins
<1>5. i \in 0 .. n /\ i + 1 \in 1 .. n /\ i + 1 \in 0 .. n /\ n \in i + 1 .. n /\ i + 1 - 1 = i
  BY <1>1
<1>6. b[i + 1] = b[i] + Copied(lv, i)
  BY <1>1, <1>4, <1>5
<1>7. b[i + 1] <= b[n]
  BY <1>1, <1>2, <1>5, BeginsOrdered
<1>8. ASSUME NEW p \in 1 .. Len(o) PROVE o[p] = i <=> p - b[i] \in 1 .. Copied(lv, i)
  <2>1. p - b[i] \in 1 .. Copied(lv, i) => o[p] = i
    <3> SUFFICES ASSUME p - b[i] \in 1 .. Copied(lv, i) PROVE o[p] = i
      OBVIOUS
    <3>1. b[i] + (p - b[i]) = p
      BY <1>4, <1>5
    <3> QED
      BY <1>3, <3>1
  <2>2. InSomeBlock(n, f, b, p)
    <3>1. p \in 1 .. b[n]
      BY <1>3
    <3> QED
      BY <3>1, <1>1, <1>2, InBlock
  <2>3. PICK h \in 0 .. n - 1 : p - b[h] \in 1 .. f[h + 1]
    BY <2>2 DEF InSomeBlock
  <2>4. h \in Original(g) /\ h + 1 \in 1 .. n /\ h + 1 - 1 = h
    BY <1>1
  <2>5. f[h + 1] = Copied(lv, h)
    BY <1>1, <2>4
  <2>6. p - b[h] \in 1 .. Copied(lv, h) /\ b[h] + (p - b[h]) = p
    <3>1. b[h] \in Nat
      BY <1>1, <1>4, <2>4
    <3>2. p \in Nat
      OBVIOUS
    <3> QED
      BY <2>3, <2>5, <3>1, <3>2
  <2>7. o[p] = h
    BY <1>3, <2>4, <2>6
  <2> QED
    BY <2>1, <2>6, <2>7
<1> QED
  BY <1>3, <1>4, <1>5, <1>6, <1>7, <1>8 DEF b, o

-----------------------------------------------------------------------------
(* The levels that are imposed on neighbours are levels. *)
LEMMA RaisedLevels ==
  ASSUME NEW g, NEW lv \in Levels(g), NEW i \in Original(g)
  PROVE  RaiseNeighbours(g, lv, i) \in Levels(g)
<1>1. \A j \in Original(g) : lv[j] \in Nat
  BY DEF Levels
<1>2. \A j \in Original(g) : lv[j] < lv[i] - 1 => lv[i] - 1 \in Nat
  BY <1>1
<1> QED
  BY <1>1, <1>2 DEF RaiseNeighbours, Levels

(* There is a highest level. *)
LEMMA TopIs ==
  ASSUME NEW g, IsGrid(g), NEW lv \in Levels(g)
  PROVE  \E m \in {lv[i] : i \in Original(g)} : \A i \in Original(g) : lv[i] <= m
<1>0. Count(g) \in Nat \ {0} /\ Original(g) = 0 .. Count(g) - 1
  BY CopiedIs
<1>1. \A i \in Original(g) : lv[i] \in Nat
  BY DEF Levels
<1> DEFINE B == {n \in Original(g) : ~ \E h \in 0 .. n : \A i \in 0 .. n : lv[i] <= lv[h]}
<1>2. B = {}
  <2> SUFFICES ASSUME B # {} PROVE FALSE
    OBVIOUS
  <2>1. PICK n \in B : \A k \in B : n <= k
    <3>1. B \in SUBSET Nat
      BY <1>0
    <3> HIDE DEF B
    <3> QED
      BY <3>1, LeastNumber
  <2>2. n # 0
    BY <1>0, <1>1, <2>1
  <2>3. n \in Original(g) /\ n - 1 \in Original(g) /\ n - 1 < n
    BY <1>0, <2>1, <2>2
  <2>4. n - 1 \notin B
    <3> HIDE DEF B
    <3> QED
      BY <1>0, <2>1, <2>3
  <2>5. PICK h \in 0 .. n - 1 : \A i \in 0 .. n - 1 : lv[i] <= lv[h]
    BY <2>3, <2>4
  <2>6. \E e \in 0 .. n : \A i \in 0 .. n : lv[i] <= lv[e]
    <3>0. n \in 0 .. Count(g) - 1 /\ n \in Nat /\ Count(g) \in Nat
      BY <1>0, <2>3
    <3>1. h \in 0 .. n /\ h \in Original(g) /\ n \in 0 .. n /\ n \in Nat
      <4>1. h \in 0 .. n /\ h \in 0 .. Count(g) - 1 /\ n \in 0 .. n
        BY <3>0
      <4> QED
        BY <1>0, <3>0, <4>1
    <3>2. \A i \in 0 .. n : i \in Original(g) /\ (i = n \/ i \in 0 .. n - 1)
      <4>2. \A i \in 0 .. n : i \in 0 .. Count(g) - 1 /\ (i = n \/ i \in 0 .. n - 1)
        BY <3>0
      <4> QED
        BY <1>0, <4>2
    <3>3. CASE lv[n] <= lv[h]
      BY <2>5, <3>1, <3>2, <3>3
    <3>4. CASE ~ (lv[n] <= lv[h])
      <4>1. \A i \in 0 .. n : lv[i] <= lv[n]
        BY <1>1, <2>3, <2>5, <3>1, <3>2, <3>4
      <4> QED
        BY <3>1, <4>1
    <3> QED
      BY <3>3, <3>4
  <2> QED
    BY <2>1, <2>6
<1>3. Count(g) - 1 \in Original(g)
  BY <1>0
<1>4. PICK h \in 0 .. Count(g) - 1 : \A i \in 0 .. Count(g) - 1 : lv[i] <= lv[h]
  BY <1>2, <1>3
<1> QED
  BY <1>0, <1>4

(* One turn of the loops that impose the levels. *)
Imposed(g, top, acc, j) ==
  IF acc[(j - 1) % Count(g)] = top - ((j - 1) \div Count(g))
  THEN RaiseNeighbours(g, acc, (j - 1) % Count(g)) ELSE acc

Imposes(G, g, top, lv, n) ==
  G = [j \in 0 .. n |-> IF j = 0 THEN lv ELSE Imposed(g, top, G[j - 1], j)]

(* The loops have a result after each turn. *)
LEMMA ImposesExist ==
  ASSUME NEW g, NEW top, NEW lv, NEW n \in Nat
  PROVE  \E G : Imposes(G, g, top, lv, n)
<1> DEFINE B == {m \in Nat : ~ \E G : Imposes(G, g, top, lv, m)}
<1> SUFFICES ASSUME B # {} PROVE FALSE
  OBVIOUS
<1>1. PICK m \in B : \A k \in B : m <= k
  <2>1. B \in SUBSET Nat
    OBVIOUS
  <2> HIDE DEF B
  <2> QED
    BY <2>1, LeastNumber
<1>2. m # 0
  <2>1. Imposes([i \in 0 .. 0 |-> lv], g, top, lv, 0)
    BY DEF Imposes
  <2> QED
    BY <2>1, <1>1
<1>3. m \in Nat \ {0} /\ m - 1 \in Nat /\ m - 1 \notin B
  BY <1>1, <1>2
<1>4. PICK G : Imposes(G, g, top, lv, m - 1)
  BY <1>3
<1> DEFINE H == [i \in 0 .. m |-> IF i = m THEN Imposed(g, top, G[m - 1], m) ELSE G[i]]
<1>5. \A i \in 0 .. m - 1 : G[i] = IF i = 0 THEN lv ELSE Imposed(g, top, G[i - 1], i)
  BY <1>4 DEF Imposes
<1>6. \A i \in 0 .. m : H[i] = IF i = 0 THEN lv ELSE Imposed(g, top, H[i - 1], i)
  <2> TAKE i \in 0 .. m
  <2>1. CASE i = m
    <3>1. H[m] = Imposed(g, top, G[m - 1], m) /\ H[m - 1] = G[m - 1] /\ m # 0
      BY <1>3
    <3> HIDE DEF H
    <3> QED
      BY <2>1, <3>1
  <2>2. CASE i # m
    <3>1. i \in 0 .. m - 1 /\ (i # 0 => i - 1 \in 0 .. m - 1 /\ i - 1 # m)
      BY <1>3, <2>2
    <3>2. H[i] = G[i] /\ (i # 0 => H[i - 1] = G[i - 1])
      BY <1>3, <2>2, <3>1
    <3> HIDE DEF H
    <3> QED
      BY <1>5, <3>1, <3>2
  <2> QED
    BY <2>1, <2>2
<1>7. H = [i \in 0 .. m |-> IF i = 0 THEN lv ELSE Imposed(g, top, H[i - 1], i)]
  <2>1. H = [i \in 0 .. m |-> H[i]]
    OBVIOUS
  <2> HIDE DEF H
  <2> QED
    BY <1>6, <2>1
<1>8. Imposes(H, g, top, lv, m)
  <2> HIDE DEF H
  <2> QED
    BY <1>7 DEF Imposes
<1> QED
  BY <1>1, <1>8

(* The restriction of levels gives levels. *)
LEMMA RestrictedLevels ==
  ASSUME NEW g, IsGrid(g), NEW lv \in Levels(g)
  PROVE  Restricted(g, lv) \in Levels(g)
<1>0. Count(g) \in Nat \ {0} /\ Original(g) = 0 .. Count(g) - 1
  BY CopiedIs
<1> DEFINE top == CHOOSE m \in {lv[i] : i \in Original(g)} : \A i \in Original(g) : lv[i] <= m
           n == top * Count(g)
<1>1. top \in Nat
  <2>1. top \in {lv[i] : i \in Original(g)}
    BY TopIs, Zenon
  <2> HIDE DEF top
  <2> QED
    BY <2>1 DEF Levels
<1>2. n \in Nat
  <2> HIDE DEF top
  <2> QED
    BY <1>0, <1>1
<1> DEFINE after == CHOOSE h : h = [j \in 0 .. n |->
             IF j = 0 THEN lv
             ELSE IF h[j - 1][(j - 1) % Count(g)] = top - ((j - 1) \div Count(g))
                  THEN RaiseNeighbours(g, h[j - 1], (j - 1) % Count(g)) ELSE h[j - 1]]
<1>3. Restricted(g, lv) = after[n]
  BY Zenon DEF Restricted
<1> HIDE DEF n, top
<1>4. Imposes(after, g, top, lv, n)
  <2>1. PICK G : Imposes(G, g, top, lv, n)
    BY <1>2, ImposesExist
  <2>2. \E h : h = [j \in 0 .. n |->
             IF j = 0 THEN lv
             ELSE IF h[j - 1][(j - 1) % Count(g)] = top - ((j - 1) \div Count(g))
                  THEN RaiseNeighbours(g, h[j - 1], (j - 1) % Count(g)) ELSE h[j - 1]]
    BY <2>1, Zenon DEF Imposes, Imposed
  <2>3. after = [j \in 0 .. n |->
             IF j = 0 THEN lv
             ELSE IF after[j - 1][(j - 1) % Count(g)] = top - ((j - 1) \div Count(g))
                  THEN RaiseNeighbours(g, after[j - 1], (j - 1) % Count(g)) ELSE after[j - 1]]
    BY <2>2, Zenon
  <2> HIDE DEF after
  <2> QED
    BY <2>3, Zenon DEF Imposes, Imposed
<1> HIDE DEF after
<1>5. \A j \in 0 .. n : after[j] = IF j = 0 THEN lv ELSE Imposed(g, top, after[j - 1], j)
  BY <1>4, Zenon DEF Imposes
<1> DEFINE B == {j \in 0 .. n : after[j] \notin Levels(g)}
<1>6. B = {}
  <2> SUFFICES ASSUME B # {} PROVE FALSE
    OBVIOUS
  <2>1. PICK j \in B : \A k \in B : j <= k
    <3>1. B \in SUBSET Nat
      BY <1>2
    <3> HIDE DEF B
    <3> QED
      BY <3>1, LeastNumber
  <2>2. j \in 0 .. n /\ j # 0
    BY <1>2, <1>5, <2>1
  <2>3. j \in Nat /\ j - 1 \in Nat /\ j - 1 \in 0 .. n /\ j - 1 < j
    BY <1>2, <2>2
  <2>4. after[j - 1] \in Levels(g)
    <3>1. j - 1 \notin B
      <4> HIDE DEF B
      <4> QED
        BY <2>1, <2>3
    <3> QED
      BY <2>3, <3>1
  <2>5. after[j] = Imposed(g, top, after[j - 1], j)
    BY <1>5, <2>2
  <2>6. (j - 1) % Count(g) \in Original(g)
    BY <1>0, <2>3, DivisionBack
  <2>7. Imposed(g, top, after[j - 1], j) \in Levels(g)
    BY <2>4, <2>6, RaisedLevels DEF Imposed
  <2> QED
    BY <2>1, <2>5, <2>7
<1>7. n \in 0 .. n
  BY <1>2
<1> QED
  BY <1>3, <1>6, <1>7

Neighbours(g) == [Direction -> Original(g) \cup {Outside}]

(* The neighbours of a subgrid are subgrids, or outside the box. *)
LEMMA NeighboursAre ==
  ASSUME NEW g, IsGrid(g), NEW i \in Original(g)
  PROVE  NeighboursOf(g, i) \in Neighbours(g)
<1>1. ASSUME NEW s, OfGrid(g, Shifted(g, GridPosition(g, i), s))
      PROVE  GridIndex(g, Shifted(g, GridPosition(g, i), s)) \in Original(g)
  <2> DEFINE p == Shifted(g, GridPosition(g, i), s)
  <2>1. p = [a \in Axis |-> p[a]]
    BY DEF Shifted
  <2>2. \A a \in Axis : p[a] \in 0 .. g.n[a] - 1
    BY <1>1 DEF OfGrid
  <2> HIDE DEF p
  <2>3. p \in Positions(g)
    <3>1. \A a \in Axis : p[a] \in Int
      BY <2>2
    <3>2. p \in [Axis -> Int]
      BY <2>1, <3>1
    <3> QED
      BY <2>2, <3>2 DEF Positions
  <2>4. GridIndex(g, p) \in Original(g)
    BY <2>3, IndexPosition
  <2> QED
    BY <2>4 DEF p
<1> QED
  BY <1>1 DEF NeighboursOf, Neighbours

-----------------------------------------------------------------------------
(* The subgrid number of the first copy of a subgrid that has copies.      *)
First(g, lv, i) == Count(g) + CopiedBefore(g, lv)[i]

(* The subgrids that are copies. *)
CopyRange(g, lv) == Count(g) .. Count(g) + Len(OriginalsOf(g, lv)) - 1

(* The copies of a subgrid: its block.                                     *)
CopyBlock(g, lv, i) == First(g, lv, i) .. First(g, lv, i) + Copied(lv, i) - 1

(* A copy is in the block of its original, and all of a block are copies.  *)
LEMMA BlockOfCopy ==
  ASSUME NEW g, IsGrid(g), NEW lv \in Levels(g), NEW i \in Original(g)
  PROVE  /\ Count(g) \in Nat \ {0} /\ First(g, lv, i) \in Nat /\ First(g, lv, i) >= Count(g)
         /\ Copied(lv, i) \in Nat /\ Copied(lv, i) = Pow2[lv[i]] - 1
         /\ CopyBlock(g, lv, i) \subseteq CopyRange(g, lv)
         /\ \A s \in CopyRange(g, lv) :
              OriginalsOf(g, lv)[s - Count(g) + 1] = i <=> s \in CopyBlock(g, lv, i)
<1> DEFINE n == Count(g)
           b == CopiedBefore(g, lv)[i]
           c == Copied(lv, i)
           o == OriginalsOf(g, lv)
<1>1. n \in Nat \ {0} /\ c \in Nat /\ c = Pow2[lv[i]] - 1
  BY CopiedIs
<1>2. /\ b \in Nat /\ b + c <= Len(o)
      /\ \A p \in 1 .. Len(o) : o[p] = i <=> p - b \in 1 .. c
  BY CopiesInBlock
<1>3. Len(o) \in Nat
  <2>1. o \in Seq(Original(g))
    BY OriginalsAre
  <2> HIDE DEF o
  <2> QED
    BY <2>1
<1>4. /\ First(g, lv, i) = n + b /\ CopyRange(g, lv) = n .. n + Len(o) - 1
      /\ CopyBlock(g, lv, i) = n + b .. n + b + c - 1
  BY DEF First, CopyRange, CopyBlock
<1> HIDE DEF n, b, c, o
<1>5. CopyBlock(g, lv, i) \subseteq CopyRange(g, lv)
  BY <1>1, <1>2, <1>3, <1>4
<1>6. ASSUME NEW s \in CopyRange(g, lv)
      PROVE  o[s - n + 1] = i <=> s \in CopyBlock(g, lv, i)
  <2> DEFINE p == s - n + 1
  <2>1. p \in 1 .. Len(o) /\ (p - b \in 1 .. c <=> s \in n + b .. n + b + c - 1)
    BY <1>1, <1>2, <1>3, <1>4
  <2> HIDE DEF p
  <2>2. o[p] = i <=> p - b \in 1 .. c
    BY <1>2, <2>1
  <2>3. o[p] = i <=> s \in CopyBlock(g, lv, i)
    BY <1>4, <2>1, <2>2
  <2> QED
    BY <2>3 DEF p
<1> QED
  BY <1>1, <1>2, <1>4, <1>5, <1>6 DEF n, c, o

(* Every copy has an original. *)
LEMMA OriginalOfCopy ==
  ASSUME NEW g, IsGrid(g), NEW lv \in Levels(g), NEW s \in CopyRange(g, lv)
  PROVE  /\ OriginalsOf(g, lv)[s - Count(g) + 1] \in Original(g)
         /\ s \notin Original(g) /\ s \in Nat
<1> DEFINE o == OriginalsOf(g, lv)
           n == Count(g)
<1>1. o \in Seq(Original(g)) /\ n \in Nat \ {0} /\ Original(g) = 0 .. n - 1
  BY OriginalsAre, CopiedIs
<1>2. s \in n .. n + Len(o) - 1
  BY DEF CopyRange
<1> HIDE DEF o, n
<1>3. s - n + 1 \in 1 .. Len(o) /\ s \in Nat /\ ~ (s \in 0 .. n - 1)
  BY <1>1, <1>2
<1>4. o[s - n + 1] \in Original(g)
  BY <1>1, <1>3
<1> QED
  BY <1>1, <1>3, <1>4 DEF o, n

(* The offsets: those of the subgrids with copies are set, the others are  *)
(* old ones.                                                               *)
OffsetsOK(g, lv, cp) ==
  \A i \in Original(g) :
    IF lv[i] > 0 THEN cp[i] = First(g, lv, i)
    ELSE cp[i] = NoCopies \/ (cp[i] \in Nat /\ cp[i] >= Count(g))

(* Without a level there are no copies. *)
LEMMA BlockEmpty ==
  ASSUME NEW g, IsGrid(g), NEW lv \in Levels(g), NEW i \in Original(g)
  PROVE  lv[i] \in Nat /\ (CopyBlock(g, lv, i) = {} <=> lv[i] = 0)
<1>1. lv[i] \in Nat
  BY DEF Levels
<1>2. Copied(lv, i) \in Nat /\ (Copied(lv, i) = 0 <=> lv[i] = 0)
  BY CopiedIs
<1>3. First(g, lv, i) \in Nat
  BY BlockOfCopy
<1>4. CopyBlock(g, lv, i) = First(g, lv, i) .. First(g, lv, i) + Copied(lv, i) - 1
  BY DEF CopyBlock
<1>5. ASSUME NEW f \in Nat, NEW c \in Nat PROVE f .. f + c - 1 = {} <=> c = 0
  <2>1. c # 0 => f \in f .. f + c - 1
    OBVIOUS
  <2>2. c = 0 => f .. f + c - 1 = {}
    OBVIOUS
  <2> QED
    BY <2>1, <2>2
<1>6. First(g, lv, i) .. First(g, lv, i) + Copied(lv, i) - 1 = {} <=> Copied(lv, i) = 0
  BY <1>2, <1>3, <1>5
<1> QED
  BY <1>1, <1>2, <1>4, <1>6

(* The loop from the offset of a subgrid on finds its block, and nothing   *)
(* for a subgrid without copies, whatever its offset was.                  *)
LEMMA LoopFindsBlock ==
  ASSUME NEW g, IsGrid(g), NEW lv \in Levels(g), NEW cp, OffsetsOK(g, lv, cp),
         NEW i \in Original(g)
  PROVE  CopiesOf(g, cp, OriginalsOf(g, lv), i) = CopyBlock(g, lv, i)
<1> DEFINE n == Count(g)
           o == OriginalsOf(g, lv)
           X == CopyBlock(g, lv, i)
           f == First(g, lv, i)
           C == CopiesOf(g, cp, o, i)
<1>1. /\ n \in Nat \ {0} /\ f \in Nat /\ f >= n /\ X \subseteq CopyRange(g, lv)
      /\ \A s \in CopyRange(g, lv) : o[s - n + 1] = i <=> s \in X
      /\ Copied(lv, i) \in Nat
  BY BlockOfCopy
<1>2. CopyRange(g, lv) = n .. n + Len(o) - 1 /\ X = f .. f + Copied(lv, i) - 1
  BY DEF CopyRange, CopyBlock
<1>3. Len(o) \in Nat
  <2>1. o \in Seq(Original(g))
    BY OriginalsAre
  <2> HIDE DEF o
  <2> QED
    BY <2>1
<1>4. C = IF cp[i] = NoCopies THEN {}
          ELSE {s \in cp[i] .. n + Len(o) - 1 : \A t \in cp[i] .. s : o[t - n + 1] = i}
  BY DEF CopiesOf
<1>5. lv[i] \in Nat /\ (X = {} <=> lv[i] = 0)
  BY BlockEmpty
<1>6. IF lv[i] > 0 THEN cp[i] = f ELSE cp[i] = NoCopies \/ (cp[i] \in Nat /\ cp[i] >= n)
  BY DEF OffsetsOK
<1> HIDE DEF n, o, X, f, C
<1>7. CASE lv[i] > 0
  <2>1. cp[i] = f /\ cp[i] # NoCopies
    BY <1>1, <1>6, <1>7 DEF NoCopies
  <2>2. C = {s \in f .. n + Len(o) - 1 : \A t \in f .. s : o[t - n + 1] = i}
    BY <1>4, <2>1
  <2>3. ASSUME NEW s \in X PROVE s \in C
    <3>1. s \in CopyRange(g, lv) /\ s \in f .. n + Len(o) - 1
      BY <1>1, <1>2, <1>3
    <3>2. \A t \in f .. s : t \in X /\ t \in CopyRange(g, lv)
      BY <1>1, <1>2, <2>3
    <3> QED
      BY <1>1, <2>2, <3>1, <3>2
  <2>4. ASSUME NEW s \in C PROVE s \in X
    <3>1. s \in f .. n + Len(o) - 1 /\ \A t \in f .. s : o[t - n + 1] = i
      BY <2>2
    <3>2. s \in f .. s /\ s \in CopyRange(g, lv)
      BY <1>1, <1>2, <1>3, <3>1
    <3> QED
      BY <1>1, <3>1, <3>2
  <2> QED
    BY <2>3, <2>4 DEF C, X, n, o
<1>8. CASE ~ (lv[i] > 0)
  <2>1. X = {}
    BY <1>5, <1>8
  <2>2. C = {}
    <3>1. CASE cp[i] = NoCopies
      BY <1>4, <3>1
    <3>2. CASE cp[i] # NoCopies
      <4>1. cp[i] \in Nat /\ cp[i] >= n
        BY <1>6, <1>8, <3>2
      <4>2. SUFFICES ASSUME NEW s \in C PROVE FALSE
        OBVIOUS
      <4>3. s \in cp[i] .. n + Len(o) - 1 /\ \A t \in cp[i] .. s : o[t - n + 1] = i
        BY <1>4, <3>2
      <4>4. cp[i] \in cp[i] .. s /\ cp[i] \in CopyRange(g, lv)
        BY <1>1, <1>2, <1>3, <4>1, <4>3
      <4> QED
        BY <1>1, <2>1, <4>3, <4>4
    <3> QED
      BY <3>1, <3>2
  <2> QED
    BY <2>1, <2>2 DEF C, X, o
<1> QED
  BY <1>7, <1>8, <1>5

-----------------------------------------------------------------------------
(* The neighbours of copies.                                               *)

(* A copy k of a subgrid with more copies than its neighbour: several of   *)
(* them have the same one.                                                 *)
LEMMA SharedCopy ==
  ASSUME NEW a \in Nat, NEW c \in Nat, c < a, NEW k \in 1 .. Pow2[a] - 1
  PROVE  k \div Pow2[a - c] \in 0 .. Pow2[c] - 1
<1> HIDE DEF Pow2
<1> DEFINE p == Pow2[a - c]
           q == Pow2[c]
           h == k \div p
           r == k % p
<1>1. a - c \in Nat /\ a - c + c = a
  OBVIOUS
<1>2. p \in Nat \ {0} /\ q \in Nat \ {0} /\ Pow2[a] \in Nat
  BY <1>1, Powers
<1>3. Pow2[a] = p * q
  <2>1. Pow2[a - c + c] = Pow2[a - c] * Pow2[c]
    BY <1>1, PowersMultiply
  <2> QED
    BY <1>1, <2>1
<1>4. k \in Nat /\ k < Pow2[a]
  BY <1>2
<1>5. h \in Nat /\ r \in 0 .. p - 1 /\ k = h * p + r
  <2> HIDE DEF p
  <2> QED
    BY <1>2, <1>4, DivisionBack
<1> HIDE DEF p, q, h, r
<1>6. p * q = q * p
  BY <1>2
<1>7. h * p + r < q * p
  BY <1>3, <1>4, <1>5, <1>6
<1>8. h < q
  BY <1>2, <1>5, <1>7, BelowProduct
<1> QED
  BY <1>2, <1>5, <1>8 DEF h, p, q

(* A copy k of a subgrid with fewer copies than its neighbour: some of the *)
(* copies of the neighbour are not the neighbour of any copy.              *)
LEMMA SpreadCopy ==
  ASSUME NEW a \in Nat, NEW c \in Nat, a < c, NEW k \in 1 .. Pow2[a] - 1
  PROVE  (k - 1) * Pow2[c - a] \in 0 .. Pow2[c] - 2
<1> HIDE DEF Pow2
<1> DEFINE p == Pow2[c - a]
           q == Pow2[a]
<1>1. c - a \in Nat /\ c - a + a = c
  OBVIOUS
<1>2. p \in Nat \ {0} /\ q \in Nat \ {0}
  BY <1>1, Powers
<1>3. Pow2[c] = p * q
  <2>1. Pow2[c - a + a] = Pow2[c - a] * Pow2[a]
    BY <1>1, PowersMultiply
  <2> QED
    BY <1>1, <2>1
<1> HIDE DEF p, q
<1>4. k \in 1 .. q - 1
  BY DEF q
<1>5. (k - 1) * p \in Nat
  <2>1. k - 1 \in Nat
    BY <1>4
  <2> QED
    BY <1>2, <2>1
<1>6. p * q = (k - 1) * p + 2 * p + (q - 1 - k) * p
  BY <1>2, <1>4
<1>7. (q - 1 - k) * p \in Nat
  <2>1. q - 1 - k \in Nat
    BY <1>2, <1>4
  <2> QED
    BY <1>2, <2>1
<1>8. (k - 1) * p \in 0 .. p * q - 2
  BY <1>2, <1>5, <1>6, <1>7
<1> QED
  BY <1>3, <1>8 DEF p

(* A subgrid and its copies. *)
FamilyOf(g, lv, i) == {i} \cup CopyBlock(g, lv, i)

(* The neighbour of a copy is the neighbour of its original, or one of its *)
(* copies.                                                                 *)
LEMMA CopyNeighbourIs ==
  ASSUME NEW g, IsGrid(g), NEW lv \in Levels(g), NEW cp, OffsetsOK(g, lv, cp),
         NEW i \in Original(g), NEW j \in Original(g), NEW s \in CopyBlock(g, lv, i)
  PROVE  CopyNeighbour(lv, cp, i, s - cp[i] + 1, j) \in FamilyOf(g, lv, j)
<1> HIDE DEF Pow2
<1> DEFINE k == s - cp[i] + 1
           f == First(g, lv, j)
           c == Copied(lv, j)
<1>1. lv[i] \in Nat /\ lv[j] \in Nat /\ lv[i] # 0
  BY BlockEmpty
<1>2. cp[i] = First(g, lv, i) /\ (lv[j] > 0 => cp[j] = f)
  BY <1>1 DEF OffsetsOK
<1>3. k \in 1 .. Pow2[lv[i]] - 1
  <2>1. /\ First(g, lv, i) \in Nat /\ Copied(lv, i) \in Nat /\ Copied(lv, i) = Pow2[lv[i]] - 1
    BY BlockOfCopy
  <2>2. s \in First(g, lv, i) .. First(g, lv, i) + Copied(lv, i) - 1
    BY DEF CopyBlock
  <2>3. s - First(g, lv, i) + 1 \in 1 .. Copied(lv, i)
    BY <2>1, <2>2
  <2> QED
    BY <1>2, <2>1, <2>3
<1>4. f \in Nat /\ c \in Nat /\ c = Pow2[lv[j]] - 1
  BY BlockOfCopy
<1>5. j # Outside
  <2>1. Original(g) = 0 .. Count(g) - 1
    BY CopiedIs
  <2> QED
    BY <2>1 DEF Outside
<1>6. /\ FamilyOf(g, lv, j) = {j} \cup (f .. f + c - 1)
      /\ CopyNeighbour(lv, cp, i, k, j) =
           IF lv[j] = lv[i] THEN cp[j] + k - 1
           ELSE IF lv[i] > lv[j]
           THEN IF k \div Pow2[lv[i] - lv[j]] > 0 THEN cp[j] + (k \div Pow2[lv[i] - lv[j]]) - 1 ELSE j
           ELSE cp[j] + (k - 1) * Pow2[lv[j] - lv[i]]
  BY <1>5 DEF FamilyOf, CopyBlock, CopyNeighbour
<1> HIDE DEF k, f, c
<1>7. CASE lv[j] = lv[i]
  <2>1. cp[j] = f /\ f + k - 1 \in f .. f + c - 1
    BY <1>1, <1>2, <1>3, <1>4, <1>7
  <2>2. CopyNeighbour(lv, cp, i, k, j) = f + k - 1
    BY <1>6, <1>7, <2>1
  <2> QED
    BY <1>6, <2>1, <2>2 DEF k
<1>8. CASE lv[i] > lv[j]
  <2> DEFINE h == k \div Pow2[lv[i] - lv[j]]
  <2>1. h \in 0 .. Pow2[lv[j]] - 1
    BY <1>1, <1>3, <1>8, SharedCopy
  <2>2. CopyNeighbour(lv, cp, i, k, j) = IF h > 0 THEN cp[j] + h - 1 ELSE j
    BY <1>1, <1>6, <1>8
  <2> HIDE DEF h
  <2>3. CASE h > 0
    <3>1. lv[j] > 0
      <4>1. Pow2[lv[j]] # 1
        BY <1>4, <2>1, <2>3
      <4> QED
        BY <1>1, <4>1, Powers
    <3>2. cp[j] + h - 1 \in f .. f + c - 1
      BY <1>2, <1>4, <2>1, <2>3, <3>1
    <3> QED
      BY <1>6, <2>2, <2>3, <3>2 DEF k
  <2>4. CASE ~ (h > 0)
    BY <1>6, <2>2, <2>4 DEF k
  <2> QED
    BY <2>3, <2>4
<1>9. CASE lv[i] < lv[j]
  <2> DEFINE h == (k - 1) * Pow2[lv[j] - lv[i]]
  <2>1. h \in 0 .. Pow2[lv[j]] - 2
    BY <1>1, <1>3, <1>9, SpreadCopy
  <2>2. CopyNeighbour(lv, cp, i, k, j) = cp[j] + h
    BY <1>1, <1>6, <1>9
  <2> HIDE DEF h
  <2>3. cp[j] = f
    BY <1>1, <1>2, <1>9
  <2>4. h \in 0 .. c - 1
    <3>1. Pow2[lv[j]] \in Nat
      BY <1>1, Powers
    <3> QED
      BY <1>4, <2>1, <3>1
  <2>5. f + h \in f .. f + c - 1
    BY <1>4, <2>4
  <2> QED
    BY <1>6, <2>2, <2>3, <2>5 DEF k
<1> QED
  BY <1>1, <1>7, <1>8, <1>9

-----------------------------------------------------------------------------
(* The tables of a distributed grid describe the same copies: the levels,  *)
(* the list of originals, the offsets and the neighbours.                  *)
LinkedCopies(g, lv, cp, nb) ==
  \A i \in Original(g) : \A s \in CopyBlock(g, lv, i) : \A d \in Direction :
    nb[s][d] = IF d = Inside THEN s
               ELSE CopyNeighbour(lv, cp, i, s - cp[i] + 1, nb[i][d])

TablesOK ==
  /\ scenario \in Scenarios
  /\ levels \in Levels(grid)
  /\ originals = OriginalsOf(grid, levels)
  /\ OffsetsOK(grid, levels, copies)
  /\ DOMAIN ngb = Original(grid) \cup CopyRange(grid, levels)
  /\ \A i \in Original(grid) : ngb[i] = NeighboursOf(grid, i) /\ ngb[i] \in Neighbours(grid)
  /\ LinkedCopies(grid, levels, copies, ngb)

(* The grid of a scenario. *)
LEMMA GridOfScenario ==
  ASSUME scenario \in Scenarios
  PROVE  /\ IsGrid(grid) /\ Count(grid) \in Nat \ {0} /\ Original(grid) = 0 .. Count(grid) - 1
         /\ scenario.level \in Nat /\ scenario.packets \in Nat /\ scenario.batch \in Nat
<1>1. IsGrid(grid) /\ scenario.level \in Nat /\ scenario.packets \in Nat /\ scenario.batch \in Nat
  BY ScenarioAssumption DEF grid
<1>2. [i \in Original(grid) |-> 0] \in Levels(grid)
  BY DEF Levels
<1> QED
  BY <1>1, <1>2, CopiedIs

(* Subgrids are originals or copies. *)
LEMMA SubgridsAre ==
  ASSUME NEW g, IsGrid(g), NEW lv \in Levels(g)
  PROVE  /\ Original(g) \cup CopyRange(g, lv) = 0 .. Count(g) + Len(OriginalsOf(g, lv)) - 1
         /\ Original(g) \cap CopyRange(g, lv) = {}
         /\ \A s \in Original(g) \cup CopyRange(g, lv) : s \in Nat /\ (s < Count(g) <=> s \in Original(g))
<1>1. Count(g) \in Nat \ {0} /\ Original(g) = 0 .. Count(g) - 1
  BY CopiedIs
<1>2. Len(OriginalsOf(g, lv)) \in Nat
  BY OriginalsAre
<1> DEFINE n == Count(g)
           l == Len(OriginalsOf(g, lv))
<1>3. CopyRange(g, lv) = n .. n + l - 1
  BY DEF CopyRange
<1> HIDE DEF n, l
<1>4. n \in Nat \ {0} /\ l \in Nat /\ Original(g) = 0 .. n - 1
  BY <1>1, <1>2 DEF n, l
<1>5. /\ (0 .. n - 1) \cup (n .. n + l - 1) = 0 .. n + l - 1
      /\ (0 .. n - 1) \cap (n .. n + l - 1) = {}
      /\ \A s \in (0 .. n - 1) \cup (n .. n + l - 1) : s \in Nat /\ (s < n <=> s \in 0 .. n - 1)
  BY <1>4
<1> QED
  BY <1>3, <1>4, <1>5 DEF n, l

(* Before the first sources there are no copies. *)
LEMMA NoCopiesYet ==
  ASSUME NEW g, IsGrid(g)
  PROVE  LET lv == [i \in Original(g) |-> 0]
         IN  lv \in Levels(g) /\ OriginalsOf(g, lv) = <<>> /\ CopyRange(g, lv) = {}
             /\ \A i \in Original(g) : CopyBlock(g, lv, i) = {}
<1> DEFINE lv == [i \in Original(g) |-> 0]
           o == OriginalsOf(g, lv)
<1>1. lv \in Levels(g) /\ \A i \in Original(g) : lv[i] = 0
  BY DEF Levels
<1> HIDE DEF lv
<1>2. \A i \in Original(g) : CopyBlock(g, lv, i) = {}
  BY <1>1, BlockEmpty
<1>3. CopyRange(g, lv) = {}
  <2> SUFFICES ASSUME NEW s \in CopyRange(g, lv) PROVE FALSE
    OBVIOUS
  <2>1. o[s - Count(g) + 1] \in Original(g)
    BY <1>1, OriginalOfCopy
  <2>2. s \in CopyBlock(g, lv, o[s - Count(g) + 1])
    BY <1>1, <2>1, BlockOfCopy
  <2> QED
    BY <1>2, <2>1, <2>2
<1>4. o \in Seq(Original(g))
  BY <1>1, OriginalsAre
<1>5. Count(g) \in Nat
  BY <1>1, CopiedIs
<1> HIDE DEF o
<1>6. Len(o) = 0
  <2>1. CopyRange(g, lv) = Count(g) .. Count(g) + Len(o) - 1
    BY DEF CopyRange, o
  <2>2. Len(o) \in Nat
    BY <1>4
  <2>3. Len(o) # 0 => Count(g) \in Count(g) .. Count(g) + Len(o) - 1
    BY <1>5, <2>2
  <2> QED
    BY <1>3, <2>1, <2>3
<1>7. o = <<>>
  BY <1>4, <1>6
<1> QED
  BY <1>1, <1>2, <1>3, <1>7 DEF lv, o

(* The tables are made without copies. *)
LEMMA TablesInit == Init => TablesOK
<1> SUFFICES ASSUME Init PROVE TablesOK
  OBVIOUS
<1> DEFINE lv == [i \in Original(grid) |-> 0]
<1>1. /\ scenario \in Scenarios /\ levels = lv
      /\ copies = [i \in Original(grid) |-> NoCopies] /\ originals = <<>>
      /\ ngb = [i \in Original(grid) |-> NeighboursOf(grid, i)]
  BY DEF Init
<1>2. IsGrid(grid)
  BY <1>1, GridOfScenario
<1>3. /\ lv \in Levels(grid) /\ OriginalsOf(grid, lv) = <<>> /\ CopyRange(grid, lv) = {}
      /\ \A i \in Original(grid) : CopyBlock(grid, lv, i) = {}
  BY <1>2, NoCopiesYet
<1>4. \A i \in Original(grid) : ~ (lv[i] > 0)
  OBVIOUS
<1> HIDE DEF lv
<1>5. OffsetsOK(grid, levels, copies)
  BY <1>1, <1>4 DEF OffsetsOK
<1>6. DOMAIN ngb = Original(grid) \cup CopyRange(grid, levels)
  BY <1>1, <1>3
<1>7. \A i \in Original(grid) : ngb[i] = NeighboursOf(grid, i) /\ ngb[i] \in Neighbours(grid)
  BY <1>1, <1>2, NeighboursAre
<1>8. LinkedCopies(grid, levels, copies, ngb)
  BY <1>1, <1>3 DEF LinkedCopies
<1> QED
  BY <1>1, <1>3, <1>5, <1>6, <1>7, <1>8 DEF TablesOK

(* A new hierarchy of copies: offsets of subgrids that lost their copies   *)
(* stay as they were, all others are set.                                  *)
LEMMA NewOffsets ==
  ASSUME NEW g, IsGrid(g), NEW lv \in Levels(g), NEW new \in Levels(g),
         NEW cp, OffsetsOK(g, lv, cp)
  PROVE  OffsetsOK(g, new, Offsets(g, new, cp))
<1> SUFFICES ASSUME NEW i \in Original(g)
             PROVE  IF new[i] > 0 THEN Offsets(g, new, cp)[i] = First(g, new, i)
                    ELSE \/ Offsets(g, new, cp)[i] = NoCopies
                         \/ Offsets(g, new, cp)[i] \in Nat /\ Offsets(g, new, cp)[i] >= Count(g)
  BY DEF OffsetsOK
<1>1. Offsets(g, new, cp)[i] = IF new[i] > 0 THEN First(g, new, i) ELSE cp[i]
  BY DEF Offsets, First
<1>2. First(g, lv, i) \in Nat /\ First(g, lv, i) >= Count(g)
  BY BlockOfCopy
<1>3. IF lv[i] > 0 THEN cp[i] = First(g, lv, i)
      ELSE cp[i] = NoCopies \/ (cp[i] \in Nat /\ cp[i] >= Count(g))
  BY DEF OffsetsOK
<1> QED
  BY <1>1, <1>2, <1>3

(* The neighbours are remade: the originals keep theirs.                   *)
Remade(g, lv, cp, own, nb) ==
  /\ DOMAIN nb = Original(g) \cup CopyRange(g, lv)
  /\ \A i \in Original(g) : nb[i] = own[i]
  /\ LinkedCopies(g, lv, cp, nb)

(* The new neighbours: the originals keep theirs.                          *)
LEMMA NewNeighbours ==
  ASSUME NEW g, IsGrid(g), NEW lv \in Levels(g), NEW cp, NEW own
  PROVE  Remade(g, lv, cp, own, CopyNeighbours(g, lv, cp, own))
<1> DEFINE nb == CopyNeighbours(g, lv, cp, own)
           o == OriginalsOf(g, lv)
           S == Original(g) \cup CopyRange(g, lv)
<1>1. /\ S = 0 .. Count(g) + Len(o) - 1
      /\ \A s \in S : s < Count(g) <=> s \in Original(g)
      /\ Original(g) \cap CopyRange(g, lv) = {}
  BY SubgridsAre
<1>2. nb = [s \in S |->
         IF s < Count(g) THEN own[s]
         ELSE [d \in Direction |->
                 IF d = Inside THEN s
                 ELSE CopyNeighbour(lv, cp, o[s - Count(g) + 1], s - cp[o[s - Count(g) + 1]] + 1,
                                    own[o[s - Count(g) + 1]][d])]]
  BY <1>1, Zenon DEF CopyNeighbours
<1> HIDE DEF nb, o, S
<1>3. \A i \in Original(g) : nb[i] = own[i]
  BY <1>1, <1>2 DEF S
<1>4. ASSUME NEW i \in Original(g), NEW s \in CopyBlock(g, lv, i), NEW d \in Direction
      PROVE  nb[s][d] = IF d = Inside THEN s
                        ELSE CopyNeighbour(lv, cp, i, s - cp[i] + 1, nb[i][d])
  <2>1. s \in CopyRange(g, lv) /\ o[s - Count(g) + 1] = i
    BY BlockOfCopy DEF o
  <2>2. s \in S /\ ~ (s < Count(g))
    BY <1>1, <2>1 DEF S
  <2>3. nb[s] = [e \in Direction |->
                 IF e = Inside THEN s ELSE CopyNeighbour(lv, cp, i, s - cp[i] + 1, own[i][e])]
    BY <1>2, <2>1, <2>2
  <2>4. nb[s][d] = IF d = Inside THEN s ELSE CopyNeighbour(lv, cp, i, s - cp[i] + 1, own[i][d])
    BY <2>3, Zenon
  <2>5. nb[i] = own[i]
    BY <1>3
  <2> QED
    BY <2>4, <2>5, Zenon
<1>5. DOMAIN nb = S
  BY <1>2
<1> QED
  BY <1>3, <1>4, <1>5 DEF nb, S, Remade, LinkedCopies

(* Moving sources remake the tables; nothing else changes them. *)
LEMMA TablesNext == TablesOK /\ [Next]_vars => TablesOK'
<1> SUFFICES ASSUME TablesOK, [Next]_vars PROVE TablesOK'
  OBVIOUS
<1>1. CASE UpdateSources
  <2> DEFINE at == {SubgridAt(distribution'[k].at) : k \in DOMAIN distribution'}
             wanted == [i \in Original(grid) |-> IF i \in at THEN scenario.level ELSE 0]
  <2>1. /\ levels' = Restricted(grid, wanted) /\ copies' = Offsets(grid, levels', copies)
        /\ originals' = OriginalsOf(grid, levels') /\ ngb' = CopyNeighbours(grid, levels', copies', ngb)
        /\ scenario' = scenario
    BY <1>1 DEF UpdateSources
  <2>2. grid' = grid
    BY <2>1 DEF grid
  <2>3. IsGrid(grid) /\ scenario.level \in Nat
    BY GridOfScenario DEF TablesOK
  <2>4. levels' \in Levels(grid)
    <3>1. wanted \in Levels(grid)
      BY <2>3 DEF Levels
    <3> HIDE DEF wanted
    <3> QED
      BY <2>1, <2>3, <3>1, RestrictedLevels
  <2> HIDE DEF wanted
  <2>5. OffsetsOK(grid, levels', copies')
    BY <2>1, <2>3, <2>4, NewOffsets DEF TablesOK
  <2>6. /\ DOMAIN ngb' = Original(grid) \cup CopyRange(grid, levels')
        /\ \A i \in Original(grid) : ngb'[i] = ngb[i]
        /\ LinkedCopies(grid, levels', copies', ngb')
    <3>1. Remade(grid, levels', copies', ngb, CopyNeighbours(grid, levels', copies', ngb))
      BY <2>3, <2>4, NewNeighbours
    <3>2. Remade(grid, levels', copies', ngb, ngb')
      BY <2>1, <3>1
    <3> QED
      BY <3>2 DEF Remade
  <2>7. \A i \in Original(grid) : ngb'[i] = NeighboursOf(grid, i) /\ ngb'[i] \in Neighbours(grid)
    BY <2>6 DEF TablesOK
  <2>8. scenario' \in Scenarios
    BY <2>1 DEF TablesOK
  <2> QED
    BY <2>1, <2>2, <2>4, <2>5, <2>6, <2>7, <2>8 DEF TablesOK
<1>2. ASSUME UNCHANGED <<scenario, tables>> PROVE TablesOK'
  BY <1>2 DEF TablesOK, tables, grid
<1>3. CASE ~ UpdateSources
  <2>1. UNCHANGED <<scenario, tables>>
    BY <1>3 DEF Next, vars, KeepSources, NewSource, StartIteration, GetPhotonBatch, StartTransport,
      Launch, Cross, CountPhoton, Leave, Absorb, Reemit, UpdateOriginalCounters,
      CalculateTemperature, UpdateCopyProperties, NextLoop, End, tables
  <2> QED
    BY <1>2, <2>1
<1> QED
  BY <1>1, <1>3

(* The families of the subgrids are their blocks. *)
LEMMA FamiliesAre ==
  ASSUME TablesOK, NEW i \in Original(grid)
  PROVE  /\ Copies(i) = CopyBlock(grid, levels, i)
         /\ Family(i) = FamilyOf(grid, levels, i)
<1>1. /\ IsGrid(grid) /\ levels \in Levels(grid) /\ originals = OriginalsOf(grid, levels)
      /\ OffsetsOK(grid, levels, copies) /\ Subgrid = Original(grid) \cup CopyRange(grid, levels)
  BY GridOfScenario DEF TablesOK, Subgrid
<1>2. Copies(i) = CopyBlock(grid, levels, i)
  BY <1>1, LoopFindsBlock DEF Copies
<1>3. \A s \in Subgrid : s \in Nat /\ (s < Count(grid) <=> s \in Original(grid))
  BY <1>1, SubgridsAre
<1>4. Original(grid) \cap CopyRange(grid, levels) = {} /\ Count(grid) \in Nat
  BY <1>1, SubgridsAre, GridOfScenario DEF TablesOK
<1>5. /\ CopyBlock(grid, levels, i) \subseteq CopyRange(grid, levels)
      /\ \A s \in CopyRange(grid, levels) :
           originals[s - Count(grid) + 1] = i <=> s \in CopyBlock(grid, levels, i)
  BY <1>1, BlockOfCopy
<1>6. \A s \in Subgrid : s >= Count(grid) <=> s \in CopyRange(grid, levels)
  BY <1>1, <1>3, <1>4
<1>7. Family(i) = {i} \cup {s \in Subgrid : s >= Count(grid) /\ originals[s - Count(grid) + 1] = i}
  BY DEF Family
<1>8. Family(i) = {i} \cup CopyBlock(grid, levels, i)
  BY <1>1, <1>5, <1>6, <1>7
<1> QED
  BY <1>2, <1>8 DEF FamilyOf

(* A family has as many members as its level says. *)
LEMMA FamilySize ==
  ASSUME NEW g, IsGrid(g), NEW lv \in Levels(g), NEW i \in Original(g)
  PROVE  IsFiniteSet(FamilyOf(g, lv, i)) /\ Cardinality(FamilyOf(g, lv, i)) = Pow2[lv[i]]
<1> HIDE DEF Pow2
<1> DEFINE X == CopyBlock(g, lv, i)
           f == First(g, lv, i)
           c == Copied(lv, i)
<1>1. f \in Nat /\ c \in Nat /\ c = Pow2[lv[i]] - 1 /\ X \subseteq CopyRange(g, lv)
  BY BlockOfCopy
<1>2. X = f .. f + c - 1
  BY DEF CopyBlock
<1>3. i \notin X
  BY <1>1, SubgridsAre
<1>4. Pow2[lv[i]] \in Nat
  BY Powers DEF Levels
<1> HIDE DEF X, f, c
<1>5. \A a, b \in Int : IsFiniteSet(a .. b) /\ Cardinality(a .. b) = IF a > b THEN 0 ELSE b - a + 1
  BY FS_Interval
<1> DEFINE e == f + c - 1
<1>6. f \in Int /\ e \in Int /\ (f > e <=> c = 0) /\ e - f + 1 = c
  <2>1. f \in Nat /\ c \in Nat
    BY <1>1
  <2> QED
    BY <2>1
<1>12. X = f .. e
  BY <1>2
<1> HIDE DEF e
<1>7. IsFiniteSet(f .. e) /\ Cardinality(f .. e) = IF f > e THEN 0 ELSE e - f + 1
  BY <1>5, <1>6, Zenon
<1>8. IsFiniteSet(X) /\ Cardinality(X) = c
  BY <1>1, <1>6, <1>7, <1>12
<1>9. IsFiniteSet(X \cup {i}) /\ Cardinality(X \cup {i}) = c + 1
  BY <1>3, <1>8, FS_AddElement
<1>10. FamilyOf(g, lv, i) = X \cup {i}
  BY DEF FamilyOf, X
<1>11. c + 1 = Pow2[lv[i]]
  BY <1>1, <1>4
<1> QED
  BY <1>9, <1>10, <1>11

(* However the levels change between radiation steps, the offsets, the     *)
(* list of originals and the neighbours describe the same copies.          *)
THEOREM CopiesDescribed == Spec => []FamiliesExact
<1>1. TablesOK => FamiliesExact
  <2> SUFFICES ASSUME TablesOK PROVE OffsetsExact /\ CopiesLinked
    BY DEF FamiliesExact
  <2>1. /\ IsGrid(grid) /\ levels \in Levels(grid) /\ OffsetsOK(grid, levels, copies)
        /\ \A i \in Original(grid) : ngb[i] \in Neighbours(grid)
        /\ LinkedCopies(grid, levels, copies, ngb)
    BY GridOfScenario DEF TablesOK
  <2>2. OffsetsExact
    <3> SUFFICES ASSUME NEW i \in Original(grid)
                 PROVE  /\ {i} \cup Copies(i) = Family(i)
                        /\ Cardinality(Family(i)) = Pow2[levels[i]]
      BY DEF OffsetsExact
    <3>1. {i} \cup Copies(i) = Family(i)
      BY FamiliesAre DEF FamilyOf
    <3>2. Cardinality(Family(i)) = Pow2[levels[i]]
      BY <2>1, FamiliesAre, FamilySize
    <3> QED
      BY <3>1, <3>2
  <2>3. CopiesLinked
    <3> SUFFICES ASSUME NEW i \in Original(grid), NEW s \in Family(i) \ {i}
                 PROVE  /\ ngb[s][Inside] = s
                        /\ \A d \in Direction \ {Inside} :
                             IF ngb[i][d] = Outside THEN ngb[s][d] = Outside
                             ELSE ngb[s][d] \in Family(ngb[i][d])
      BY DEF CopiesLinked
    <3>1. s \in CopyBlock(grid, levels, i)
      BY FamiliesAre DEF FamilyOf
    <3>2. \A d \in Direction :
            ngb[s][d] = IF d = Inside THEN s
                        ELSE CopyNeighbour(levels, copies, i, s - copies[i] + 1, ngb[i][d])
      BY <2>1, <3>1 DEF LinkedCopies
    <3>3. Inside \in Direction
      BY DEF Inside, Direction
    <3>4. ASSUME NEW d \in Direction \ {Inside}
          PROVE  IF ngb[i][d] = Outside THEN ngb[s][d] = Outside
                 ELSE ngb[s][d] \in Family(ngb[i][d])
      <4> DEFINE j == ngb[i][d]
      <4>1. ngb[s][d] = CopyNeighbour(levels, copies, i, s - copies[i] + 1, j)
        BY <3>2
      <4>2. j \in Original(grid) \cup {Outside}
        BY <2>1 DEF Neighbours
      <4> HIDE DEF j
      <4>3. CASE j = Outside
        BY <4>1, <4>3 DEF CopyNeighbour, j
      <4>4. CASE j # Outside
        <5>1. j \in Original(grid)
          BY <4>2, <4>4
        <5>2. CopyNeighbour(levels, copies, i, s - copies[i] + 1, j) \in FamilyOf(grid, levels, j)
          BY <2>1, <3>1, <5>1, CopyNeighbourIs
        <5>3. ngb[s][d] \in Family(j)
          BY <4>1, <5>1, <5>2, FamiliesAre
        <5> QED
          BY <4>4, <5>3 DEF j
      <4> QED
        BY <4>3, <4>4
    <3> QED
      BY <3>2, <3>3, <3>4
  <2> QED
    BY <2>2, <2>3
<1> QED
  BY <1>1, TablesInit, TablesNext, PTL DEF Spec

-----------------------------------------------------------------------------
(* The copies of every subgrid have the same as their original.            *)
SameInCopies(g, lv, f) ==
  \A i \in Original(g) : \A s \in CopyBlock(g, lv, i) : f[s] = f[i]

(* The copies are fresh from the moment they are made or updated, until    *)
(* the originals are changed: in "ion" before the update of the copies, in *)
(* "rhd" before the hydro step and after the iterations.                   *)
FreshOK ==
  /\ DOMAIN state = Subgrid
  /\ scenario.program = "ion" /\ phase # "copies" => SameInCopies(grid, levels, state)
  /\ scenario.program = "rhd" /\ phase \in {"batches", "transport"} =>
       SameInCopies(grid, levels, state)

(* A copy has one original, and an original is no copy. *)
LEMMA OneOriginal ==
  ASSUME TablesOK
  PROVE  /\ \A i \in Original(grid) : i \in Subgrid /\ ~ IsCopy(i) /\ Copies(i) \subseteq Subgrid
         /\ \A i \in Original(grid) : \A s \in Copies(i) :
              s \in Subgrid /\ s \notin Original(grid) /\ IsCopy(s) /\ OriginalFor(s) = i
         /\ \A i \in Original(grid) : Copies(i) = CopyBlock(grid, levels, i)
<1>1. /\ IsGrid(grid) /\ levels \in Levels(grid) /\ originals = OriginalsOf(grid, levels)
      /\ Subgrid = Original(grid) \cup CopyRange(grid, levels)
  BY GridOfScenario DEF TablesOK, Subgrid
<1>2. Original(grid) \cap CopyRange(grid, levels) = {}
  BY <1>1, SubgridsAre
<1>3. \A i \in Original(grid) :
        /\ Copies(i) = CopyBlock(grid, levels, i)
        /\ Copies(i) \subseteq CopyRange(grid, levels)
        /\ \A s \in CopyRange(grid, levels) : originals[s - Count(grid) + 1] = i <=> s \in Copies(i)
  BY <1>1, FamiliesAre, BlockOfCopy
<1>4. ASSUME NEW i \in Original(grid), NEW s \in Copies(i) PROVE IsCopy(s) /\ OriginalFor(s) = i
  <2>1. \A h \in Original(grid) : s \in Copies(h) => h = i
    BY <1>3
  <2>2. IsCopy(s)
    BY DEF IsCopy
  <2>3. OriginalFor(s) \in Original(grid) /\ s \in Copies(OriginalFor(s))
    BY Zenon DEF OriginalFor
  <2> QED
    BY <2>1, <2>2, <2>3
<1>5. \A i \in Original(grid) : ~ IsCopy(i)
  BY <1>2, <1>3 DEF IsCopy
<1> QED
  BY <1>1, <1>2, <1>3, <1>4, <1>5

(* After an update every copy has the fractions of its original. *)
LEMMA UpdateRefreshes ==
  ASSUME TablesOK
  PROVE  /\ DOMAIN UpdatedState = Subgrid
         /\ SameInCopies(grid, levels, UpdatedState)
<1>1. ASSUME NEW i \in Original(grid), NEW s \in CopyBlock(grid, levels, i)
      PROVE  UpdatedState[s] = UpdatedState[i]
  <2>1. /\ i \in Subgrid /\ ~ IsCopy(i)
        /\ s \in Subgrid /\ IsCopy(s) /\ OriginalFor(s) = i
    BY OneOriginal
  <2> QED
    BY <2>1 DEF UpdatedState
<1> QED
  BY <1>1 DEF UpdatedState, SameInCopies

(* What a copy gets from its original when it is made. *)
LEMMA NewCopiesSame ==
  ASSUME TablesOK, TablesOK', grid' = grid, UpdateSources, NEW f
  PROVE  /\ DOMAIN OfOriginal(f) = Subgrid'
         /\ \A i \in Original(grid) : OfOriginal(f)[i] = f[i]
         /\ SameInCopies(grid, levels', OfOriginal(f))
<1>1. /\ IsGrid(grid) /\ levels' \in Levels(grid) /\ originals' = OriginalsOf(grid, levels')
      /\ DOMAIN ngb' = Original(grid) \cup CopyRange(grid, levels')
  BY GridOfScenario DEF TablesOK
<1>2. /\ Original(grid) \cap CopyRange(grid, levels') = {}
      /\ \A s \in DOMAIN ngb' : s < Count(grid) <=> s \in Original(grid)
  BY <1>1, SubgridsAre
<1>3. OfOriginal(f) = [s \in DOMAIN ngb' |->
                         f[IF s < Count(grid) THEN s ELSE originals'[s - Count(grid) + 1]]]
  BY DEF OfOriginal
<1>4. \A i \in Original(grid) : OfOriginal(f)[i] = f[i]
  BY <1>1, <1>2, <1>3
<1>5. ASSUME NEW i \in Original(grid), NEW s \in CopyBlock(grid, levels', i)
      PROVE  OfOriginal(f)[s] = f[i]
  <2>1. s \in CopyRange(grid, levels') /\ originals'[s - Count(grid) + 1] = i
    BY <1>1, BlockOfCopy
  <2>2. s \in DOMAIN ngb' /\ ~ (s < Count(grid))
    BY <1>1, <1>2, <2>1
  <2> QED
    BY <1>3, <2>1, <2>2
<1> QED
  BY <1>3, <1>4, <1>5 DEF SameInCopies, Subgrid

(* The fractions start without copies. *)
LEMMA FreshInit == Init => FreshOK
<1> SUFFICES ASSUME Init PROVE FreshOK
  OBVIOUS
<1>1. /\ scenario \in Scenarios /\ levels = [i \in Original(grid) |-> 0]
      /\ ngb = [i \in Original(grid) |-> NeighboursOf(grid, i)]
      /\ state = [i \in Original(grid) |-> 0]
  BY DEF Init
<1>2. \A i \in Original(grid) : CopyBlock(grid, levels, i) = {}
  BY <1>1, GridOfScenario, NoCopiesYet
<1> QED
  BY <1>1, <1>2 DEF FreshOK, SameInCopies, Subgrid

(* A copy is updated before it is used again. *)
LEMMA FreshNext == TablesOK /\ TablesOK' /\ FreshOK /\ [Next]_vars => FreshOK'
<1> SUFFICES ASSUME TablesOK, TablesOK', FreshOK, [Next]_vars PROVE FreshOK'
  OBVIOUS
<1>0. \A i \in Original(grid) : i \in Subgrid /\ \A s \in CopyBlock(grid, levels, i) : s \in Subgrid
  BY OneOriginal
<1>1. CASE UpdateSources
  <2>1. scenario' = scenario /\ state' = OfOriginal(state)
    BY <1>1 DEF UpdateSources
  <2>2. grid' = grid
    BY <2>1 DEF grid
  <2>3. DOMAIN state' = Subgrid' /\ SameInCopies(grid, levels', state')
    BY <1>1, <2>1, <2>2, NewCopiesSame
  <2> QED
    BY <2>2, <2>3 DEF FreshOK
<1>2. ASSUME UNCHANGED <<scenario, tables>>, DOMAIN state' = Subgrid,
             \/ SameInCopies(grid, levels, state')
             \/ scenario.program # "rhd" /\ phase' = "copies"
             \/ scenario.program # "ion" /\ phase' \notin {"batches", "transport"}
      PROVE  FreshOK'
  <2>1. grid' = grid /\ Subgrid' = Subgrid /\ levels' = levels /\ scenario' = scenario
    BY <1>2 DEF grid, Subgrid, tables
  <2> QED
    BY <1>2, <2>1 DEF FreshOK
<1>3. ASSUME UNCHANGED <<scenario, tables, state>>,
             phase' # "copies" => phase # "copies",
             phase' \in {"batches", "transport"} => phase \in {"batches", "transport"}
      PROVE  FreshOK'
  <2>1. grid' = grid /\ Subgrid' = Subgrid /\ levels' = levels /\ scenario' = scenario /\ state' = state
    BY <1>3 DEF grid, Subgrid, tables
  <2> QED
    BY <1>3, <2>1 DEF FreshOK
<1>4. scenario.program \in {"rhd", "ion"}
  BY ScenarioAssumption DEF TablesOK
<1>5. CASE NewSource
  <2>1. UNCHANGED <<scenario, tables>> /\ phase = "hydro" /\ phase' = "reset"
        /\ state' = IF scenario.program = "ion" THEN state
                    ELSE [s \in Subgrid |-> IF s < Count(grid) THEN state[s] + 1 ELSE state[s]]
    BY <1>5 DEF NewSource
  <2>2. CASE scenario.program = "ion"
    BY <1>3, <2>1, <2>2
  <2>3. CASE scenario.program # "ion"
    BY <1>2, <2>1, <2>3
  <2> QED
    BY <2>2, <2>3
<1>6. CASE StartIteration
  <2>1. UNCHANGED <<scenario, tables>> /\ phase = "reset"
        /\ state' = IF scenario.program = "rhd" THEN UpdatedState ELSE state
    BY <1>6 DEF StartIteration
  <2>2. CASE scenario.program = "rhd"
    BY <1>2, <2>1, <2>2, UpdateRefreshes
  <2>3. CASE scenario.program # "rhd"
    <3>1. SameInCopies(grid, levels, state)
      BY <1>4, <2>1, <2>3 DEF FreshOK
    <3> QED
      BY <1>2, <2>1, <2>3, <3>1 DEF FreshOK
  <2> QED
    BY <2>2, <2>3
<1>7. CASE CalculateTemperature
  <2>1. /\ UNCHANGED <<scenario, tables>>
        /\ state' = [s \in Subgrid |-> IF s < Count(grid) THEN state[s] + 1 ELSE state[s]]
        /\ phase' = IF scenario.program = "ion" THEN "copies" ELSE "next"
    BY <1>7 DEF CalculateTemperature
  <2> QED
    BY <1>2, <1>4, <2>1
<1>8. CASE UpdateCopyProperties
  <2>1. UNCHANGED <<scenario, tables>> /\ state' = UpdatedState
    BY <1>8 DEF UpdateCopyProperties
  <2> QED
    BY <1>2, <2>1, UpdateRefreshes
<1>9. CASE KeepSources
  BY <1>3, <1>9 DEF KeepSources
<1>10. CASE StartTransport
  BY <1>3, <1>10 DEF StartTransport
<1>11. CASE UpdateOriginalCounters
  BY <1>3, <1>11 DEF UpdateOriginalCounters
<1>12. CASE NextLoop
  BY <1>3, <1>12 DEF NextLoop
<1>13. CASE UNCHANGED <<scenario, tables, state, phase>>
  BY <1>3, <1>13
<1>14. CASE \/ GetPhotonBatch \/ Launch \/ End \/ UNCHANGED vars
            \/ \E p \in Packet : Cross(p) \/ CountPhoton(p) \/ Leave(p) \/ Absorb(p) \/ Reemit(p)
  <2>1. UNCHANGED <<scenario, tables, state, phase>>
    BY <1>14 DEF vars, GetPhotonBatch, Launch, Cross, CountPhoton, Leave, Absorb, Reemit, End
  <2> QED
    BY <1>13, <2>1
<1> QED
  BY <1>1, <1>5, <1>6, <1>7, <1>8, <1>9, <1>10, <1>11, <1>12, <1>14 DEF Next

(* While packets travel every copy has the ionic fractions of its          *)
(* original, in both programs: the opacity a packet sees does not depend   *)
(* on the copy it is in.                                                   *)
THEOREM CopiesUpToDate == Spec => []CopiesFresh
<1>1. TablesOK /\ FreshOK => CopiesFresh
  <2> SUFFICES ASSUME TablesOK, FreshOK, phase = "transport",
                      NEW i \in Original(grid), NEW s \in Family(i)
               PROVE  state[s] = state[i]
    BY DEF CopiesFresh
  <2>1. scenario.program \in {"rhd", "ion"}
    BY ScenarioAssumption DEF TablesOK
  <2>2. SameInCopies(grid, levels, state)
    BY <2>1 DEF FreshOK
  <2>3. s = i \/ s \in CopyBlock(grid, levels, i)
    BY FamiliesAre DEF FamilyOf
  <2> QED
    BY <2>2, <2>3 DEF SameInCopies
<1> QED
  BY <1>1, TablesInit, TablesNext, FreshInit, FreshNext, PTL DEF Spec

-----------------------------------------------------------------------------
(* A nonempty set of subsets of a finite set has a least one. *)
LEMMA LeastSet ==
  ASSUME NEW S, IsFiniteSet(S), NEW B \in SUBSET SUBSET S, B # {}
  PROVE  \E s \in B : \A r \in B : ~ (r \subseteq s /\ r # s)
<1>1. B \subseteq FiniteSubsetsOf(S)
  BY FS_Subset DEF FiniteSubsetsOf
<1>2. PICK s \in B : \A r \in B : ~ (<<r, s>> \in StrictSubsetOrdering(S))
  BY <1>1, WFMin, FS_StrictSubsetOrderingWellFounded
<1>3. ASSUME NEW r \in B, r \subseteq s, r # s PROVE FALSE
  BY <1>2, <1>3 DEF StrictSubsetOrdering
<1> QED
  BY <1>3

(* The element that is taken out of a set first, and what is left. *)
Taken(s) == CHOOSE x \in s : TRUE
Left(s) == s \ {Taken(s)}

(* What is left is less. *)
LEMMA LeftLess ==
  ASSUME NEW s, s # {}
  PROVE  Taken(s) \in s /\ Left(s) \subseteq s /\ Left(s) # s
<1>1. Taken(s) \in s
  BY DEF Taken
<1> QED
  BY <1>1 DEF Left

(* G adds up the values of f over each of the sets in its domain. *)
Adds(G, f) ==
  /\ G = [s \in DOMAIN G |-> G[s]]
  /\ \A s \in DOMAIN G :
       IF s = {} THEN G[s] = 0
       ELSE Left(s) \in DOMAIN G /\ G[s] = f[Taken(s)] + G[Left(s)]

(* There is only one way to do so. *)
LEMMA AddsAgree ==
  ASSUME NEW f, NEW S, IsFiniteSet(S), NEW G, NEW H, Adds(G, f), Adds(H, f),
         S \in DOMAIN G, S \in DOMAIN H
  PROVE  G[S] = H[S]
<1> DEFINE B == {s \in SUBSET S : s \in DOMAIN G /\ s \in DOMAIN H /\ G[s] # H[s]}
<1> SUFFICES ASSUME B # {} PROVE FALSE
  OBVIOUS
<1>1. PICK s \in B : \A r \in B : ~ (r \subseteq s /\ r # s)
  <2>1. B \in SUBSET SUBSET S
    OBVIOUS
  <2> HIDE DEF B
  <2> QED
    BY <2>1, LeastSet
<1>2. s # {}
  BY <1>1 DEF Adds
<1>3. Left(s) \in DOMAIN G /\ Left(s) \in DOMAIN H /\ G[Left(s)] # H[Left(s)]
  BY <1>1, <1>2 DEF Adds
<1>4. Left(s) \in B
  BY <1>1, <1>2, <1>3, LeftLess
<1> QED
  BY <1>1, <1>2, <1>4, LeftLess

(* And there is one. *)
LEMMA AddsExist ==
  ASSUME NEW f, NEW S, IsFiniteSet(S)
  PROVE  \E G : Adds(G, f) /\ S \in DOMAIN G
<1> DEFINE Has(s) == \E G : Adds(G, f) /\ s \in DOMAIN G
           B == {s \in SUBSET S : ~ Has(s)}
<1> SUFFICES ASSUME B # {} PROVE FALSE
  OBVIOUS
<1>1. PICK s \in B : \A r \in B : ~ (r \subseteq s /\ r # s)
  <2>1. B \in SUBSET SUBSET S
    OBVIOUS
  <2> HIDE DEF B
  <2> QED
    BY <2>1, LeastSet
<1>2. s # {}
  <2>1. Adds([r \in {{}} |-> 0], f)
    BY DEF Adds
  <2> QED
    BY <2>1, <1>1
<1>3. Left(s) \in SUBSET S /\ Left(s) \notin B
  BY <1>1, <1>2, LeftLess
<1>4. PICK G : Adds(G, f) /\ Left(s) \in DOMAIN G
  BY <1>3
<1>5. s \notin DOMAIN G
  BY <1>1, <1>4
<1> DEFINE H == [r \in DOMAIN G \cup {s} |-> IF r = s THEN f[Taken(s)] + G[Left(s)] ELSE G[r]]
<1>6. ASSUME NEW r \in DOMAIN H, r # {}
      PROVE  Left(r) \in DOMAIN H /\ H[r] = f[Taken(r)] + H[Left(r)]
  <2>1. CASE r = s
    BY <2>1, <1>4, <1>5, <1>2, LeftLess
  <2>2. CASE r # s
    BY <2>2, <1>4, <1>5, <1>6 DEF Adds
  <2> QED
    BY <2>1, <2>2
<1>7. Adds(H, f)
  <2>1. ASSUME NEW r \in DOMAIN H, r = {} PROVE H[r] = 0
    BY <2>1, <1>2, <1>4 DEF Adds
  <2>2. H = [r \in DOMAIN H |-> H[r]]
    OBVIOUS
  <2> HIDE DEF H
  <2> QED
    BY <1>6, <2>1, <2>2 DEF Adds
<1>8. s \in DOMAIN H
  OBVIOUS
<1> HIDE DEF H
<1> QED
  BY <1>7, <1>8, <1>1

(* The sum of the values of f on a set, with the operator of the library. *)
SumOf(f, S) == MapThenSumSet(LAMBDA s : f[s], S)

(* The sum of the library is that. *)
LEMMA SumAdds ==
  ASSUME NEW f, NEW S, IsFiniteSet(S)
  PROVE  \E G : Adds(G, f) /\ S \in DOMAIN G /\ SumOf(f, S) = G[S]
<1> DEFINE Of(s) == CHOOSE G : Adds(G, f) /\ s \in DOMAIN G
           Body(g) == [s \in SUBSET S |-> IF s = {} THEN 0
            ELSE f[CHOOSE x \in s : TRUE] + g[s \ {CHOOSE x \in s : TRUE}]]
           A == [s \in SUBSET S |-> Of(s)[s]]
<1>1. \A s \in SUBSET S : Adds(Of(s), f) /\ s \in DOMAIN Of(s)
  BY AddsExist, FS_Subset
<1>2. ASSUME NEW s \in SUBSET S, s # {} PROVE A[s] = f[Taken(s)] + A[Left(s)]
  <2>1. Left(s) \in SUBSET S
    BY <1>2, LeftLess
  <2>2. Left(s) \in DOMAIN Of(s) /\ Of(s)[s] = f[Taken(s)] + Of(s)[Left(s)]
    BY <1>1, <1>2 DEF Adds
  <2>3. Of(s)[Left(s)] = Of(Left(s))[Left(s)]
    <3> HIDE DEF Of
    <3> QED
      BY <2>1, <2>2, <1>1, AddsAgree, FS_Subset
  <2> QED
    BY <2>1, <2>2, <2>3
<1>3. ASSUME NEW s \in SUBSET S, s = {} PROVE A[s] = 0
  BY <1>1, <1>3 DEF Adds
<1>4. A = Body(A)
  <2> HIDE DEF Of
  <2>1. ASSUME NEW s \in SUBSET S
        PROVE  A[s] = IF s = {} THEN 0 ELSE f[CHOOSE x \in s : TRUE] + A[s \ {CHOOSE x \in s : TRUE}]
    <3> HIDE DEF A
    <3> QED
    BY <1>2, <1>3 DEF Taken, Left
  <2> QED
    BY <2>1
<1> DEFINE F == CHOOSE g : g = Body(g)
<1>5. F = Body(F)
  <2> HIDE DEF A, Body
  <2> QED
    BY <1>4
<1>6. SumOf(f, S) = F[S]
  BY DEF SumOf, MapThenSumSet, MapThenFoldSet
<1> HIDE DEF F
<1>7. Adds(F, f) /\ S \in DOMAIN F
  <2>1. DOMAIN F = SUBSET S /\ F = [s \in DOMAIN F |-> F[s]]
    BY <1>5
  <2>2. ASSUME NEW s \in SUBSET S PROVE F[s] = IF s = {} THEN 0 ELSE f[Taken(s)] + F[Left(s)]
    BY <1>5 DEF Taken, Left
  <2> QED
    BY <2>1, <2>2, LeftLess DEF Adds
<1> QED
  BY <1>6, <1>7

(* The sum over nothing is zero. *)
LEMMA SumEmpty ==
  ASSUME NEW f
  PROVE  SumOf(f, {}) = 0
<1>1. PICK G : Adds(G, f) /\ {} \in DOMAIN G /\ SumOf(f, {}) = G[{}]
  BY SumAdds, FS_EmptySet
<1> QED
  BY <1>1 DEF Adds

(* The sum over a set is that over the rest and the first element. *)
LEMMA SumLeft ==
  ASSUME NEW f, NEW S, IsFiniteSet(S), S # {}
  PROVE  SumOf(f, S) = f[Taken(S)] + SumOf(f, Left(S))
<1>1. PICK G : Adds(G, f) /\ S \in DOMAIN G /\ SumOf(f, S) = G[S]
  BY SumAdds
<1>2. IsFiniteSet(Left(S))
  BY LeftLess, FS_Subset
<1>3. PICK H : Adds(H, f) /\ Left(S) \in DOMAIN H /\ SumOf(f, Left(S)) = H[Left(S)]
  BY <1>2, SumAdds
<1>4. Left(S) \in DOMAIN G /\ G[S] = f[Taken(S)] + G[Left(S)]
  BY <1>1 DEF Adds
<1>5. G[Left(S)] = H[Left(S)]
  BY <1>1, <1>2, <1>3, <1>4, AddsAgree
<1> QED
  BY <1>1, <1>3, <1>4, <1>5

(* A sum of numbers is a number. *)
LEMMA SumNat ==
  ASSUME NEW f, NEW S, IsFiniteSet(S), \A x \in S : f[x] \in Nat
  PROVE  SumOf(f, S) \in Nat
<1> DEFINE B == {s \in SUBSET S : SumOf(f, s) \notin Nat}
<1> SUFFICES ASSUME B # {} PROVE FALSE
  OBVIOUS
<1>1. PICK s \in B : \A r \in B : ~ (r \subseteq s /\ r # s)
  <2>1. B \in SUBSET SUBSET S
    OBVIOUS
  <2> HIDE DEF B
  <2> QED
    BY <2>1, LeastSet
<1>2. s # {}
  <2>1. SumOf(f, {}) \in Nat
    BY SumEmpty
  <2> QED
    BY <1>1, <2>1
<1>3. Left(s) \in SUBSET S /\ Left(s) \notin B /\ Taken(s) \in S
  BY <1>1, <1>2, LeftLess
<1>4. SumOf(f, s) = f[Taken(s)] + SumOf(f, Left(s))
  BY <1>1, <1>2, SumLeft, FS_Subset
<1> QED
  BY <1>1, <1>3, <1>4

(* Whichever element is taken out, the sum is that of the others and it.   *)
LEMMA SumWithout ==
  ASSUME NEW f, NEW S, IsFiniteSet(S), \A x \in S : f[x] \in Nat, NEW x \in S
  PROVE  SumOf(f, S) = f[x] + SumOf(f, S \ {x})
<1> DEFINE B == {s \in SUBSET S : \E y \in s : SumOf(f, s) # f[y] + SumOf(f, s \ {y})}
<1> SUFFICES ASSUME B # {} PROVE FALSE
  OBVIOUS
<1>1. PICK s \in B : \A r \in B : ~ (r \subseteq s /\ r # s)
  <2>1. B \in SUBSET SUBSET S
    OBVIOUS
  <2> HIDE DEF B
  <2> QED
    BY <2>1, LeastSet
<1>2. PICK y \in s : SumOf(f, s) # f[y] + SumOf(f, s \ {y})
  BY <1>1
<1> DEFINE c == Taken(s)
           both == SumOf(f, s \ {c, y})
<1>3. s \in SUBSET S /\ s # {} /\ IsFiniteSet(s)
  BY <1>1, <1>2, FS_Subset
<1>4. c \in s /\ SumOf(f, s) = f[c] + SumOf(f, s \ {c})
  BY <1>3, SumLeft, LeftLess DEF Left
<1> HIDE DEF c
<1>5. c # y
  BY <1>2, <1>4
<1>6. s \ {c} \notin B /\ s \ {y} \notin B
  BY <1>1, <1>2, <1>4
<1>7. (s \ {c}) \ {y} = s \ {c, y} /\ (s \ {y}) \ {c} = s \ {c, y}
  OBVIOUS
<1>8. SumOf(f, s \ {c}) = f[y] + both /\ SumOf(f, s \ {y}) = f[c] + both
  BY <1>2, <1>3, <1>4, <1>5, <1>6, <1>7
<1>9. both \in Nat
  BY <1>3, SumNat, FS_Subset
<1> HIDE DEF both
<1> QED
  BY <1>2, <1>3, <1>4, <1>8, <1>9

(* Functions with the same values have the same sum. *)
LEMMA SumSame ==
  ASSUME NEW f, NEW g, NEW S, IsFiniteSet(S), \A x \in S : f[x] = g[x]
  PROVE  SumOf(f, S) = SumOf(g, S)
<1> DEFINE B == {s \in SUBSET S : SumOf(f, s) # SumOf(g, s)}
<1> SUFFICES ASSUME B # {} PROVE FALSE
  OBVIOUS
<1>1. PICK s \in B : \A r \in B : ~ (r \subseteq s /\ r # s)
  <2>1. B \in SUBSET SUBSET S
    OBVIOUS
  <2> HIDE DEF B
  <2> QED
    BY <2>1, LeastSet
<1>2. s # {}
  BY <1>1, SumEmpty
<1>3. Left(s) \in SUBSET S /\ Left(s) \notin B /\ Taken(s) \in S
  BY <1>1, <1>2, LeftLess
<1>4. SumOf(f, s) = f[Taken(s)] + SumOf(f, Left(s)) /\ SumOf(g, s) = g[Taken(s)] + SumOf(g, Left(s))
  BY <1>1, <1>2, SumLeft, FS_Subset
<1> QED
  BY <1>1, <1>3, <1>4

(* A sum of zeros is zero. *)
LEMMA SumZero ==
  ASSUME NEW f, NEW S, IsFiniteSet(S), \A x \in S : f[x] = 0
  PROVE  SumOf(f, S) = 0
<1> DEFINE B == {s \in SUBSET S : SumOf(f, s) # 0}
<1> SUFFICES ASSUME B # {} PROVE FALSE
  OBVIOUS
<1>1. PICK s \in B : \A r \in B : ~ (r \subseteq s /\ r # s)
  <2>1. B \in SUBSET SUBSET S
    OBVIOUS
  <2> HIDE DEF B
  <2> QED
    BY <2>1, LeastSet
<1>2. s # {}
  BY <1>1, SumEmpty
<1>3. Left(s) \in SUBSET S /\ Left(s) \notin B /\ Taken(s) \in S
  BY <1>1, <1>2, LeftLess
<1>4. SumOf(f, s) = f[Taken(s)] + SumOf(f, Left(s))
  BY <1>1, <1>2, SumLeft, FS_Subset
<1> QED
  BY <1>1, <1>3, <1>4

-----------------------------------------------------------------------------
(* The cells of the subgrids.                                              *)

(* The original of a subgrid. *)
OriginOf(s) == IF s < Count(grid) THEN s ELSE originals[s - Count(grid) + 1]

(* A subgrid is an original, or a copy of one. *)
LEMMA OriginIs ==
  ASSUME TablesOK, NEW s \in Subgrid
  PROVE  /\ OriginOf(s) \in Original(grid)
         /\ s \in Original(grid) => OriginOf(s) = s
         /\ s \notin Original(grid) => s \in Copies(OriginOf(s))
         /\ \A i \in Original(grid) : s \in Copies(i) => s \notin Original(grid) /\ OriginOf(s) = i
<1>1. /\ IsGrid(grid) /\ levels \in Levels(grid) /\ originals = OriginalsOf(grid, levels)
      /\ Subgrid = Original(grid) \cup CopyRange(grid, levels)
  BY GridOfScenario DEF TablesOK, Subgrid
<1>2. s < Count(grid) <=> s \in Original(grid)
  BY <1>1, SubgridsAre
<1>3. Original(grid) \cap CopyRange(grid, levels) = {}
  BY <1>1, SubgridsAre
<1>4. s \in Original(grid) => OriginOf(s) = s
  BY <1>2 DEF OriginOf
<1>5. s \notin Original(grid) =>
        /\ s \in CopyRange(grid, levels) /\ OriginOf(s) = originals[s - Count(grid) + 1]
        /\ OriginOf(s) \in Original(grid)
  BY <1>1, <1>2, OriginalOfCopy DEF OriginOf
<1>6. \A i \in Original(grid) :
        /\ Copies(i) \subseteq CopyRange(grid, levels)
        /\ \A c \in CopyRange(grid, levels) : originals[c - Count(grid) + 1] = i <=> c \in Copies(i)
  BY <1>1, FamiliesAre, BlockOfCopy
<1> QED
  BY <1>3, <1>4, <1>5, <1>6

(* The cells inside a subgrid are in the part of the box of its original.  *)
LEMMA CellInside ==
  ASSUME TablesOK, NEW s \in Subgrid, NEW c, IsInside(grid.cells, c)
  PROVE  SubgridAt([a \in Axis |-> Base(s)[a] + c[a]]) = OriginOf(s)
<1> DEFINE i == OriginOf(s)
           p == GridPosition(grid, i)
<1>1. IsGrid(grid) /\ i \in Original(grid)
  BY GridOfScenario, OriginIs DEF TablesOK
<1>2. p \in Positions(grid) /\ GridIndex(grid, p) = i
  BY <1>1, PositionIndex
<1>3. \A a \in Axis : Base(s)[a] = p[a] * grid.cells[a]
  BY DEF Base, OriginOf
<1> HIDE DEF i, p
<1>4. ASSUME NEW a \in Axis PROVE (Base(s)[a] + c[a]) \div grid.cells[a] = p[a]
  <2>1. p[a] \in Nat /\ grid.cells[a] \in Nat \ {0} /\ c[a] \in 0 .. grid.cells[a] - 1
    <3>1. p[a] \in 0 .. grid.n[a] - 1
      BY <1>2 DEF Positions
    <3>2. grid.cells[a] \in Nat \ {0}
      BY <1>1 DEF IsGrid
    <3>3. c[a] \in 0 .. grid.cells[a] - 1
      BY DEF IsInside
    <3> QED
      BY <3>1, <3>2, <3>3
  <2>2. (p[a] * grid.cells[a] + c[a]) \div grid.cells[a] = p[a]
    BY <2>1, Division
  <2> QED
    BY <1>3, <2>2
<1>5. p = [a \in Axis |-> p[a]]
  BY <1>2 DEF Positions
<1>6. [a \in Axis |-> [b \in Axis |-> Base(s)[b] + c[b]][a] \div grid.cells[a]] = p
  BY <1>4, <1>5
<1>7. SubgridAt([a \in Axis |-> Base(s)[a] + c[a]]) = GridIndex(grid, p)
  BY <1>6 DEF SubgridAt
<1> QED
  BY <1>2, <1>7 DEF i

(* The cell of a source is in a subgrid. *)
LEMMA SourceInside ==
  ASSUME scenario \in Scenarios, NEW d \in scenario.distributions, NEW k \in DOMAIN d
  PROVE  SubgridAt(d[k].at) \in Original(grid)
<1> DEFINE at == d[k].at
<1>1. IsGrid(grid)
  BY GridOfScenario
<1>2. at \in [Axis -> Nat] /\ \A a \in Axis : at[a] < grid.n[a] * grid.cells[a]
  <2>1. /\ d \in Seq([at : [Axis -> Nat], number : Nat])
        /\ \A h \in DOMAIN d, a \in Axis : d[h].at[a] < scenario.grid.n[a] * scenario.grid.cells[a]
    BY ScenarioAssumption
  <2> DEFINE E == [at : [Axis -> Nat], number : Nat]
  <2>3. d \in Seq(E)
    BY <2>1
  <2> HIDE DEF E
  <2>4. d[k] \in E
    BY <2>3
  <2>2. d[k] \in [at : [Axis -> Nat], number : Nat]
    BY <2>4 DEF E
  <2> QED
    BY <2>1, <2>2 DEF grid
<1> HIDE DEF at
<1>3. ASSUME NEW a \in Axis PROVE at[a] \div grid.cells[a] \in 0 .. grid.n[a] - 1
  <2> DEFINE m == grid.cells[a]
             n == grid.n[a]
             x == at[a]
             q == x \div m
             r == x % m
  <2>1. m \in Nat \ {0} /\ n \in Nat /\ x \in Nat /\ x < n * m
    BY <1>1, <1>2 DEF IsGrid
  <2> HIDE DEF m, n, x
  <2>2. q \in Nat /\ r \in 0 .. m - 1 /\ x = q * m + r
    BY <2>1, DivisionBack
  <2> HIDE DEF q, r
  <2>3. q < n
    BY <2>1, <2>2, BelowProduct
  <2>4. q \in 0 .. n - 1
    BY <2>1, <2>2, <2>3
  <2> QED
    BY <2>4 DEF q, m, n, x
<1>4. [a \in Axis |-> at[a] \div grid.cells[a]] \in Positions(grid)
  BY <1>3 DEF Positions
<1>5. SubgridAt(at) \in Original(grid)
  BY <1>1, <1>4, IndexPosition DEF SubgridAt
<1> QED
  BY <1>5 DEF at

(* A cell index that is out of a subgrid gives a direction. *)
LEMMA OutputType ==
  ASSUME NEW cells, NEW p
  PROVE  OutputDirection(cells, p) \in Direction
<1> DEFINE Bits(a) == IF p[a] < 0 THEN 1 ELSE IF p[a] \div cells[a] > 0 THEN 2 ELSE 0
           mask    == 16 * Bits(1) + 4 * Bits(2) + Bits(3)
<1>1. OutputDirection(cells, p)
        = IF mask = 0 THEN Inside ELSE CHOOSE d \in DOMAIN MaskOf : MaskOf[d] = mask
  BY DEF OutputDirection
<1>2. \A a \in Axis : Bits(a) \in {0, 1, 2}
  OBVIOUS
<1>3. mask \in {0, 1, 2, 4, 5, 6, 8, 9, 10, 16, 17, 18, 20, 21, 22, 24, 25, 26,
                32, 33, 34, 36, 37, 38, 40, 41, 42}
  <2>1. Bits(1) \in {0, 1, 2} /\ Bits(2) \in {0, 1, 2} /\ Bits(3) \in {0, 1, 2}
    OBVIOUS
  <2> HIDE DEF Bits
  <2> QED
    BY <2>1
<1> HIDE DEF mask
<1>4. DOMAIN MaskOf = 1 .. 26
  BY DEF MaskOf
<1>5. ASSUME mask # 0 PROVE \E d \in 1 .. 26 : MaskOf[d] = mask
  <2>1. /\ MaskOf[1] = 42 /\ MaskOf[2] = 41 /\ MaskOf[3] = 38 /\ MaskOf[4] = 37
        /\ MaskOf[5] = 26 /\ MaskOf[6] = 25 /\ MaskOf[7] = 22 /\ MaskOf[8] = 21
        /\ MaskOf[9] = 10 /\ MaskOf[10] = 9 /\ MaskOf[11] = 6 /\ MaskOf[12] = 5
        /\ MaskOf[13] = 34 /\ MaskOf[14] = 33 /\ MaskOf[15] = 18 /\ MaskOf[16] = 17
        /\ MaskOf[17] = 40 /\ MaskOf[18] = 36 /\ MaskOf[19] = 24 /\ MaskOf[20] = 20
        /\ MaskOf[21] = 32 /\ MaskOf[22] = 16 /\ MaskOf[23] = 8 /\ MaskOf[24] = 4
        /\ MaskOf[25] = 2 /\ MaskOf[26] = 1
    BY DEF MaskOf
  <2> QED
    BY <1>3, <1>5, <2>1
<1>6. mask # 0 => (CHOOSE d \in DOMAIN MaskOf : MaskOf[d] = mask) \in 1 .. 26
  BY <1>4, <1>5
<1> QED
  BY <1>1, <1>6 DEF Inside, Direction

(* The neighbour of a subgrid is a subgrid, or outside the box. *)
LEMMA NeighbourType ==
  ASSUME TablesOK, NEW s \in Subgrid, NEW d \in Direction
  PROVE  ngb[s][d] \in Subgrid \cup {Outside}
<1>1. Subgrid = Original(grid) \cup CopyRange(grid, levels)
  BY DEF TablesOK, Subgrid
<1>2. CASE s \in Original(grid)
  BY <1>1, <1>2 DEF TablesOK, Neighbours
<1>3. CASE s \notin Original(grid)
  <2> DEFINE i == OriginOf(s)
             j == ngb[i][d]
  <2>1. i \in Original(grid) /\ s \in CopyBlock(grid, levels, i)
    BY <1>3, OriginIs, FamiliesAre
  <2> HIDE DEF i
  <2>2. /\ IsGrid(grid) /\ levels \in Levels(grid) /\ OffsetsOK(grid, levels, copies)
        /\ LinkedCopies(grid, levels, copies, ngb) /\ ngb[i] \in Neighbours(grid)
    BY <2>1, GridOfScenario DEF TablesOK
  <2>3. ngb[s][d] = IF d = Inside THEN s ELSE CopyNeighbour(levels, copies, i, s - copies[i] + 1, j)
    BY <2>1, <2>2 DEF LinkedCopies
  <2>4. j \in Original(grid) \cup {Outside}
    BY <2>2 DEF Neighbours
  <2> HIDE DEF j
  <2>5. CASE d = Inside
    BY <2>3, <2>5
  <2>6. CASE d # Inside /\ j = Outside
    BY <2>3, <2>6 DEF CopyNeighbour
  <2>7. CASE d # Inside /\ j # Outside
    <3>1. j \in Original(grid)
      BY <2>4, <2>7
    <3>2. CopyNeighbour(levels, copies, i, s - copies[i] + 1, j) \in FamilyOf(grid, levels, j)
      BY <2>1, <2>2, <3>1, CopyNeighbourIs
    <3>3. FamilyOf(grid, levels, j) \subseteq Subgrid
      BY <1>1, <2>2, <3>1, BlockOfCopy DEF FamilyOf
    <3> QED
      BY <2>3, <2>7, <3>2, <3>3
  <2> QED
    BY <2>5, <2>6, <2>7
<1> QED
  BY <1>2, <1>3

-----------------------------------------------------------------------------
(* The length of a sequence that is given as a function. *)
LEMMA LenIs ==
  ASSUME NEW n \in Nat, NEW s, DOMAIN s = 1 .. n
  PROVE  Len(s) = n
  BY DEF Len

(* The number of copies in a block. *)
LEMMA BlockSize ==
  ASSUME NEW g, IsGrid(g), NEW lv \in Levels(g), NEW i \in Original(g)
  PROVE  IsFiniteSet(CopyBlock(g, lv, i)) /\ Cardinality(CopyBlock(g, lv, i)) = Copied(lv, i)
<1> DEFINE X == CopyBlock(g, lv, i)
<1>1. IsFiniteSet(X \cup {i}) /\ Cardinality(X \cup {i}) = Pow2[lv[i]]
  <2>1. X \cup {i} = FamilyOf(g, lv, i)
    BY DEF FamilyOf
  <2> HIDE DEF X
  <2> QED
    BY <2>1, FamilySize
<1>2. X \subseteq CopyRange(g, lv) /\ Copied(lv, i) = Pow2[lv[i]] - 1
  BY BlockOfCopy
<1>3. i \notin X
  BY <1>2, SubgridsAre
<1> HIDE DEF X
<1>4. IsFiniteSet(X)
  BY <1>1, FS_Subset
<1>5. Cardinality(X \cup {i}) = Cardinality(X) + 1 /\ Cardinality(X) \in Nat
  BY <1>3, <1>4, FS_AddElement, FS_CardinalityType
<1>6. Cardinality(X) = Copied(lv, i)
  <2> HIDE DEF Pow2
  <2> QED
    BY <1>1, <1>2, <1>5
<1> QED
  BY <1>4, <1>6 DEF X

(* The parts of a source are in a subgrid and its copies. *)
LEMMA PartType ==
  ASSUME TablesOK, NEW d \in scenario.distributions, NEW k \in DOMAIN d
  PROVE  \E n \in Nat \ {0} : Part(d[k]) \in [1 .. n -> Subgrid]
<1> DEFINE i == SubgridAt(d[k].at)
           n == Cardinality(Copies(i)) + 1
           part == [j \in 1 .. n |-> IF j = 1 THEN i ELSE copies[i] + j - 2]
<1>1. /\ IsGrid(grid) /\ levels \in Levels(grid) /\ OffsetsOK(grid, levels, copies)
      /\ Subgrid = Original(grid) \cup CopyRange(grid, levels)
  BY GridOfScenario DEF TablesOK, Subgrid
<1>2. i \in Original(grid)
  BY SourceInside DEF TablesOK
<1>3. Part(d[k]) = part
  BY Zenon DEF Part
<1> HIDE DEF i
<1>4. Cardinality(Copies(i)) = Copied(levels, i) /\ Copied(levels, i) \in Nat
  BY <1>1, <1>2, BlockSize, FamiliesAre, BlockOfCopy
<1>5. /\ First(grid, levels, i) \in Nat
      /\ CopyBlock(grid, levels, i) \subseteq Subgrid
      /\ CopyBlock(grid, levels, i)
           = First(grid, levels, i) .. First(grid, levels, i) + Copied(levels, i) - 1
  BY <1>1, <1>2, BlockOfCopy DEF CopyBlock
<1>6. Copied(levels, i) # 0 => copies[i] = First(grid, levels, i)
  <2>1. levels[i] \in Nat /\ (Copied(levels, i) = 0 <=> levels[i] = 0)
    BY <1>1, <1>2, CopiedIs DEF Levels
  <2> QED
    BY <1>1, <1>2, <2>1 DEF OffsetsOK
<1>7. ASSUME NEW j \in 1 .. n, j # 1 PROVE copies[i] + j - 2 \in Subgrid
  <2> DEFINE c == Copied(levels, i)
             f == First(grid, levels, i)
  <2>1. c \in Nat /\ f \in Nat /\ j \in 1 .. c + 1
    BY <1>4, <1>5
  <2>2. c # 0 => copies[i] = f
    BY <1>6
  <2>3. f .. f + c - 1 \subseteq Subgrid
    BY <1>5
  <2> HIDE DEF c, f
  <2>4. c # 0 /\ f + j - 2 \in f .. f + c - 1
    BY <2>1, <1>7
  <2> QED
    BY <2>2, <2>3, <2>4
<1>8. n \in Nat \ {0}
  BY <1>4
<1> HIDE DEF n
<1>9. part \in [1 .. n -> Subgrid]
  BY <1>1, <1>2, <1>7
<1> QED
  BY <1>3, <1>8, <1>9

(* The cells of a subgrid, and those around it that a packet leaves it to. *)
Inner == {c \in [Axis -> Int] : IsInside(grid.cells, c)}
Around == {c \in [Axis -> Int] : \A a \in Axis : c[a] \in -1 .. grid.cells[a]}

(* The part of a source in one subgrid. *)
IsPart(r) ==
  /\ DOMAIN r = {"subgrid", "cell", "total", "done"}
  /\ r.subgrid \in Subgrid /\ r.cell \in Inner /\ r.total \in Int /\ r.done \in Int

(* A source that is divided over subgrids. *)
IsSource(src) ==
  \E n \in Nat \ {0} :
    /\ DOMAIN src = 1 .. n /\ src = [j \in 1 .. n |-> src[j]]
    /\ \A j \in 1 .. n : IsPart(src[j])

(* The numbers of packets of the sources add up to a number. *)
LEMMA GivenType ==
  ASSUME scenario \in Scenarios, NEW d \in scenario.distributions
  PROVE  /\ DOMAIN d = 1 .. Len(d) /\ Len(d) \in Nat \ {0}
         /\ \A k \in DOMAIN d : d[k].number \in Nat /\ d[k].at \in [Axis -> Nat]
         /\ SumOf([k \in DOMAIN d |-> d[k].number], DOMAIN d) \in Nat
<1> DEFINE E == [at : [Axis -> Nat], number : Nat]
           f == [k \in DOMAIN d |-> d[k].number]
           n == Len(d)
<1>1. d # <<>> /\ d \in Seq(E)
  BY ScenarioAssumption
<1> HIDE DEF E
<1>2. DOMAIN d = 1 .. n /\ n \in Nat \ {0} /\ \A k \in DOMAIN d : d[k] \in E
  BY <1>1
<1>3. \A k \in DOMAIN d : d[k].number \in Nat /\ d[k].at \in [Axis -> Nat]
  BY <1>2 DEF E
<1>4. \A k \in DOMAIN d : f[k] \in Nat
  BY <1>3
<1> HIDE DEF f, n
<1>5. IsFiniteSet(DOMAIN d)
  <2>1. IsFiniteSet(1 .. n)
    BY <1>2, FS_Interval
  <2> QED
    BY <1>2, <2>1
<1>6. SumOf(f, DOMAIN d) \in Nat
  BY <1>4, <1>5, SumNat
<1> QED
  BY <1>2, <1>3, <1>6 DEF f, n

(* The cell of a source is one of its subgrid. *)
LEMMA CellOfInner ==
  ASSUME scenario \in Scenarios, NEW c \in [Axis -> Nat]
  PROVE  CellOf(c) \in Inner
<1>1. grid.cells \in [Axis -> Nat \ {0}]
  BY GridOfScenario DEF IsGrid
<1>2. ASSUME NEW a \in Axis PROVE c[a] % grid.cells[a] \in 0 .. grid.cells[a] - 1
  <2>1. c[a] \in Nat /\ grid.cells[a] \in Nat \ {0}
    BY <1>1
  <2> QED
    BY <2>1, DivisionBack
<1>3. \A a \in Axis : c[a] % grid.cells[a] \in Int
  BY <1>2
<1> QED
  BY <1>2, <1>3 DEF Inner, CellOf, IsInside

(* The source is divided over subgrids, at least one. *)
LEMMA SourceMade ==
  ASSUME TablesOK, distribution \in scenario.distributions, MakeSource
  PROVE  IsSource(source')
<1> DEFINE d == distribution
           n == Len(d)
           s == [k \in DOMAIN d |-> PartsOf(d[k])]
           E == [subgrid : Subgrid, cell : Inner, total : Nat, done : {0}]
           f == [k \in 1 .. n |-> Len(s[k])]
<1>1. n \in Nat \ {0} /\ DOMAIN d = 1 .. n
  <2>1. d # <<>> /\ d \in Seq([at : [Axis -> Nat], number : Nat])
    BY ScenarioAssumption DEF TablesOK
  <2> QED
    BY <2>1
<1>2. ASSUME NEW k \in DOMAIN d PROVE s[k] \in Seq(E) /\ Len(s[k]) \in Nat \ {0}
  <2> DEFINE part == Part(d[k])
  <2>1. PICK m \in Nat \ {0} : part \in [1 .. m -> Subgrid]
    BY PartType
  <2>2. s[k] = [j \in DOMAIN part |->
                 [subgrid |-> part[j], cell |-> CellOf(d[k].at),
                  total |-> Share(d[k].number, Len(part), j), done |-> 0]]
    BY Zenon DEF PartsOf
  <2>3. DOMAIN part = 1 .. m
    BY <2>1
  <2>4. ASSUME NEW j \in 1 .. m
        PROVE  /\ part[j] \in Subgrid /\ CellOf(d[k].at) \in Inner
               /\ Share(d[k].number, Len(part), j) \in Nat
    <3>1. part[j] \in Subgrid
      BY <2>1
    <3>2. d[k].number \in Nat /\ d[k].at \in [Axis -> Nat]
      BY GivenType DEF TablesOK
    <3>3. CellOf(d[k].at) \in Inner
      BY <3>2, CellOfInner DEF TablesOK
    <3>4. Share(d[k].number, Len(part), j) \in Nat
      <4>1. Len(part) = m
        BY <2>3, LenIs
      <4>2. d[k].number \div m \in Nat
        BY <2>1, <3>2, DivisionBack
      <4> QED
        BY <4>1, <4>2 DEF Share
    <3> QED
      BY <3>1, <3>3, <3>4
  <2> HIDE DEF part, s
  <2>5. s[k] \in [1 .. m -> E]
    BY <2>2, <2>3, <2>4
  <2> HIDE DEF E
  <2> QED
    BY <2>1, <2>5
<1>3. s \in [1 .. n -> Seq(E)] /\ f \in [1 .. n -> Nat]
  <2>1. s = [k \in 1 .. n |-> s[k]]
    BY <1>1
  <2> HIDE DEF s, E
  <2> QED
    BY <1>1, <1>2, <2>1
<1> DEFINE parts == FlattenSeq(s)
<1>4. PICK b : Begins(b, f, n)
  <2> HIDE DEF f, n
  <2>1. PICK G : Sums(G, f, n)
    BY <1>1, SumsExist
  <2>2. Begins(G, f, n)
    BY <1>1, <1>3, <2>1, SumsBegin
  <2> QED
    BY <2>2
<1>5. Blocks(parts, s, n, b, E)
  <2> HIDE DEF s, E, n
  <2> QED
    BY <1>1, <1>3, <1>4, FlattenBlocks
<1>6. parts \in Seq(E) /\ Len(parts) = b[n]
  BY <1>5 DEF Blocks
<1>7. b[n] # 0
  <2>1. b[1] = b[0] + f[1] /\ b[0] = 0 /\ f[1] = Len(s[1])
    BY <1>1, <1>4 DEF Begins
  <2>2. f[1] \in Nat \ {0}
    <3>1. 1 \in DOMAIN d
      BY <1>1
    <3> HIDE DEF f, s, E, d
    <3>2. Len(s[1]) \in Nat \ {0}
      BY <1>2, <3>1
    <3> QED
      BY <2>1, <3>2
  <2>3. b[1] <= b[n]
    <3> HIDE DEF f, n
    <3>1. 1 \in 0 .. n /\ n \in 1 .. n
      BY <1>1
    <3> QED
      BY <1>1, <1>3, <1>4, <3>1, BeginsOrdered
  <2>4. b[n] \in Nat
    BY <1>1, <1>4 DEF Begins
  <2> HIDE DEF f, s, n
  <2> QED
    BY <2>1, <2>2, <2>3, <2>4
<1>8. \E N \in [DOMAIN parts -> Nat] :
        source' = [j \in DOMAIN parts |-> [parts[j] EXCEPT !.total = @ + N[j]]]
  <2> DEFINE Size(k) == Len(Part(distribution[k]))
             Before(k) == FoldLeft(LAMBDA sum, h : sum + Size(h), 0, [h \in 1 .. k - 1 |-> h])
             overhead == [k \in DOMAIN distribution |->
                            Before(k) + (distribution[k].number % Size(k)) + 1]
             number == [k \in DOMAIN distribution |-> distribution[k].number]
             given == MapThenSumSet(LAMBDA k : number[k], DOMAIN number)
             lost == 1 .. scenario.packets - given
             More(who, j) == Cardinality({h \in lost : overhead[who[h]] = j})
  <2>1. PICK who \in [lost -> DOMAIN distribution] :
          source' = [j \in DOMAIN parts |-> [parts[j] EXCEPT !.total = @ + More(who, j)]]
    BY Zenon DEF MakeSource
  <2>2. given \in Nat
    <3>1. given = SumOf(number, DOMAIN number)
      BY Zenon DEF SumOf
    <3>2. SumOf(number, DOMAIN distribution) \in Nat
      BY GivenType DEF TablesOK
    <3>3. DOMAIN number = DOMAIN distribution
      OBVIOUS
    <3> HIDE DEF number, given
    <3> QED
      BY <3>1, <3>2, <3>3
  <2>3. IsFiniteSet(lost)
    <3>1. scenario.packets \in Nat
      BY GridOfScenario DEF TablesOK
    <3> HIDE DEF given
    <3>2. 1 \in Int /\ scenario.packets - given \in Int
      BY <2>2, <3>1
    <3> QED
      BY <3>2, FS_Interval
  <2> HIDE DEF lost, overhead
  <2>4. \A j : More(who, j) \in Nat
    <3> SUFFICES ASSUME NEW j PROVE More(who, j) \in Nat
      OBVIOUS
    <3>1. {h \in lost : overhead[who[h]] = j} \subseteq lost
      OBVIOUS
    <3> QED
      BY <2>3, <3>1, FS_Subset, FS_CardinalityType
  <2> DEFINE N == [i \in DOMAIN parts |-> More(who, i)]
  <2> HIDE DEF More, parts
  <2>5. source' = [j \in DOMAIN parts |-> [parts[j] EXCEPT !.total = @ + N[j]]]
    BY <2>1
  <2>6. N \in [DOMAIN parts -> Nat]
    BY <2>4
  <2> HIDE DEF N
  <2> QED
    BY <2>5, <2>6
<1>9. Len(parts) \in Nat \ {0} /\ DOMAIN parts = 1 .. Len(parts)
      /\ \A j \in 1 .. Len(parts) : parts[j] \in E
  <2> HIDE DEF parts, E
  <2> QED
    BY <1>6, <1>7
<1> HIDE DEF parts
<1>10. PICK N \in [DOMAIN parts -> Nat] :
        source' = [j \in DOMAIN parts |-> [parts[j] EXCEPT !.total = @ + N[j]]]
  BY <1>8
<1>11. ASSUME NEW j \in 1 .. Len(parts) PROVE IsPart(source'[j])
  <2>1. source'[j] = [parts[j] EXCEPT !.total = @ + N[j]] /\ parts[j] \in E /\ N[j] \in Nat
    BY <1>9, <1>10
  <2> QED
    BY <2>1 DEF IsPart
<1> QED
  BY <1>9, <1>10, <1>11 DEF IsSource

-----------------------------------------------------------------------------
(* The source tasks are about sources. *)
TasksFit(src, ts) ==
  \E S : ts \in Seq(S) /\ \A t \in S : t.source \in DOMAIN src /\ t.number \in Nat

(* The sources of a radiation step are those of a scenario, the source of  *)
(* an iteration is divided over subgrids, and source tasks are made and    *)
(* done in the iteration.                                                  *)
SourcesOK ==
  /\ steps \in Nat
  /\ phase # "sources" => steps # 0
  /\ steps # 0 => distribution \in scenario.distributions
  /\ phase \notin {"sources", "hydro"} => IsSource(source)
  /\ phase = "batches" => cursor \in DOMAIN source
  /\ phase \in {"batches", "transport"} => TasksFit(source, tasks)
  /\ phase \notin {"batches", "transport"} => tasks = <<>>

(* A source stays one when its numbers change. *)
LEMMA SourceStays ==
  ASSUME NEW src, NEW new, IsSource(src), new = [j \in DOMAIN src |-> new[j]],
         \A j \in DOMAIN src :
           new[j] = src[j] \/ \E x \in Int : new[j] = [src[j] EXCEPT !.done = x]
  PROVE  IsSource(new) /\ DOMAIN new = DOMAIN src
<1>1. PICK n \in Nat \ {0} : DOMAIN src = 1 .. n /\ \A j \in 1 .. n : IsPart(src[j])
  BY DEF IsSource
<1>2. ASSUME NEW j \in 1 .. n PROVE IsPart(new[j])
  <2>1. new[j] = src[j] \/ \E x \in Int : new[j] = [src[j] EXCEPT !.done = x]
    BY <1>1
  <2>2. IsPart(src[j])
    BY <1>1
  <2> QED
    BY <2>1, <2>2 DEF IsPart
<1>3. DOMAIN new = 1 .. n /\ new = [j \in 1 .. n |-> new[j]]
  BY <1>1
<1> QED
  BY <1>1, <1>2, <1>3 DEF IsSource

(* In the beginning there are no sources. *)
LEMMA SourcesInit == Init => SourcesOK
  BY DEF Init, SourcesOK

(* Sources are set before they are used. *)
LEMMA SourcesNext == TablesOK /\ SourcesOK /\ [Next]_vars => SourcesOK'
<1> SUFFICES ASSUME TablesOK, SourcesOK, [Next]_vars PROVE SourcesOK'
  OBVIOUS
<1>1. ASSUME UNCHANGED <<scenario, steps, tables, sources>>,
             phase' = "sources" => phase \notin {"batches", "transport"},
             phase' # "sources" => phase # "sources",
             phase' \notin {"sources", "hydro"} => phase \notin {"sources", "hydro"},
             phase' = "batches" => phase = "batches",
             phase' \in {"batches", "transport"} <=> phase \in {"batches", "transport"}
      PROVE  SourcesOK'
  BY <1>1 DEF SourcesOK, sources, tables, IsSource, IsPart, Inner, grid, Subgrid
<1>2. CASE UpdateSources
  BY <1>2 DEF UpdateSources, SourcesOK
<1>3. CASE KeepSources
  BY <1>3 DEF KeepSources, SourcesOK, sources
<1>4. CASE NewSource
  <2>1. distribution \in scenario.distributions /\ tasks = <<>> /\ steps \in Nat /\ steps # 0
    BY <1>4 DEF SourcesOK, NewSource
  <2>2. IsSource(source')
    BY <1>4, <2>1, SourceMade DEF NewSource
  <2>3. /\ UNCHANGED <<scenario, steps, tables, distribution, tasks>> /\ phase' = "reset"
    BY <1>4 DEF NewSource
  <2> QED
    BY <2>1, <2>2, <2>3 DEF SourcesOK, tables, IsSource, IsPart, Inner, grid, Subgrid
<1>5. CASE StartIteration
  <2>1. /\ phase = "reset" /\ phase' = "batches" /\ cursor' = 1
        /\ source' = [j \in DOMAIN source |-> [source[j] EXCEPT !.done = 0]]
        /\ UNCHANGED <<scenario, steps, tables, distribution, tasks>>
    BY <1>5 DEF StartIteration
  <2>2. IsSource(source) /\ tasks = <<>>
    BY <2>1 DEF SourcesOK
  <2>3. IsSource(source') /\ DOMAIN source' = DOMAIN source
    <3>1. source' = [j \in DOMAIN source |-> source'[j]]
      BY <2>1
    <3>2. ASSUME NEW j \in DOMAIN source
          PROVE  source'[j] = source[j] \/ \E x \in Int : source'[j] = [source[j] EXCEPT !.done = x]
      <4>1. source'[j] = [source[j] EXCEPT !.done = 0] /\ 0 \in Int
        BY <2>1
      <4> QED
        BY <4>1
    <3> QED
      BY <2>2, <3>1, <3>2, SourceStays
  <2>4. 1 \in DOMAIN source
    BY <2>2 DEF IsSource
  <2>5. TasksFit(source', <<>>)
    <3> DEFINE S == {}
    <3>1. <<>> \in Seq(S) /\ \A t \in S : t.source \in DOMAIN source' /\ t.number \in Nat
      OBVIOUS
    <3> HIDE DEF S
    <3> QED
      BY <3>1 DEF TasksFit
  <2> QED
    BY <2>1, <2>2, <2>3, <2>4, <2>5 DEF SourcesOK, tables, IsSource, IsPart, Inner, grid, Subgrid
<1>6. CASE GetPhotonBatch
  <2> DEFINE n == BatchSize(cursor)
  <2>1. /\ phase = "batches" /\ phase' = "batches"
        /\ source' = [source EXCEPT ![cursor].done = @ + n]
        /\ tasks' = IF n > 0 THEN Append(tasks, [source |-> cursor, number |-> n]) ELSE tasks
        /\ cursor' = (cursor % Len(source)) + 1
        /\ UNCHANGED <<scenario, steps, tables, distribution>>
    BY <1>6, Zenon DEF GetPhotonBatch
  <2>2. IsSource(source) /\ cursor \in DOMAIN source
    BY <2>1 DEF SourcesOK
  <2>6. n \in Int /\ source[cursor].done + n \in Int
    <3>1. IsPart(source[cursor])
      BY <2>2 DEF IsSource
    <3>2. source[cursor].total \in Int /\ source[cursor].done \in Int
      BY <3>1 DEF IsPart
    <3>3. scenario.batch \in Int
      BY GridOfScenario DEF TablesOK
    <3>4. n \in Int
      BY <3>2, <3>3 DEF BatchSize
    <3> HIDE DEF n
    <3> QED
      BY <3>2, <3>4
  <2> HIDE DEF n
  <2>3. IsSource(source') /\ DOMAIN source' = DOMAIN source
    <3>1. source' = [j \in DOMAIN source |-> source'[j]]
      BY <2>1, <2>2 DEF IsSource
    <3>2. ASSUME NEW j \in DOMAIN source 
          PROVE  source'[j] = source[j] \/ \E x \in Int : source'[j] = [source[j] EXCEPT !.done = x]
      <4>1. CASE j = cursor
        <5> DEFINE x == source[cursor].done + n
        <5>1. source'[j] = [source[j] EXCEPT !.done = x]
          BY <2>1, <2>2, <4>1
        <5>2. x \in Int
          BY <2>6
        <5> HIDE DEF x
        <5> QED
          BY <5>1, <5>2
      <4>2. CASE j # cursor
        BY <2>1, <4>2
      <4> QED
        BY <4>1, <4>2
    <3> QED
      BY <2>2, <3>1, <3>2, SourceStays
  <2>4. cursor' \in DOMAIN source
    <3>1. PICK m \in Nat \ {0} : DOMAIN source = 1 .. m
      BY <2>2 DEF IsSource
    <3>2. Len(source) = m
      BY <3>1, LenIs
    <3>3. (cursor % m) + 1 \in 1 .. m
      <4>1. cursor \in Nat
        BY <2>2, <3>1
      <4> QED
        BY <3>1, <4>1
    <3> QED
      BY <2>1, <3>1, <3>2, <3>3
  <2>5. TasksFit(source', tasks')
    <3>1. PICK S : tasks \in Seq(S) /\ \A t \in S : t.source \in DOMAIN source /\ t.number \in Nat
      BY <2>1 DEF SourcesOK, TasksFit
    <3> DEFINE new == [source |-> cursor, number |-> n]
               T == S \cup {new}
    <3>2. CASE n > 0
      <4>1. tasks' = Append(tasks, new)
        BY <2>1, <3>2
      <4>2. tasks' \in Seq(T)
        <5>1. tasks \in Seq(T) /\ new \in T
          BY <3>1
        <5> HIDE DEF new, T
        <5> QED
          BY <4>1, <5>1
      <4>3. \A t \in T : t.source \in DOMAIN source' /\ t.number \in Nat
        BY <2>2, <2>3, <2>6, <3>1, <3>2
      <4> HIDE DEF T
      <4> QED
        BY <4>2, <4>3 DEF TasksFit
    <3>3. CASE ~ (n > 0)
      BY <2>1, <2>3, <3>1, <3>3 DEF TasksFit
    <3> QED
      BY <3>2, <3>3
  <2> QED
    BY <2>1, <2>3, <2>4, <2>5 DEF SourcesOK, tables, IsSource, IsPart, Inner, grid, Subgrid
<1>7. CASE Launch
  <2>1. /\ phase = "transport" /\ phase' = "transport"
        /\ UNCHANGED <<scenario, steps, tables, distribution, source, cursor>>
        /\ \E t \in DOMAIN tasks : tasks' = RemoveAt(tasks, t)
    BY <1>7 DEF Launch
  <2>2. TasksFit(source, tasks)
    BY <2>1 DEF SourcesOK
  <2>3. TasksFit(source', tasks')
    <3>1. PICK S : tasks \in Seq(S) /\ \A t \in S : t.source \in DOMAIN source /\ t.number \in Nat
      BY <2>2 DEF TasksFit
    <3>2. PICK t \in DOMAIN tasks : tasks' = RemoveAt(tasks, t)
      BY <2>1
    <3>3. tasks' \in Seq(S)
      BY <3>1, <3>2 DEF RemoveAt
    <3> QED
      BY <2>1, <3>1, <3>3 DEF TasksFit
  <2> QED
    BY <2>1, <2>3 DEF SourcesOK, tables, IsSource, IsPart, Inner, grid, Subgrid
<1>8. CASE UpdateOriginalCounters
  BY <1>8 DEF UpdateOriginalCounters, SourcesOK, sources, tables, IsSource, IsPart, Inner, grid, Subgrid
<1>9. CASE StartTransport
  BY <1>9 DEF StartTransport, SourcesOK, sources, tables, IsSource, IsPart, Inner, grid, Subgrid
<1>10. CASE CalculateTemperature
  BY <1>1, <1>10 DEF CalculateTemperature
<1>11. CASE UpdateCopyProperties
  BY <1>1, <1>11 DEF UpdateCopyProperties
<1>12. CASE NextLoop
  BY <1>1, <1>12 DEF NextLoop
<1>13. CASE \/ End \/ UNCHANGED vars
            \/ \E p \in Packet : Cross(p) \/ CountPhoton(p) \/ Leave(p) \/ Absorb(p) \/ Reemit(p)
  <2>1. UNCHANGED <<scenario, steps, tables, sources, phase>>
    BY <1>13 DEF vars, Cross, CountPhoton, Leave, Absorb, Reemit, End
  <2> QED
    BY <1>1, <2>1
<1> QED
  BY <1>2, <1>3, <1>4, <1>5, <1>6, <1>7, <1>8, <1>9, <1>10, <1>11, <1>12, <1>13 DEF Next

-----------------------------------------------------------------------------
(* Directions.  The side on which a cell index is out of a subgrid, along  *)
(* every axis.                                                             *)
SideOf(cells, c) ==
  [a \in Axis |-> IF c[a] < 0 THEN -1 ELSE IF c[a] >= cells[a] THEN 1 ELSE 0]

(* The label of a side in the switch statements.                           *)
Bits(x) == IF x < 0 THEN 1 ELSE IF x > 0 THEN 2 ELSE 0
SideMask(t) == 16 * Bits(t[1]) + 4 * Bits(t[2]) + Bits(t[3])

DirectionOf(t) ==
  IF SideMask(t) = 0 THEN Inside ELSE CHOOSE d \in DOMAIN MaskOf : MaskOf[d] = SideMask(t)

IsSide(t) == t \in [Axis -> Int] /\ \A a \in Axis : t[a] \in {-1, 0, 1}

(* The side of a cell index is a side. *)
LEMMA SideType ==
  ASSUME NEW cells, NEW c
  PROVE  IsSide(SideOf(cells, c))
  BY DEF IsSide, SideOf

(* The direction of a cell index is that of its side. *)
LEMMA OutputIs ==
  ASSUME NEW cells \in [Axis -> Nat \ {0}], NEW c, \A a \in Axis : c[a] \in Int
  PROVE  OutputDirection(cells, c) = DirectionOf(SideOf(cells, c))
<1> DEFINE B(a) == IF c[a] < 0 THEN 1 ELSE IF c[a] \div cells[a] > 0 THEN 2 ELSE 0
           m == 16 * B(1) + 4 * B(2) + B(3)
           t == SideOf(cells, c)
<1>1. OutputDirection(cells, c)
        = IF m = 0 THEN Inside ELSE CHOOSE d \in DOMAIN MaskOf : MaskOf[d] = m
  BY DEF OutputDirection
<1>2. ASSUME NEW a \in Axis PROVE B(a) = Bits(t[a])
  <2>1. cells[a] \in Nat \ {0} /\ c[a] \in Int
    OBVIOUS
  <2>2. c[a] >= 0 => (c[a] \div cells[a] > 0 <=> c[a] >= cells[a])
    <3> SUFFICES ASSUME c[a] >= 0 PROVE c[a] \div cells[a] > 0 <=> c[a] >= cells[a]
      OBVIOUS
    <3> DEFINE x == c[a]
               k == cells[a]
               q == x \div k
               r == x % k
    <3>1. x \in Nat /\ k \in Nat \ {0}
      BY <2>1
    <3> HIDE DEF x, k
    <3>2. q \in Nat /\ r \in 0 .. k - 1 /\ x = q * k + r
      BY <3>1, DivisionBack
    <3> HIDE DEF q, r
    <3>3. q = 0 => x < k
      BY <3>1, <3>2
    <3>4. q > 0 => x >= k
      <4>1. q > 0 => q * k = (q - 1) * k + k /\ (q - 1) * k >= 0
        BY <3>1, <3>2
      <4> DEFINE y == (q - 1) * k
                 z == q * k
      <4>2. q > 0 => y \in Int /\ z \in Int
        BY <3>1, <3>2
      <4> HIDE DEF y, z
      <4> QED
        BY <3>1, <3>2, <4>1, <4>2 DEF y, z
    <3>5. q > 0 <=> x >= k
      BY <3>1, <3>2, <3>3, <3>4
    <3> QED
      BY <3>5 DEF q, x, k
  <2>3. t[a] = IF c[a] < 0 THEN -1 ELSE IF c[a] >= cells[a] THEN 1 ELSE 0
    BY DEF SideOf
  <2> QED
    BY <2>1, <2>2, <2>3 DEF Bits
<1>3. m = SideMask(t)
  <2>1. B(1) = Bits(t[1]) /\ B(2) = Bits(t[2]) /\ B(3) = Bits(t[3])
    BY <1>2 DEF Axis
  <2> HIDE DEF B
  <2> QED
    BY <2>1 DEF SideMask
<1> HIDE DEF m
<1> QED
  BY <1>1, <1>3, Zenon DEF DirectionOf

(* There is a direction for every side, and another one for every other.   *)
LEMMA DirectionIs ==
  ASSUME NEW t, IsSide(t)
  PROVE  /\ DirectionOf(t) = Inside <=> \A a \in Axis : t[a] = 0
         /\ DirectionOf(t) # Inside =>
              DirectionOf(t) \in 1 .. 26 /\ MaskOf[DirectionOf(t)] = SideMask(t)
<1> DEFINE m == SideMask(t)
<1>1. t[1] \in {-1, 0, 1} /\ t[2] \in {-1, 0, 1} /\ t[3] \in {-1, 0, 1}
  BY DEF IsSide, Axis
<1>2. m \in {0, 1, 2, 4, 5, 6, 8, 9, 10, 16, 17, 18, 20, 21, 22, 24, 25, 26,
             32, 33, 34, 36, 37, 38, 40, 41, 42}
  BY <1>1 DEF SideMask, Bits
<1>3. m = 0 <=> \A a \in Axis : t[a] = 0
  BY <1>1 DEF SideMask, Bits, Axis
<1> HIDE DEF m
<1>4. DOMAIN MaskOf = 1 .. 26
  BY DEF MaskOf
<1>5. ASSUME m # 0 PROVE \E d \in 1 .. 26 : MaskOf[d] = m
  <2>1. /\ MaskOf[1] = 42 /\ MaskOf[2] = 41 /\ MaskOf[3] = 38 /\ MaskOf[4] = 37
        /\ MaskOf[5] = 26 /\ MaskOf[6] = 25 /\ MaskOf[7] = 22 /\ MaskOf[8] = 21
        /\ MaskOf[9] = 10 /\ MaskOf[10] = 9 /\ MaskOf[11] = 6 /\ MaskOf[12] = 5
        /\ MaskOf[13] = 34 /\ MaskOf[14] = 33 /\ MaskOf[15] = 18 /\ MaskOf[16] = 17
        /\ MaskOf[17] = 40 /\ MaskOf[18] = 36 /\ MaskOf[19] = 24 /\ MaskOf[20] = 20
        /\ MaskOf[21] = 32 /\ MaskOf[22] = 16 /\ MaskOf[23] = 8 /\ MaskOf[24] = 4
        /\ MaskOf[25] = 2 /\ MaskOf[26] = 1
    BY DEF MaskOf
  <2> QED
    BY <1>2, <1>5, <2>1
<1> DEFINE e == CHOOSE d \in DOMAIN MaskOf : MaskOf[d] = m
<1>6. m # 0 => e \in 1 .. 26 /\ MaskOf[e] = m
  BY <1>4, <1>5
<1> HIDE DEF e
<1>7. DirectionOf(t) = IF m = 0 THEN Inside ELSE e
  BY Zenon DEF DirectionOf, e, m
<1> QED
  BY <1>3, <1>6, <1>7 DEF Inside, m

(* Two sides with the same direction are the same. *)
LEMMA SidesDiffer ==
  ASSUME NEW t, NEW u, IsSide(t), IsSide(u), DirectionOf(t) = DirectionOf(u)
  PROVE  t = u
<1>1. /\ t[1] \in {-1, 0, 1} /\ t[2] \in {-1, 0, 1} /\ t[3] \in {-1, 0, 1}
      /\ u[1] \in {-1, 0, 1} /\ u[2] \in {-1, 0, 1} /\ u[3] \in {-1, 0, 1}
  BY DEF IsSide, Axis
<1>2. SideMask(t) = SideMask(u)
  <2>1. CASE DirectionOf(t) = Inside
    <3>1. \A a \in Axis : t[a] = 0 /\ u[a] = 0
      BY <2>1, DirectionIs
    <3> QED
      BY <3>1 DEF SideMask, Axis
  <2>2. CASE DirectionOf(t) # Inside
    BY <2>2, DirectionIs
  <2> QED
    BY <2>1, <2>2
<1>3. t[1] = u[1] /\ t[2] = u[2] /\ t[3] = u[3]
  BY <1>1, <1>2 DEF SideMask, Bits
<1>4. \A a \in Axis : t[a] = u[a]
  BY <1>3 DEF Axis
<1>5. t \in [Axis -> Int] /\ u \in [Axis -> Int]
  BY DEF IsSide
<1> QED
  BY <1>4, <1>5

(* Where a packet that leaves in a direction enters: on the other side     *)
(* along the axes it crossed, and where it is along the others.            *)
Enters(t, e) ==
  \A a \in Axis :
    /\ e \in Lower[a] <=> t[a] = 1
    /\ e \in Upper[a] <=> t[a] = -1
    /\ t[a] = 0 => Moved[e][a] = 0

(* A packet that leaves on a side enters on the opposite one. *)
LEMMA EntersOpposite ==
  ASSUME NEW t, IsSide(t), DirectionOf(t) # Inside
  PROVE  /\ OutputToInput(DirectionOf(t)) \in 1 .. 26
         /\ Enters(t, OutputToInput(DirectionOf(t)))
<1> DEFINE d == DirectionOf(t)
<1>1. d \in 1 .. 26 /\ MaskOf[d] = SideMask(t) /\ d # Inside
  BY DirectionIs
<1>2. t[1] \in {-1, 0, 1} /\ t[2] \in {-1, 0, 1} /\ t[3] \in {-1, 0, 1}
  BY DEF IsSide, Axis
<1> HIDE DEF d
<1>3. OutputToInput(d) = InputOf[d]
  BY <1>1 DEF OutputToInput
<1>4. InputOf[d] \in 1 .. 26 /\ Enters(t, InputOf[d])
  BY <1>1, <1>2 DEF Enters, Axis, InputOf, MaskOf, Lower, Upper, Moved, SideMask, Bits
<1> QED
  BY <1>3, <1>4 DEF d

-----------------------------------------------------------------------------
(* The sides are those that the neighbours are listed for. *)
LEMMA SidesAre ==
  ASSUME NEW t
  PROVE  t \in Sides <=> IsSide(t)
<1>1. ASSUME t \in Sides PROVE IsSide(t)
  <2>1. PICK x \in -1 .. 1, y \in -1 .. 1, z \in -1 .. 1 : t = <<x, y, z>>
    BY <1>1 DEF Sides
  <2>2. t[1] = x /\ t[2] = y /\ t[3] = z /\ t \in [1 .. 3 -> Int]
    BY <2>1
  <2> QED
    BY <2>2 DEF IsSide, Axis
<1>2. ASSUME IsSide(t) PROVE t \in Sides
  <2>1. /\ t[1] \in -1 .. 1 /\ t[2] \in -1 .. 1 /\ t[3] \in -1 .. 1
        /\ t = <<t[1], t[2], t[3]>>
    BY <1>2 DEF IsSide, Axis
  <2> QED
    BY <2>1 DEF Sides
<1> QED
  BY <1>1, <1>2

(* A whole subgrid away in a direction is on that side. *)
LEMMA SideAway ==
  ASSUME NEW cells \in [Axis -> Nat \ {0}], NEW t, IsSide(t)
  PROVE  OutputDirection(cells, [a \in Axis |-> t[a] * cells[a]]) = DirectionOf(t)
<1> DEFINE c == [a \in Axis |-> t[a] * cells[a]]
<1>1. ASSUME NEW a \in Axis
      PROVE  /\ c[a] \in Int
             /\ (IF c[a] < 0 THEN -1 ELSE IF c[a] >= cells[a] THEN 1 ELSE 0) = t[a]
  <2>1. cells[a] \in Nat \ {0} /\ t[a] \in {-1, 0, 1} /\ c[a] = t[a] * cells[a]
    BY DEF IsSide
  <2> QED
    BY <2>1
<1> HIDE DEF c
<1>2. SideOf(cells, c) = [a \in Axis |-> t[a]]
  BY <1>1 DEF SideOf
<1>3. [a \in Axis |-> t[a]] = t
  BY DEF IsSide
<1>4. OutputDirection(cells, c) = DirectionOf(SideOf(cells, c))
  BY <1>1, OutputIs
<1> QED
  BY <1>2, <1>3, <1>4 DEF c

(* The neighbour in a direction is the subgrid on that side. *)
LEMMA NeighbourOnSide ==
  ASSUME NEW g, IsGrid(g), NEW i, NEW t, IsSide(t), NEW d \in Direction, d = DirectionOf(t)
  PROVE  NeighboursOf(g, i)[d]
           = IF OfGrid(g, Shifted(g, GridPosition(g, i), t))
             THEN GridIndex(g, Shifted(g, GridPosition(g, i), t)) ELSE Outside
<1> DEFINE Dir(s) == OutputDirection(g.cells, [a \in Axis |-> s[a] * g.cells[a]])
           u == CHOOSE s \in Sides : Dir(s) = d
           p == Shifted(g, GridPosition(g, i), u)
<1>1. NeighboursOf(g, i)[d] = IF OfGrid(g, p) THEN GridIndex(g, p) ELSE Outside
  BY Zenon DEF NeighboursOf
<1>2. \A s \in Sides : IsSide(s) /\ Dir(s) = DirectionOf(s)
  BY SidesAre, SideAway DEF IsGrid
<1> HIDE DEF Dir
<1>3. t \in Sides /\ Dir(t) = d
  BY <1>2, SidesAre
<1>4. u \in Sides /\ Dir(u) = d
  BY <1>3
<1> HIDE DEF u
<1>5. u = t
  BY <1>2, <1>3, <1>4, SidesDiffer
<1> QED
  BY <1>1, <1>5

(* The coordinate of a cell in the box, which is periodic or not.          *)
Wrapped(periodic, x, size) == IF periodic THEN x % size ELSE x

(* Along one axis: a cell index c of the subgrid at p, which may be just   *)
(* out of it, is cell Entered of the subgrid next to it, over a periodic   *)
(* boundary too; and out of the box if there is no subgrid.                *)
SideOn(m, c) == IF c < 0 THEN -1 ELSE IF c >= m THEN 1 ELSE 0
NextTo(n, periodic, p, t) ==
  IF ~ periodic THEN p + t
  ELSE IF p + t < 0 THEN n - 1 ELSE IF p + t >= n THEN 0 ELSE p + t
Entered(m, t, c) == IF t = 1 THEN 0 ELSE IF t = -1 THEN m - 1 ELSE c

(* The cell that is entered is the one next to the subgrid that was left. *)
LEMMA NextOnAxis ==
  ASSUME NEW n \in Nat \ {0}, NEW m \in Nat \ {0}, NEW periodic \in BOOLEAN,
         NEW p \in 0 .. n - 1, NEW c \in -1 .. m, NEW t, t = SideOn(m, c),
         NEW h, h = NextTo(n, periodic, p, t)
  PROVE  /\ t = 0 => h = p
         /\ h \in 0 .. n - 1 =>
              /\ Entered(m, t, c) \in 0 .. m - 1
              /\ Wrapped(periodic, h * m + Entered(m, t, c), n * m) = Wrapped(periodic, p * m + c, n * m)
         /\ h \notin 0 .. n - 1 => ~ periodic /\ p * m + c \notin 0 .. n * m - 1
<1> DEFINE s == n * m
           x == p * m
<1>1. t \in {-1, 0, 1} /\ (t = -1 <=> c = -1) /\ (t = 1 <=> c = m) /\ (t = 0 <=> c \in 0 .. m - 1)
  BY DEF SideOn
<1>2. s \in Nat \ {0} /\ x \in Nat
  OBVIOUS
<1>3. /\ (p + 1) * m = x + m /\ (p - 1) * m = x - m /\ (n - 1) * m = s - m /\ 0 * m = 0
      /\ p = 0 => x = 0
      /\ p = n - 1 => x = s - m
  OBVIOUS
<1>4. s % s = 0 /\ 0 % s = 0 /\ (-1) % s = s - 1 /\ (s - 1) % s = s - 1
  BY <1>2
<1> HIDE DEF s, x
<1>5. CASE t = 0
  BY <1>1, <1>5 DEF NextTo, Entered, x, s
<1>6. CASE t = 1
  <2>1. c = m /\ Entered(m, t, c) = 0
    BY <1>1, <1>6 DEF Entered
  <2>2. CASE p # n - 1
    <3>1. h = p + 1 /\ h \in 0 .. n - 1
      BY <1>6, <2>2 DEF NextTo
    <3>2. h * m + 0 = x + m
      BY <1>2, <1>3, <3>1
    <3> QED
      BY <1>6, <2>1, <3>1, <3>2 DEF x
  <2>3. CASE p = n - 1
    <3>1. x + m = s
      BY <1>2, <1>3, <2>3
    <3>2. CASE periodic
      <4>1. h = 0
        BY <1>6, <2>3, <3>2 DEF NextTo
      <4>2. h * m + 0 = 0
        BY <1>3, <4>1
      <4>3. 0 % s = s % s
        BY <1>4
      <4>4. Wrapped(periodic, h * m + 0, s) = Wrapped(periodic, x + m, s)
        BY <3>1, <3>2, <4>2, <4>3 DEF Wrapped
      <4>5. h \in 0 .. n - 1 /\ 0 \in 0 .. m - 1
        BY <4>1
      <4> QED
        BY <1>6, <2>1, <4>4, <4>5 DEF x, s
    <3>3. CASE ~ periodic
      <4>1. h = n
        BY <1>6, <2>3, <3>3 DEF NextTo
      <4>2. s \notin 0 .. s - 1
        BY <1>2
      <4> QED
        BY <1>6, <2>1, <3>1, <3>3, <4>1, <4>2 DEF x, s
    <3> QED
      BY <3>2, <3>3
  <2> QED
    BY <2>2, <2>3
<1>7. CASE t = -1
  <2>1. c = -1 /\ Entered(m, t, c) = m - 1 /\ m - 1 \in 0 .. m - 1
    BY <1>1, <1>7 DEF Entered
  <2>2. CASE p # 0
    <3>1. h = p - 1 /\ h \in 0 .. n - 1
      BY <1>7, <2>2 DEF NextTo
    <3>2. h * m + (m - 1) = x + -1
      BY <1>2, <1>3, <3>1
    <3> QED
      BY <1>7, <2>1, <3>1, <3>2 DEF x
  <2>3. CASE p = 0
    <3>1. x + -1 = -1
      BY <1>2, <1>3, <2>3
    <3>2. CASE periodic
      <4>1. h = n - 1
        BY <1>7, <2>3, <3>2 DEF NextTo
      <4>2. h * m + (m - 1) = s - 1
        BY <1>2, <1>3, <4>1
      <4>3. (s - 1) % s = (-1) % s
        BY <1>4
      <4>4. Wrapped(periodic, h * m + (m - 1), s) = Wrapped(periodic, x + -1, s)
        BY <3>1, <3>2, <4>2, <4>3 DEF Wrapped
      <4>5. h \in 0 .. n - 1
        BY <4>1
      <4> QED
        BY <1>7, <2>1, <4>4, <4>5 DEF x, s
    <3>3. CASE ~ periodic
      <4>1. h = -1
        BY <1>7, <2>3, <3>3 DEF NextTo
      <4> QED
        BY <1>7, <2>1, <3>1, <3>3, <4>1 DEF x, s
    <3> QED
      BY <3>2, <3>3
  <2> QED
    BY <2>2, <2>3
<1> QED
  BY <1>1, <1>5, <1>6, <1>7

-----------------------------------------------------------------------------
(* The coordinates in the box of a cell of a subgrid, or around it.        *)
BoxSize(a) == grid.n[a] * grid.cells[a]

CellInBox(s, c) == [a \in Axis |-> Wrapped(grid.periodic[a], Base(s)[a] + c[a], BoxSize(a))]

(* The neighbour of a copy is in the family of that of its original. *)
LEMMA NeighbourOrigin ==
  ASSUME TablesOK, NEW s \in Subgrid, NEW d \in Direction, d # Inside
  PROVE  IF ngb[OriginOf(s)][d] = Outside THEN ngb[s][d] = Outside
         ELSE /\ ngb[s][d] \in Subgrid /\ ngb[s][d] # Outside
              /\ OriginOf(ngb[s][d]) = ngb[OriginOf(s)][d]
<1> DEFINE i == OriginOf(s)
           j == ngb[i][d]
<1>1. /\ IsGrid(grid) /\ levels \in Levels(grid) /\ OffsetsOK(grid, levels, copies)
      /\ Subgrid = Original(grid) \cup CopyRange(grid, levels)
      /\ LinkedCopies(grid, levels, copies, ngb)
  BY GridOfScenario DEF TablesOK, Subgrid
<1>2. i \in Original(grid) /\ j \in Original(grid) \cup {Outside}
  BY OriginIs DEF TablesOK, Neighbours
<1>3. \A r \in Subgrid : r \in Nat /\ r # Outside
  BY <1>1, SubgridsAre DEF Outside
<1>4. CASE s \in Original(grid)
  <2>1. i = s
    BY <1>4, OriginIs
  <2>2. j # Outside => j \in Subgrid /\ OriginOf(j) = j
    BY <1>1, <1>2, OriginIs
  <2> QED
    BY <1>3, <2>1, <2>2
<1>5. CASE s \notin Original(grid)
  <2>1. s \in CopyBlock(grid, levels, i)
    BY <1>2, <1>5, OriginIs, FamiliesAre
  <2> HIDE DEF i
  <2>2. ngb[s][d] = CopyNeighbour(levels, copies, i, s - copies[i] + 1, j)
    BY <1>1, <1>2, <2>1 DEF LinkedCopies
  <2> HIDE DEF j
  <2>3. CASE j = Outside
    BY <2>2, <2>3 DEF CopyNeighbour, i, j
  <2>4. CASE j # Outside
    <3>1. j \in Original(grid) /\ ngb[s][d] \in FamilyOf(grid, levels, j)
      BY <1>1, <1>2, <2>1, <2>2, <2>4, CopyNeighbourIs
    <3>2. ngb[s][d] = j \/ ngb[s][d] \in Copies(j)
      BY <3>1, FamiliesAre DEF FamilyOf
    <3>3. j \in Subgrid /\ Copies(j) \subseteq Subgrid
      BY <1>1, <3>1, OneOriginal
    <3>4. ngb[s][d] \in Subgrid /\ OriginOf(ngb[s][d]) = j
      BY <3>1, <3>2, <3>3, OriginIs
    <3> QED
      BY <1>3, <2>4, <3>4 DEF i, j
  <2> QED
    BY <2>3, <2>4
<1> QED
  BY <1>4, <1>5

(* The base of a subgrid is the corner of the part of its original.        *)
LEMMA BaseIs ==
  ASSUME TablesOK, NEW s \in Subgrid, NEW a \in Axis
  PROVE  /\ GridPosition(grid, OriginOf(s))[a] \in 0 .. grid.n[a] - 1
         /\ Base(s)[a] = GridPosition(grid, OriginOf(s))[a] * grid.cells[a]
         /\ Base(s)[a] \in Int
         /\ grid.n[a] \in Nat \ {0} /\ grid.cells[a] \in Nat \ {0} /\ grid.periodic[a] \in BOOLEAN
<1>1. IsGrid(grid) /\ OriginOf(s) \in Original(grid)
  BY GridOfScenario, OriginIs DEF TablesOK
<1>2. GridPosition(grid, OriginOf(s)) \in Positions(grid)
  BY <1>1, PositionIndex
<1>3. GridPosition(grid, OriginOf(s))[a] \in 0 .. grid.n[a] - 1
  BY <1>2 DEF Positions
<1>4. Base(s)[a] = GridPosition(grid, OriginOf(s))[a] * grid.cells[a]
  BY DEF Base, OriginOf
<1>5. grid.n[a] \in Nat \ {0} /\ grid.cells[a] \in Nat \ {0} /\ grid.periodic[a] \in BOOLEAN
  BY <1>1 DEF IsGrid
<1> HIDE DEF GridPosition
<1>6. Base(s)[a] \in Int
  BY <1>3, <1>4, <1>5
<1> QED
  BY <1>3, <1>4, <1>5, <1>6

(* The cell of a subgrid that a packet enters at, from the cell around the *)
(* subgrid it left.                                                        *)
EntryCell(s, c, n) ==
  LET e == OutputToInput(OutputDirection(grid.cells, c))
  IN  StartIndex(grid.cells, e,
        UpdatePosition(grid.cells, e, [a \in Axis |-> Base(s)[a] + c[a] - Base(n)[a]]))

(* A packet that leaves a subgrid is in the same cell of the box in the    *)
(* next subgrid, or in a copy of it; and it is out of the box if there is  *)
(* none.                                                                   *)
LEMMA LeaveCell ==
  ASSUME TablesOK, NEW s \in Subgrid, NEW c \in Around, ~ IsInside(grid.cells, c),
         NEW n, n = ngb[s][OutputDirection(grid.cells, c)]
  PROVE  IF n = Outside
         THEN \E a \in Axis : ~ grid.periodic[a] /\ Base(s)[a] + c[a] \notin 0 .. BoxSize(a) - 1
         ELSE /\ n \in Subgrid /\ EntryCell(s, c, n) \in Inner
              /\ CellInBox(n, EntryCell(s, c, n)) = CellInBox(s, c)
<1> DEFINE i == OriginOf(s)
           d == OutputDirection(grid.cells, c)
           t == SideOf(grid.cells, c)
           P == GridPosition(grid, i)
           H == Shifted(grid, P, t)
           e == OutputToInput(d)
           new == EntryCell(s, c, n)
<1>1. IsGrid(grid) /\ i \in Original(grid) /\ grid.cells \in [Axis -> Nat \ {0}]
  BY GridOfScenario, OriginIs DEF TablesOK, IsGrid
<1>2. \A a \in Axis : c[a] \in Int /\ c[a] \in -1 .. grid.cells[a]
  BY DEF Around
<1>3. IsSide(t) /\ d = DirectionOf(t) /\ d \in Direction
  BY <1>1, <1>2, SideType, OutputIs, OutputType
<1>4. d # Inside
  <2>1. PICK a \in Axis : c[a] \notin 0 .. grid.cells[a] - 1
    BY DEF IsInside
  <2>2. t[a] # 0
    <3>1. grid.cells[a] \in Nat \ {0} /\ c[a] \in Int
      BY <1>1, <1>2
    <3> QED
      BY <2>1, <3>1 DEF SideOf
  <2> HIDE DEF t, d
  <2> QED
    BY <1>3, <2>2, DirectionIs
<1>5. e \in 1 .. 26 /\ Enters(t, e)
  BY <1>3, <1>4, EntersOpposite
<1> HIDE DEF d
<1>6. ngb[i][d] = IF OfGrid(grid, H) THEN GridIndex(grid, H) ELSE Outside
  <2>1. ngb[i] = NeighboursOf(grid, i)
    BY <1>1 DEF TablesOK
  <2> HIDE DEF t, i
  <2> QED
    BY <1>1, <1>3, <2>1, NeighbourOnSide
<1> DEFINE Turn(a) == t[a] = SideOn(grid.cells[a], c[a])
           Next1(a) == H[a] = NextTo(grid.n[a], grid.periodic[a], P[a], t[a])
<1>7. ASSUME NEW a \in Axis
      PROVE  /\ grid.n[a] \in Nat \ {0} /\ grid.cells[a] \in Nat \ {0}
             /\ grid.periodic[a] \in BOOLEAN /\ P[a] \in 0 .. grid.n[a] - 1
             /\ c[a] \in -1 .. grid.cells[a] /\ Turn(a) /\ Next1(a)
             /\ Base(s)[a] = P[a] * grid.cells[a]
  <2>1. Turn(a)
    BY DEF SideOf, SideOn
  <2>2. Next1(a)
    <3> HIDE DEF t, P
    <3> QED
      BY DEF Shifted, NextTo
  <2> HIDE DEF Turn, Next1
  <2> QED
    BY <1>2, <2>1, <2>2, BaseIs
<1>10. ASSUME NEW a \in Axis
      PROVE  /\ t[a] = 0 => H[a] = P[a]
             /\ H[a] \in 0 .. grid.n[a] - 1 =>
                  /\ Entered(grid.cells[a], t[a], c[a]) \in 0 .. grid.cells[a] - 1
                  /\ Wrapped(grid.periodic[a], H[a] * grid.cells[a] + Entered(grid.cells[a], t[a], c[a]),
                             grid.n[a] * grid.cells[a])
                       = Wrapped(grid.periodic[a], P[a] * grid.cells[a] + c[a],
                                 grid.n[a] * grid.cells[a])
             /\ H[a] \notin 0 .. grid.n[a] - 1 =>
                  ~ grid.periodic[a] /\ P[a] * grid.cells[a] + c[a] \notin 0 .. grid.n[a] * grid.cells[a] - 1
  <2> DEFINE nn == grid.n[a]
             m  == grid.cells[a]
             pp == grid.periodic[a]
             p  == P[a]
             cc == c[a]
             tt == t[a]
             h  == H[a]
  <2>1. /\ nn \in Nat \ {0} /\ m \in Nat \ {0} /\ pp \in BOOLEAN /\ p \in 0 .. nn - 1
        /\ cc \in -1 .. m /\ tt = SideOn(m, cc) /\ h = NextTo(nn, pp, p, tt)
    BY <1>7
  <2> HIDE DEF nn, m, pp, p, cc, tt, h
  <2>2. /\ tt = 0 => h = p
        /\ h \in 0 .. nn - 1 =>
             /\ Entered(m, tt, cc) \in 0 .. m - 1
             /\ Wrapped(pp, h * m + Entered(m, tt, cc), nn * m) = Wrapped(pp, p * m + cc, nn * m)
        /\ h \notin 0 .. nn - 1 => ~ pp /\ p * m + cc \notin 0 .. nn * m - 1
    BY <2>1, NextOnAxis
  <2> QED
    BY <2>2 DEF nn, m, pp, p, cc, tt, h
<1>8. CASE n = Outside
  <2>1. ~ OfGrid(grid, H)
    <3>1. ngb[i][d] = Outside
      BY <1>3, <1>4, <1>8, NeighbourOrigin DEF d
    <3>2. OfGrid(grid, H) => H \in Positions(grid)
      <4>1. H = [a \in Axis |-> H[a]]
        BY DEF Shifted
      <4> HIDE DEF H
      <4> QED
        BY <4>1 DEF OfGrid, Positions
    <3>3. OfGrid(grid, H) => GridIndex(grid, H) # Outside
      <4> HIDE DEF H
      <4>1. OfGrid(grid, H) => GridIndex(grid, H) \in Original(grid)
        BY <1>1, <3>2, IndexPosition
      <4>2. Outside \notin Original(grid)
        BY DEF Outside, Original
      <4> QED
        BY <4>1, <4>2
    <3> QED
      BY <1>6, <3>1, <3>3
  <2>2. PICK a \in Axis : H[a] \notin 0 .. grid.n[a] - 1
    BY <2>1 DEF OfGrid
  <2> HIDE DEF t, H, P
  <2>3. ~ grid.periodic[a] /\ P[a] * grid.cells[a] + c[a] \notin 0 .. grid.n[a] * grid.cells[a] - 1
    BY <1>10, <2>2
  <2> QED
    BY <1>7, <1>8, <2>3 DEF BoxSize
<1>9. CASE n # Outside
  <2>1. n \in Subgrid /\ OriginOf(n) = ngb[i][d]
    BY <1>3, <1>4, <1>9, NeighbourOrigin DEF d
  <2>2. OfGrid(grid, H) /\ OriginOf(n) = GridIndex(grid, H)
    <3>1. ngb[i][d] # Outside
      BY <1>3, <1>4, <1>9, NeighbourOrigin DEF d
    <3> QED
      BY <1>6, <2>1, <3>1
  <2>3. GridPosition(grid, OriginOf(n)) = H
    <3>1. H \in Positions(grid)
      <4>1. H = [a \in Axis |-> H[a]]
        BY DEF Shifted
      <4> HIDE DEF H
      <4> QED
        BY <2>2, <4>1 DEF OfGrid, Positions
    <3> HIDE DEF H
    <3> QED
      BY <1>1, <2>2, <3>1, IndexPosition
  <2>4. ASSUME NEW a \in Axis
        PROVE  /\ new[a] = Entered(grid.cells[a], t[a], c[a])
               /\ Base(n)[a] = H[a] * grid.cells[a] /\ H[a] \in 0 .. grid.n[a] - 1
    <3>1. Base(n)[a] = H[a] * grid.cells[a] /\ H[a] \in 0 .. grid.n[a] - 1
      <4> HIDE DEF H
      <4> QED
        BY <2>1, <2>3, BaseIs
    <3>2. new[a] = CASE e \in Lower[a] -> 0
                     [] e \in Upper[a] -> grid.cells[a] - 1
                     [] OTHER          -> UpdatePosition(grid.cells, e,
                          [b \in Axis |-> Base(s)[b] + c[b] - Base(n)[b]])[a]
      BY DEF EntryCell, StartIndex, d
    <3>3. /\ e \in Lower[a] <=> t[a] = 1
          /\ e \in Upper[a] <=> t[a] = -1
          /\ t[a] = 0 => Moved[e][a] = 0
          /\ t[a] \in {-1, 0, 1}
      BY <1>3, <1>5 DEF Enters, IsSide
    <3>4. ASSUME t[a] = 0
          PROVE  UpdatePosition(grid.cells, e, [b \in Axis |-> Base(s)[b] + c[b] - Base(n)[b]])[a] = c[a]
      <4>1. UpdatePosition(grid.cells, e, [b \in Axis |-> Base(s)[b] + c[b] - Base(n)[b]])[a]
              = Base(s)[a] + c[a] - Base(n)[a]
        <5>1. Moved[e][a] = 0 /\ e # Inside
          BY <1>5, <3>3, <3>4 DEF Inside
        <5> HIDE DEF e
        <5> QED
          BY <5>1 DEF UpdatePosition
      <4>2. H[a] = P[a]
        <5> HIDE DEF t, H, P
        <5> QED
          BY <1>10, <3>4
      <4>3. Base(s)[a] = Base(n)[a] /\ Base(s)[a] \in Int /\ c[a] \in Int
        BY <1>2, <1>7, <3>1, <4>2, BaseIs
      <4> QED
        BY <4>1, <4>3
    <3> HIDE DEF e, t, new, H
    <3> QED
      BY <3>1, <3>2, <3>3, <3>4 DEF Entered
  <2>5. ASSUME NEW a \in Axis
        PROVE  /\ new[a] \in 0 .. grid.cells[a] - 1
               /\ Wrapped(grid.periodic[a], Base(n)[a] + new[a], BoxSize(a))
                    = Wrapped(grid.periodic[a], Base(s)[a] + c[a], BoxSize(a))
    <3> HIDE DEF e, t, new, H, P
    <3>1. /\ Entered(grid.cells[a], t[a], c[a]) \in 0 .. grid.cells[a] - 1
          /\ Wrapped(grid.periodic[a], H[a] * grid.cells[a] + Entered(grid.cells[a], t[a], c[a]),
                     grid.n[a] * grid.cells[a])
               = Wrapped(grid.periodic[a], P[a] * grid.cells[a] + c[a], grid.n[a] * grid.cells[a])
      BY <1>10, <2>4
    <3> QED
      BY <1>7, <2>4, <3>1 DEF BoxSize
  <2>6. new \in Inner
    <3>1. new = [a \in Axis |-> new[a]]
      BY DEF EntryCell, StartIndex
    <3> HIDE DEF new
    <3> QED
      BY <2>5, <3>1 DEF Inner, IsInside
  <2>7. CellInBox(n, new) = CellInBox(s, c)
    <3> HIDE DEF new
    <3> QED
      BY <2>5 DEF CellInBox
  <2> QED
    BY <1>9, <2>1, <2>6, <2>7
<1> QED
  BY <1>8, <1>9

-----------------------------------------------------------------------------
(* A packet under way is in a subgrid, in one of its cells or just out of  *)
(* it, and in a cell when its path ends.                                   *)
Fields == {"status", "subgrid", "cell", "flight", "turns", "seen"}

Done(q) == q.status \in {"idle", "absorbed", "escaped"}

Shape(q) ==
  /\ DOMAIN q = Fields
  /\ q.status \in {"idle", "absorbed", "escaped", "inside", "ended", "inside counted", "ended counted"}
  /\ q.flight \in Flights
  /\ q.status = "idle" => q.turns = 0
  /\ ~ Done(q) => q.subgrid \in Subgrid /\ q.cell \in Around
  /\ q.status \in {"ended", "ended counted"} => q.cell \in Inner

(* What the steps of a packet q make of it: r.                             *)
Keeps(q, r) == r.subgrid = q.subgrid /\ r.flight = q.flight

Crosses(q, r) ==
  /\ q.status = "inside" /\ q.cell \in Inner /\ Keeps(q, r)
  /\ \/ /\ r.status \in {"ended", "ended counted"}
        /\ r.cell = q.cell /\ r.turns = q.turns
     \/ /\ r.status \in {"inside", "inside counted"}
        /\ \E S \in SUBSET {a \in Axis : q.flight[a] # 0} \ {{}} :
             r.cell = [a \in Axis |-> IF a \in S THEN q.cell[a] + q.flight[a] ELSE q.cell[a]]
        /\ r.turns = q.turns + 1

IsCounted(q, r) ==
  /\ q.status \in {"inside counted", "ended counted"} /\ ~ Done(r)
  /\ Keeps(q, r) /\ r.cell = q.cell /\ r.turns = q.turns

Leaves(q, r) ==
  /\ q.status = "inside" /\ r.flight = q.flight /\ r.turns = q.turns
  /\ \/ /\ r.status = "escaped"
        /\ \E a \in Axis : ~ grid.periodic[a] /\ Base(q.subgrid)[a] + q.cell[a] \notin 0 .. BoxSize(a) - 1
     \/ /\ r.status = "inside"
        /\ CellInBox(r.subgrid, r.cell) = CellInBox(q.subgrid, q.cell)

IsAbsorbed(q, r) ==
  q.status = "ended" /\ r.status = "absorbed" /\ Keeps(q, r) /\ r.turns = q.turns

IsReemitted(q, r) ==
  /\ q.status = "ended" /\ r.status = "inside" /\ r.flight \in Flights
  /\ r.subgrid = q.subgrid /\ r.cell = q.cell /\ r.turns = q.turns + 1

Becomes(p, r) == packet' = [packet EXCEPT ![p] = r] /\ Shape(r)

(* The cells of a subgrid are among those around it. *)
LEMMA InnerAround ==
  ASSUME scenario \in Scenarios
  PROVE  /\ Inner \subseteq Around
         /\ \A c \in Inner : \A a \in Axis : c[a] \in 0 .. grid.cells[a] - 1
         /\ \A c \in Around : IsInside(grid.cells, c) => c \in Inner
<1>1. \A a \in Axis : grid.cells[a] \in Nat \ {0}
  BY GridOfScenario DEF IsGrid
<1> QED
  BY <1>1 DEF Inner, Around, IsInside

(* A packet starts inside a subgrid where it is. *)
LEMMA StartInside ==
  ASSUME NEW c \in [Axis -> Int]
  PROVE  StartIndex(grid.cells, Inside, c) = c
<1>1. \A a \in Axis : Inside \notin Lower[a] /\ Inside \notin Upper[a]
  BY DEF Inside, Axis, Lower, Upper
<1>2. StartIndex(grid.cells, Inside, c) = [a \in Axis |-> c[a]]
  BY <1>1 DEF StartIndex
<1> QED
  BY <1>2

(* A packet ends in its cell, or goes on to a next one. *)
LEMMA CrossIs ==
  ASSUME TablesOK, NEW p \in Packet, Shape(packet[p]), Cross(p)
  PROVE  \E r : Crosses(packet[p], r) /\ Becomes(p, r)
<1> DEFINE q == packet[p]
<1>1. PICK n \in Crossings(q) :
        packet' = [packet EXCEPT ![p] =
                   [n EXCEPT !.status = NextStatus(q, @),
                             !.seen = IF HasTracker(q) THEN tracker[attached[q.subgrid]] ELSE 0]]
  BY Zenon DEF Cross
<1>2. q.status = "inside" /\ IsInside(grid.cells, q.cell)
  BY DEF Cross
<1> DEFINE b == IF HasTracker(q) THEN tracker[attached[q.subgrid]] ELSE 0
           u == NextStatus(q, n.status)
           r == [n EXCEPT !.status = u, !.seen = b]
<1>3. packet' = [packet EXCEPT ![p] = r]
  BY <1>1, Zenon
<1> HIDE DEF b
<1>4. q.subgrid \in Subgrid /\ q.cell \in Inner /\ q.flight \in Flights /\ DOMAIN q = Fields
      /\ q.cell \in Around
  BY <1>2, InnerAround DEF Shape, Done, TablesOK
<1>5. \/ n = [q EXCEPT !.status = "ended"]
      \/ \E S \in SUBSET {a \in Axis : q.flight[a] # 0} \ {{}} :
           n = [q EXCEPT !.cell = [a \in Axis |-> IF a \in S THEN q.cell[a] + q.flight[a]
                                                   ELSE q.cell[a]],
                         !.turns = @ + 1]
  BY <1>1 DEF Crossings
<1>6. /\ n.status = "ended" => u \in {"ended", "ended counted"}
      /\ n.status # "ended" => u \in {n.status, "inside counted"}
  BY DEF NextStatus
<1> HIDE DEF q, u
<1>7. CASE n = [q EXCEPT !.status = "ended"]
  <2>1. /\ DOMAIN n = Fields /\ n.status = "ended" /\ n.subgrid = q.subgrid
        /\ n.cell = q.cell /\ n.flight = q.flight /\ n.turns = q.turns
    BY <1>4, <1>7 DEF Fields
  <2>2. /\ DOMAIN r = Fields /\ r.status = u /\ r.subgrid = q.subgrid
        /\ r.cell = q.cell /\ r.flight = q.flight /\ r.turns = q.turns
    BY <2>1 DEF Fields
  <2> HIDE DEF r
  <2>3. Crosses(q, r) /\ Shape(r)
    BY <1>2, <1>4, <1>6, <2>1, <2>2 DEF Crosses, Keeps, Shape, Done
  <2> QED
    BY <1>3, <2>3 DEF Becomes, q
<1>8. ASSUME NEW S \in SUBSET {a \in Axis : q.flight[a] # 0} \ {{}},
             n = [q EXCEPT !.cell = [a \in Axis |-> IF a \in S THEN q.cell[a] + q.flight[a]
                                                     ELSE q.cell[a]],
                           !.turns = @ + 1]
      PROVE  \E s : Crosses(q, s) /\ Becomes(p, s)
  <2> DEFINE c == [a \in Axis |-> IF a \in S THEN q.cell[a] + q.flight[a] ELSE q.cell[a]]
  <2>1. /\ DOMAIN n = Fields /\ n.status = "inside" /\ n.subgrid = q.subgrid
        /\ n.cell = c /\ n.flight = q.flight /\ n.turns = q.turns + 1
    BY <1>2, <1>4, <1>8 DEF Fields
  <2>2. /\ DOMAIN r = Fields /\ r.status = u /\ r.subgrid = q.subgrid
        /\ r.cell = c /\ r.flight = q.flight /\ r.turns = q.turns + 1
    <3> HIDE DEF c
    <3> QED
      BY <2>1 DEF Fields
  <2>3. c \in Around
    <3>1. ASSUME NEW a \in Axis PROVE c[a] \in Int /\ c[a] \in -1 .. grid.cells[a]
      <4>1. q.cell[a] \in 0 .. grid.cells[a] - 1 /\ grid.cells[a] \in Nat \ {0}
        BY <1>4, InnerAround, GridOfScenario DEF TablesOK, IsGrid
      <4>2. q.flight[a] \in -1 .. 1
        BY <1>4, PacketAssumption
      <4> QED
        BY <4>1, <4>2
    <3> QED
      BY <3>1 DEF Around
  <2>4. u \in {"inside", "inside counted"}
    BY <1>6, <2>1
  <2>5. Shape(r)
    <3> HIDE DEF c, r
    <3> QED
      BY <1>4, <2>2, <2>3, <2>4 DEF Shape, Done
  <2>6. Crosses(q, r)
    <3> HIDE DEF r
    <3>1. \E T \in SUBSET {a \in Axis : q.flight[a] # 0} \ {{}} :
            r.cell = [a \in Axis |-> IF a \in T THEN q.cell[a] + q.flight[a] ELSE q.cell[a]]
      BY <2>2
    <3> QED
      BY <1>2, <1>4, <2>2, <2>4, <3>1 DEF Crosses, Keeps
  <2> HIDE DEF r
  <2> QED
    BY <1>3, <2>5, <2>6 DEF Becomes
<1> QED
  BY <1>5, <1>7, <1>8 DEF q

(* A packet that is counted stays where it is. *)
LEMMA CountIs ==
  ASSUME NEW p \in Packet, Shape(packet[p]), CountPhoton(p)
  PROVE  \E r : IsCounted(packet[p], r) /\ Becomes(p, r)
<1> DEFINE q == packet[p]
           u == IF q.status = "ended counted" THEN "ended" ELSE "inside"
           r == [q EXCEPT !.status = u]
<1>1. Counting(q) /\ packet' = [packet EXCEPT ![p] = r]
  BY DEF CountPhoton
<1> HIDE DEF q
<1>2. /\ DOMAIN r = Fields /\ r.status = u /\ r.subgrid = q.subgrid
      /\ r.cell = q.cell /\ r.flight = q.flight /\ r.turns = q.turns
  BY DEF Shape, Fields, q
<1>3. Shape(q)
  BY DEF q
<1>4. u \in {"ended", "inside"} /\ (u = "ended" => q.status = "ended counted")
  OBVIOUS
<1> HIDE DEF r, u
<1>5. q.status \in {"inside counted", "ended counted"}
  BY <1>1 DEF Counting
<1>6. Shape(r)
  BY <1>2, <1>3, <1>4, <1>5 DEF Shape, Done
<1>7. IsCounted(q, r)
  BY <1>2, <1>4, <1>5 DEF IsCounted, Keeps, Done
<1> QED
  BY <1>1, <1>6, <1>7 DEF Becomes, q

(* A packet that leaves a subgrid is out of the box, or in the same cell.  *)
LEMMA LeaveIs ==
  ASSUME TablesOK, NEW p \in Packet, Shape(packet[p]), Leave(p)
  PROVE  \E r : Leaves(packet[p], r) /\ Becomes(p, r)
<1> DEFINE q == packet[p]
           d == OutputDirection(grid.cells, q.cell)
           n == ngb[q.subgrid][d]
           c == EntryCell(q.subgrid, q.cell, n)
<1>1. packet' = [packet EXCEPT ![p] =
                   IF n = Outside THEN [q EXCEPT !.status = "escaped"]
                   ELSE [q EXCEPT !.subgrid = n, !.cell = c]]
  BY Zenon DEF Leave, EntryCell
<1>2. q.status = "inside" /\ ~ IsInside(grid.cells, q.cell)
  BY DEF Leave
<1>3. Shape(q)
  OBVIOUS
<1> HIDE DEF q
<1>4. q.subgrid \in Subgrid /\ q.cell \in Around /\ DOMAIN q = Fields /\ q.flight \in Flights
  BY <1>2, <1>3 DEF Shape, Done
<1>5. IF n = Outside
      THEN \E a \in Axis : ~ grid.periodic[a] /\ Base(q.subgrid)[a] + q.cell[a] \notin 0 .. BoxSize(a) - 1
      ELSE n \in Subgrid /\ c \in Inner /\ CellInBox(n, c) = CellInBox(q.subgrid, q.cell)
  BY <1>2, <1>4, LeaveCell
<1> HIDE DEF n, c
<1>6. CASE n = Outside
  <2> DEFINE r == [q EXCEPT !.status = "escaped"]
  <2>1. packet' = [packet EXCEPT ![p] = r]
    BY <1>1, <1>6
  <2>2. /\ DOMAIN r = Fields /\ r.status = "escaped" /\ r.flight = q.flight /\ r.turns = q.turns
    BY <1>4 DEF Fields
  <2> HIDE DEF r
  <2>3. Shape(r) /\ Leaves(q, r)
    BY <1>2, <1>4, <1>5, <1>6, <2>2 DEF Shape, Done, Leaves
  <2> QED
    BY <2>1, <2>3 DEF Becomes, q
<1>7. CASE n # Outside
  <2> DEFINE r == [q EXCEPT !.subgrid = n, !.cell = c]
  <2>1. packet' = [packet EXCEPT ![p] = r]
    BY <1>1, <1>7
  <2>2. /\ DOMAIN r = Fields /\ r.status = "inside" /\ r.flight = q.flight /\ r.turns = q.turns
        /\ r.subgrid = n /\ r.cell = c
    BY <1>2, <1>4 DEF Fields
  <2> HIDE DEF r
  <2>3. c \in Around
    BY <1>5, <1>7, InnerAround DEF TablesOK
  <2>4. Shape(r)
    BY <1>4, <1>5, <1>7, <2>2, <2>3 DEF Shape, Done
  <2>5. Leaves(q, r)
    BY <1>2, <1>5, <1>7, <2>2 DEF Leaves
  <2> QED
    BY <2>1, <2>4, <2>5 DEF Becomes, q
<1> QED
  BY <1>6, <1>7

(* A packet that is absorbed was in a cell. *)
LEMMA AbsorbIs ==
  ASSUME NEW p \in Packet, Shape(packet[p]), Absorb(p)
  PROVE  \E r : IsAbsorbed(packet[p], r) /\ Becomes(p, r)
<1> DEFINE q == packet[p]
           r == [q EXCEPT !.status = "absorbed"]
<1>1. q.status = "ended" /\ packet' = [packet EXCEPT ![p] = r]
  BY DEF Absorb
<1>2. /\ DOMAIN r = Fields /\ r.status = "absorbed" /\ r.subgrid = q.subgrid
      /\ r.flight = q.flight /\ r.turns = q.turns
  BY DEF Shape, Fields
<1>3. Shape(q)
  OBVIOUS
<1> HIDE DEF r, q
<1>4. Shape(r) /\ IsAbsorbed(q, r)
  BY <1>1, <1>2, <1>3 DEF Shape, Done, IsAbsorbed, Keeps
<1> QED
  BY <1>1, <1>4 DEF Becomes, q

(* A packet that is reemitted stays in its cell. *)
LEMMA ReemitIs ==
  ASSUME TablesOK, NEW p \in Packet, DOMAIN packet = Packet, Shape(packet[p]), Reemit(p)
  PROVE  \E r : IsReemitted(packet[p], r) /\ Becomes(p, r)
<1> DEFINE q == packet[p]
<1>1. q.status = "ended"
  BY DEF Reemit
<1>2. PICK f \in scenario.flights :
        packet' = [packet EXCEPT ![p].status = "inside", ![p].flight = f,
                                 ![p].cell = StartIndex(grid.cells, Inside, @),
                                 ![p].turns = @ + 1]
  BY Zenon DEF Reemit
<1> DEFINE c == StartIndex(grid.cells, Inside, q.cell)
           r == [q EXCEPT !.status = "inside", !.flight = f, !.cell = c, !.turns = @ + 1]
<1>3. Shape(q) /\ q.subgrid \in Subgrid /\ q.cell \in Inner /\ DOMAIN q = Fields
      /\ q.cell \in Around
  BY <1>1 DEF Shape, Done
<1>4. c = q.cell
  <2>1. q.cell \in [Axis -> Int]
    BY <1>3 DEF Inner
  <2> QED
    BY <2>1, StartInside
<1>5. packet' = [packet EXCEPT ![p] = r]
  <2> HIDE DEF c
  <2>1. packet' = [packet EXCEPT ![p].status = "inside", ![p].flight = f, ![p].cell = c,
                                 ![p].turns = @ + 1]
    BY <1>2, <1>3 DEF c, Fields
  <2> QED
    BY <1>3, <2>1 DEF Fields
<1>6. f \in Flights
  BY ScenarioAssumption DEF TablesOK
<1> HIDE DEF q, c
<1>7. /\ DOMAIN r = Fields /\ r.status = "inside" /\ r.subgrid = q.subgrid
      /\ r.cell = c /\ r.flight = f /\ r.turns = q.turns + 1
  BY <1>3 DEF Fields
<1> HIDE DEF r
<1>8. Shape(r)
  BY <1>3, <1>4, <1>6, <1>7 DEF Shape, Done
<1>9. IsReemitted(q, r)
  BY <1>1, <1>4, <1>6, <1>7 DEF IsReemitted
<1> QED
  BY <1>5, <1>8, <1>9 DEF Becomes, q

-----------------------------------------------------------------------------
(* No packet is under way outside the transport phase. *)
PacketsOK ==
  /\ DOMAIN packet = Packet
  /\ \A p \in Packet : Shape(packet[p])
  /\ phase # "transport" => \A p \in Packet : Done(packet[p])

(* A source task starts packets together, in a cell of a subgrid. *)
Emitted == {p \in Packet : packet[p].status # "idle"}

Started(n) == Cardinality(Emitted) + 1 .. Cardinality(Emitted) + n

StartsAt(n, s, c, f) ==
  packet' = [p \in Packet |->
    IF p \in Started(n)
    THEN [status |-> "inside", subgrid |-> s, cell |-> c, flight |-> f[p], turns |-> 0, seen |-> 0]
    ELSE packet[p]]

Starts(n) == \E s \in Subgrid, c \in Inner, f \in [Started(n) -> Flights] : StartsAt(n, s, c, f)

(* A packet that was not emitted has a shape. *)
LEMMA IdleShape == Shape(Idle) /\ Done(Idle)
<1>1. Idle.flight \in Flights
  BY PacketAssumption DEF Idle
<1>2. DOMAIN Idle = Fields /\ Idle.status = "idle" /\ Idle.turns = 0
  BY DEF Idle, Fields
<1> QED
  BY <1>1, <1>2 DEF Shape, Done

(* No packet is under way in the beginning. *)
LEMMA PacketsInit == Init => PacketsOK
  BY IdleShape DEF Init, PacketsOK

(* A source task starts as many packets as it has, at its source. *)
LEMMA LaunchIs ==
  ASSUME TablesOK, SourcesOK, Launch
  PROVE  \E n \in Nat : Starts(n)
<1>1. PICK t \in DOMAIN tasks :
        LET src   == source[tasks[t].source]
            first == Cardinality({p \in Packet : packet[p].status # "idle"})
            made  == first + 1 .. first + tasks[t].number
        IN  \E f \in [made -> scenario.flights] :
              packet' = [p \in Packet |->
                IF p \in made
                THEN [status |-> "inside", subgrid |-> src.subgrid,
                      cell |-> StartIndex(grid.cells, Inside, src.cell),
                      flight |-> f[p], turns |-> 0, seen |-> 0]
                ELSE packet[p]]
  BY Zenon DEF Launch
<1> DEFINE n == tasks[t].number
           src == source[tasks[t].source]
           s == src.subgrid
           c == src.cell
<1>2. \E f \in [Started(n) -> scenario.flights] :
        packet' = [p \in Packet |->
          IF p \in Started(n)
          THEN [status |-> "inside", subgrid |-> s, cell |-> StartIndex(grid.cells, Inside, c),
                flight |-> f[p], turns |-> 0, seen |-> 0]
          ELSE packet[p]]
  BY <1>1, Zenon DEF Started, Emitted
<1>3. n \in Nat /\ tasks[t].source \in DOMAIN source /\ IsSource(source)
  <2>1. phase = "transport"
    BY DEF Launch
  <2>2. TasksFit(source, tasks) /\ IsSource(source)
    BY <2>1 DEF SourcesOK
  <2>3. PICK S : tasks \in Seq(S) /\ \A u \in S : u.source \in DOMAIN source /\ u.number \in Nat
    BY <2>2 DEF TasksFit
  <2>4. tasks[t] \in S
    BY <2>3
  <2> QED
    BY <2>2, <2>3, <2>4
<1>4. s \in Subgrid /\ c \in Inner
  <2>1. IsPart(src)
    BY <1>3 DEF IsSource
  <2> HIDE DEF src
  <2> QED
    BY <2>1 DEF IsPart
<1>5. StartIndex(grid.cells, Inside, c) = c
  <2>1. c \in [Axis -> Int]
    BY <1>4 DEF Inner
  <2> HIDE DEF c
  <2> QED
    BY <2>1, StartInside
<1>6. scenario.flights \subseteq Flights
  BY ScenarioAssumption DEF TablesOK
<1> HIDE DEF n, s, c
<1>7. PICK f \in [Started(n) -> scenario.flights] :
        packet' = [p \in Packet |->
          IF p \in Started(n)
          THEN [status |-> "inside", subgrid |-> s, cell |-> c,
                flight |-> f[p], turns |-> 0, seen |-> 0]
          ELSE packet[p]]
  BY <1>2, <1>5
<1>8. StartsAt(n, s, c, f)
  BY <1>7 DEF StartsAt
<1>9. f \in [Started(n) -> Flights]
  BY <1>6, <1>7
<1>10. Starts(n)
  BY <1>4, <1>8, <1>9 DEF Starts
<1> QED
  BY <1>3, <1>10

(* The packets that start are in a cell of a subgrid. *)
LEMMA StartedShape ==
  ASSUME NEW n, NEW s \in Subgrid, NEW c \in Inner, NEW f \in [Started(n) -> Flights],
         StartsAt(n, s, c, f), scenario \in Scenarios
  PROVE  /\ DOMAIN packet' = Packet
         /\ \A p \in Packet : p \notin Started(n) => packet'[p] = packet[p]
         /\ \A p \in Packet : p \in Started(n) =>
              /\ Shape(packet'[p]) /\ packet'[p].status = "inside" /\ packet'[p].subgrid = s
              /\ packet'[p].cell = c /\ packet'[p].flight \in Flights /\ packet'[p].turns = 0
<1> DEFINE made == Started(n)
<1>1. packet' = [p \in Packet |->
        IF p \in made
        THEN [status |-> "inside", subgrid |-> s, cell |-> c, flight |-> f[p], turns |-> 0, seen |-> 0]
        ELSE packet[p]]
  BY DEF StartsAt
<1>2. c \in Around
  BY InnerAround
<1> HIDE DEF made
<1>3. ASSUME NEW p \in Packet, p \in made
      PROVE  /\ Shape(packet'[p]) /\ packet'[p].status = "inside" /\ packet'[p].subgrid = s
             /\ packet'[p].cell = c /\ packet'[p].flight \in Flights /\ packet'[p].turns = 0
  <2> DEFINE r == [status |-> "inside", subgrid |-> s, cell |-> c, flight |-> f[p], turns |-> 0,
                   seen |-> 0]
  <2>1. packet'[p] = r
    BY <1>1, <1>3
  <2>2. f[p] \in Flights
    BY <1>3 DEF made
  <2>3. DOMAIN r = Fields /\ r.status = "inside" /\ r.subgrid = s /\ r.cell = c /\ r.flight = f[p]
        /\ r.turns = 0
    BY DEF Fields
  <2> HIDE DEF r
  <2>4. Shape(r)
    BY <1>2, <2>2, <2>3 DEF Shape, Done
  <2> QED
    BY <2>1, <2>2, <2>3, <2>4
<1> QED
  BY <1>1, <1>3 DEF made

(* Packets stay in the cells of subgrids or around them. *)
LEMMA PacketsNext == TablesOK /\ SourcesOK /\ PacketsOK /\ [Next]_vars => PacketsOK'
<1> SUFFICES ASSUME TablesOK, SourcesOK, PacketsOK, [Next]_vars PROVE PacketsOK'
  OBVIOUS
<1>0. ASSUME UNCHANGED <<scenario, tables>>
      PROVE  Subgrid' = Subgrid /\ Inner' = Inner /\ Around' = Around
  BY <1>0 DEF Subgrid, Inner, Around, grid, tables
<1>1. ASSUME UNCHANGED <<packet, scenario, tables>>,
             phase' # "transport" => \A p \in Packet : Done(packet[p])
      PROVE  PacketsOK'
  BY <1>0, <1>1 DEF PacketsOK, Shape, Done
<1>2. ASSUME NEW p \in Packet, NEW r, phase = "transport", UNCHANGED <<scenario, phase, tables>>,
             Becomes(p, r)
      PROVE  PacketsOK'
  <2>1. DOMAIN packet' = Packet /\ \A x \in Packet : Shape(packet'[x])
    BY <1>2 DEF PacketsOK, Becomes
  <2> QED
    BY <1>0, <1>2, <2>1 DEF PacketsOK, Shape, Done
<1>3. ASSUME NEW p \in Packet, packet[p].status \notin {"idle", "absorbed", "escaped"}
      PROVE  phase = "transport" /\ Shape(packet[p])
  BY <1>3 DEF PacketsOK, Done
<1>4. CASE UpdateSources
  <2>1. phase = "sources" /\ UNCHANGED packet
    BY <1>4 DEF UpdateSources
  <2> QED
    BY <2>1 DEF PacketsOK, Shape, Done
<1>5. CASE StartIteration
  <2>1. packet' = [p \in Packet |-> Idle] /\ UNCHANGED <<scenario, tables>>
    BY <1>5 DEF StartIteration
  <2> QED
    BY <1>0, <2>1, IdleShape DEF PacketsOK, Shape, Done
<1>6. CASE \/ KeepSources \/ NewSource \/ GetPhotonBatch \/ StartTransport \/ CalculateTemperature
           \/ UpdateCopyProperties \/ NextLoop \/ End \/ UNCHANGED vars
  <2>1. UNCHANGED <<packet, scenario, tables>> /\ (phase = "transport" => phase' = "transport")
    BY <1>6 DEF KeepSources, NewSource, GetPhotonBatch, StartTransport, CalculateTemperature,
      UpdateCopyProperties, NextLoop, End, vars
  <2> QED
    BY <1>1, <2>1 DEF PacketsOK
<1>7. CASE UpdateOriginalCounters
  <2>1. UNCHANGED <<packet, scenario, tables>> /\ \A p \in Packet : Done(packet[p])
    BY <1>7 DEF UpdateOriginalCounters, Done
  <2> QED
    BY <1>1, <2>1
<1>8. CASE Launch
  <2>1. phase = "transport" /\ phase' = "transport" /\ UNCHANGED <<scenario, tables>>
    BY <1>8 DEF Launch
  <2>2. PICK n \in Nat : Starts(n)
    BY <1>8, LaunchIs
  <2>3. PICK s \in Subgrid, c \in Inner, f \in [Started(n) -> Flights] : StartsAt(n, s, c, f)
    BY <2>2 DEF Starts
  <2>4. scenario \in Scenarios
    BY DEF TablesOK
  <2>5. DOMAIN packet' = Packet /\ \A p \in Packet : Shape(packet'[p])
    <3>1. /\ DOMAIN packet' = Packet
          /\ \A p \in Packet : p \notin Started(n) => packet'[p] = packet[p]
          /\ \A p \in Packet : p \in Started(n) => Shape(packet'[p])
      BY <2>3, <2>4, StartedShape
    <3> QED
      BY <3>1 DEF PacketsOK
  <2> QED
    BY <1>0, <2>1, <2>5 DEF PacketsOK, Shape, Done
<1>9. ASSUME NEW p \in Packet, Cross(p) PROVE PacketsOK'
  <2>1. packet[p].status = "inside" /\ UNCHANGED <<scenario, phase, tables>>
    BY <1>9 DEF Cross
  <2> QED
    BY <1>2, <1>3, <1>9, <2>1, CrossIs
<1>10. ASSUME NEW p \in Packet, CountPhoton(p) PROVE PacketsOK'
  <2>1. Counting(packet[p]) /\ UNCHANGED <<scenario, phase, tables>>
    BY <1>10 DEF CountPhoton
  <2> QED
    BY <1>2, <1>3, <1>10, <2>1, CountIs DEF Counting
<1>11. ASSUME NEW p \in Packet, Leave(p) PROVE PacketsOK'
  <2>1. packet[p].status = "inside" /\ UNCHANGED <<scenario, phase, tables>>
    BY <1>11 DEF Leave
  <2> QED
    BY <1>2, <1>3, <1>11, <2>1, LeaveIs
<1>12. ASSUME NEW p \in Packet, Absorb(p) PROVE PacketsOK'
  <2>1. packet[p].status = "ended" /\ UNCHANGED <<scenario, phase, tables>>
    BY <1>12 DEF Absorb
  <2> QED
    BY <1>2, <1>3, <1>12, <2>1, AbsorbIs
<1>13. ASSUME NEW p \in Packet, Reemit(p) PROVE PacketsOK'
  <2>1. packet[p].status = "ended" /\ UNCHANGED <<scenario, phase, tables>> /\ DOMAIN packet = Packet
    BY <1>13 DEF Reemit, PacketsOK
  <2> QED
    BY <1>2, <1>3, <1>13, <2>1, ReemitIs
<1> QED
  BY <1>4, <1>5, <1>6, <1>7, <1>8, <1>9, <1>10, <1>11, <1>12, <1>13 DEF Next

-----------------------------------------------------------------------------
(* The cells crossed in the part of the box of every subgrid are the ones  *)
(* that the subgrid and its copies have counted, until their counters are  *)
(* added up, and then those of the subgrid.                                *)
Split(count, total) ==
  \A i \in Original(grid) : total[i] = count[i] + SumOf(count, Copies(i))

CountsOK ==
  /\ phase \in {"batches", "transport"} =>
       intensity \in [Subgrid -> Nat] /\ crossed \in [Original(grid) -> Nat]
         /\ Split(intensity, crossed)
  /\ phase = "temperature" => \A i \in Original(grid) : intensity[i] = crossed[i]

(* The copies of a subgrid are finitely many other subgrids. *)
LEMMA CopiesFinite ==
  ASSUME TablesOK, NEW i \in Original(grid)
  PROVE  IsFiniteSet(Copies(i)) /\ Copies(i) \subseteq Subgrid /\ i \in Subgrid /\ i \notin Copies(i)
<1>1. IsGrid(grid) /\ levels \in Levels(grid)
  BY GridOfScenario DEF TablesOK
<1>2. IsFiniteSet(Copies(i))
  BY <1>1, FamiliesAre, BlockSize
<1> QED
  BY <1>2, OneOriginal

(* A cell that is counted in a subgrid is counted in its original.         *)
LEMMA OneMore ==
  ASSUME TablesOK, NEW f \in [Subgrid -> Nat], NEW t \in [Original(grid) -> Nat], Split(f, t),
         NEW s \in Subgrid
  PROVE  Split([f EXCEPT ![s] = @ + 1], [t EXCEPT ![OriginOf(s)] = @ + 1])
<1> DEFINE o == OriginOf(s)
           h == [f EXCEPT ![s] = @ + 1]
           u == [t EXCEPT ![o] = @ + 1]
<1>1. /\ o \in Original(grid) /\ (s \in Original(grid) => o = s)
      /\ (s \notin Original(grid) => s \in Copies(o))
      /\ \A i \in Original(grid) : s \in Copies(i) => s \notin Original(grid) /\ o = i
  BY OriginIs
<1>2. h \in [Subgrid -> Nat] /\ h[s] = f[s] + 1 /\ \A r \in Subgrid \ {s} : h[r] = f[r]
  OBVIOUS
<1>3. u[o] = t[o] + 1 /\ \A i \in Original(grid) \ {o} : u[i] = t[i]
  BY <1>1
<1> HIDE DEF h, u, o
<1> SUFFICES ASSUME NEW i \in Original(grid) PROVE u[i] = h[i] + SumOf(h, Copies(i))
  BY DEF Split, h, u, o
<1> DEFINE C == Copies(i)
<1>4. IsFiniteSet(C) /\ C \subseteq Subgrid /\ i \in Subgrid /\ i \notin C
  BY CopiesFinite
<1>5. t[i] = f[i] + SumOf(f, C)
  BY DEF Split
<1>6. s \in C => o = i /\ s # i
  BY <1>1
<1>7. s \notin C => SumOf(h, C) = SumOf(f, C)
  <2> HIDE DEF C
  <2> QED
    BY <1>2, <1>4, SumSame
<1>8. s \in C => SumOf(h, C) = SumOf(f, C) + 1
  <2> SUFFICES ASSUME s \in C PROVE SumOf(h, C) = SumOf(f, C) + 1
    OBVIOUS
  <2> HIDE DEF C
  <2> DEFINE D == C \ {s}
  <2>1. \A r \in C : f[r] \in Nat /\ h[r] \in Nat
    BY <1>2, <1>4
  <2>2. SumOf(f, C) = f[s] + SumOf(f, D) /\ SumOf(h, C) = h[s] + SumOf(h, D)
    BY <1>4, <2>1, SumWithout
  <2>3. IsFiniteSet(D) /\ \A r \in D : h[r] = f[r]
    BY <1>2, <1>4, FS_Subset
  <2>4. SumOf(h, D) = SumOf(f, D)
    <3> HIDE DEF D
    <3> QED
      BY <2>3, SumSame
  <2>5. SumOf(f, D) \in Nat
    <3>1. \A r \in D : f[r] \in Nat
      BY <2>1
    <3> HIDE DEF D
    <3> QED
      BY <2>3, <3>1, SumNat
  <2> HIDE DEF D
  <2> QED
    BY <1>2, <2>1, <2>2, <2>4, <2>5
<1>9. SumOf(f, C) \in Nat
  <2> HIDE DEF C
  <2>1. \A r \in C : f[r] \in Nat
    BY <1>4
  <2> QED
    BY <1>4, <2>1, SumNat
<1>10. f[i] \in Nat
  BY <1>4
<1> HIDE DEF C
<1>11. CASE s = i
  <2>1. s \notin C /\ o = i /\ h[i] = f[i] + 1
    BY <1>1, <1>2, <1>6, <1>11
  <2> QED
    BY <1>3, <1>5, <1>7, <1>9, <1>10, <2>1 DEF C
<1>12. CASE s \in C
  <2>1. o = i /\ h[i] = f[i]
    BY <1>2, <1>4, <1>6, <1>12
  <2> QED
    BY <1>3, <1>5, <1>8, <1>9, <1>10, <1>12, <2>1 DEF C
<1>13. CASE s # i /\ s \notin C
  <2>1. o # i /\ h[i] = f[i]
    BY <1>1, <1>2, <1>4, <1>13 DEF C
  <2>2. u[i] = t[i]
    BY <1>3, <2>1
  <2>3. SumOf(h, C) = SumOf(f, C)
    BY <1>7, <1>13
  <2>4. u[i] = h[i] + SumOf(h, C)
    BY <1>5, <2>1, <2>2, <2>3
  <2> QED
    BY <2>4 DEF C
<1> QED
  BY <1>11, <1>12, <1>13

(* Nothing was counted in the beginning. *)
LEMMA CountsInit == Init => CountsOK
  BY DEF Init, CountsOK

(* Every cell that is crossed is counted once, and the counters of the     *)
(* copies are added to those of their original when no packet moves.       *)
LEMMA CountsNext == TablesOK /\ PacketsOK /\ CountsOK /\ [Next]_vars => CountsOK'
<1> SUFFICES ASSUME TablesOK, PacketsOK, CountsOK, [Next]_vars PROVE CountsOK'
  OBVIOUS
<1>0. ASSUME UNCHANGED <<scenario, tables>>
      PROVE  grid' = grid /\ Subgrid' = Subgrid /\ \A i : Copies(i)' = Copies(i)
  BY <1>0 DEF grid, Subgrid, tables, Copies
<1>1. ASSUME phase' \notin {"batches", "transport", "temperature"} PROVE CountsOK'
  BY <1>1 DEF CountsOK
<1>2. ASSUME UNCHANGED <<scenario, tables, intensity, crossed>>,
             phase' \in {"batches", "transport"} => phase \in {"batches", "transport"},
             phase' = "temperature" => phase = "temperature"
      PROVE  CountsOK'
  BY <1>0, <1>2 DEF CountsOK, Split
<1>3. CASE UpdateSources \/ KeepSources \/ NewSource \/ UpdateCopyProperties \/ CalculateTemperature
           \/ NextLoop
  <2>1. phase' \notin {"batches", "transport", "temperature"}
    BY <1>3 DEF UpdateSources, KeepSources, NewSource, UpdateCopyProperties, CalculateTemperature,
      NextLoop
  <2> QED
    BY <1>1, <2>1
<1>4. CASE StartIteration
  <2>1. /\ intensity' = [s \in Subgrid |-> 0] /\ crossed' = [i \in Original(grid) |-> 0]
        /\ phase' = "batches" /\ UNCHANGED <<scenario, tables>>
    BY <1>4 DEF StartIteration
  <2> DEFINE f == [s \in Subgrid |-> 0]
             t == [i \in Original(grid) |-> 0]
  <2>2. Split(f, t)
    <3> SUFFICES ASSUME NEW i \in Original(grid) PROVE t[i] = f[i] + SumOf(f, Copies(i))
      BY DEF Split
    <3>1. IsFiniteSet(Copies(i)) /\ Copies(i) \subseteq Subgrid /\ i \in Subgrid
      BY CopiesFinite
    <3>2. t[i] = 0 /\ f[i] = 0 /\ \A r \in Copies(i) : f[r] = 0
      BY <3>1
    <3> HIDE DEF f, t
    <3>3. SumOf(f, Copies(i)) = 0
      BY <3>1, <3>2, SumZero
    <3> QED
      BY <3>2, <3>3
  <2>3. f \in [Subgrid -> Nat] /\ t \in [Original(grid) -> Nat]
    OBVIOUS
  <2> HIDE DEF f, t
  <2>4. intensity' = f /\ crossed' = t
    BY <2>1 DEF f, t
  <2> QED
    BY <1>0, <2>1, <2>2, <2>3, <2>4 DEF CountsOK, Split
<1>5. CASE GetPhotonBatch \/ StartTransport
  BY <1>2, <1>5 DEF GetPhotonBatch, StartTransport
<1>6. CASE Launch
  BY <1>2, <1>6 DEF Launch
<1>7. ASSUME NEW p \in Packet, Cross(p) PROVE CountsOK'
  <2> DEFINE q == packet[p]
             s == q.subgrid
             c == [a \in Axis |-> Base(s)[a] + q.cell[a]]
  <2>1. /\ q.status = "inside" /\ IsInside(grid.cells, q.cell)
        /\ UNCHANGED <<scenario, tables, phase>>
        /\ intensity' = [intensity EXCEPT ![s] = @ + 1]
        /\ crossed' = [crossed EXCEPT ![SubgridAt(c)] = @ + 1]
    BY <1>7 DEF Cross
  <2>2. phase = "transport" /\ s \in Subgrid
    BY <2>1 DEF PacketsOK, Shape, Done
  <2>3. SubgridAt(c) = OriginOf(s)
    BY <2>1, <2>2, CellInside
  <2>4. OriginOf(s) \in Original(grid)
    BY <2>2, OriginIs
  <2>5. intensity \in [Subgrid -> Nat] /\ crossed \in [Original(grid) -> Nat] /\ Split(intensity, crossed)
    BY <2>2 DEF CountsOK
  <2> HIDE DEF q, s, c
  <2>6. Split(intensity', crossed')
    <3>1. Split([intensity EXCEPT ![s] = @ + 1], [crossed EXCEPT ![OriginOf(s)] = @ + 1])
      BY <2>2, <2>5, OneMore
    <3> QED
      BY <2>1, <2>3, <3>1
  <2>7. intensity' \in [Subgrid -> Nat] /\ crossed' \in [Original(grid) -> Nat]
    BY <2>1, <2>2, <2>3, <2>4, <2>5
  <2> QED
    BY <1>0, <2>1, <2>2, <2>6, <2>7 DEF CountsOK, Split
<1>8. CASE \/ End \/ UNCHANGED vars
           \/ \E p \in Packet : CountPhoton(p) \/ Leave(p) \/ Absorb(p) \/ Reemit(p)
  <2>1. UNCHANGED <<scenario, tables, intensity, crossed, phase>>
    BY <1>8 DEF vars, CountPhoton, Leave, Absorb, Reemit, End
  <2> QED
    BY <1>2, <2>1
<1>9. CASE UpdateOriginalCounters
  <2>1. /\ phase = "transport" /\ phase' = "temperature"
        /\ UNCHANGED <<scenario, tables, crossed>>
        /\ intensity' = [s \in Subgrid |->
                     IF s < Count(grid) THEN intensity[s] + SumOver(s) ELSE intensity[s]]
    BY <1>9 DEF UpdateOriginalCounters
  <2>2. Split(intensity, crossed)
    BY <2>1 DEF CountsOK
  <2>3. ASSUME NEW i \in Original(grid) PROVE intensity'[i] = crossed[i]
    <3>1. SumOver(i) = SumOf(intensity, Copies(i))
      BY Zenon DEF SumOver, SumOf
    <3>2. i \in Subgrid /\ i < Count(grid)
      <4>1. IsGrid(grid) /\ levels \in Levels(grid) /\ Subgrid = Original(grid) \cup CopyRange(grid, levels)
        BY GridOfScenario DEF TablesOK, Subgrid
      <4> QED
        BY <4>1, SubgridsAre
    <3> QED
      BY <2>1, <2>2, <3>1, <3>2 DEF Split
  <2> QED
    BY <1>0, <2>1, <2>3 DEF CountsOK
<1> QED
  BY <1>3, <1>4, <1>5, <1>6, <1>7, <1>8, <1>9 DEF Next

(* When the temperature is computed the counters of an original are the    *)
(* cells that packets crossed in its part of the box in this iteration, in *)
(* whichever copy, each once.                                              *)
THEOREM CountersMatch == Spec => []CountersExact
<1>1. CountsOK => CountersExact
  BY DEF CountsOK, CountersExact
<1> QED
  BY <1>1, TablesInit, TablesNext, SourcesInit, SourcesNext, PacketsInit, PacketsNext,
     CountsInit, CountsNext, PTL DEF Spec

-----------------------------------------------------------------------------
(* The walk of the packets in the undivided box.                           *)
Places == [p \in Packet |-> Place(packet[p])]
Flying == [p \in Packet |-> packet[p].flight]
Turning == [p \in Packet |-> packet[p].turns]

(* The packets that were emitted are the first ones.                       *)
Numbered == \E k \in 0 .. Cardinality(Packet) : Emitted = 1 .. k

(* The place of a packet is its cell in the box, unless it is done. *)
LEMMA PlaceIs ==
  ASSUME NEW q, Shape(q)
  PROVE  /\ q.status = "idle" => Place(q) = <<>>
         /\ q.status = "absorbed" => Place(q) = <<0>>
         /\ q.status = "escaped" => Place(q) = <<1>>
         /\ ~ Done(q) => Place(q) = CellInBox(q.subgrid, q.cell)
<1>1. ASSUME ~ Done(q) PROVE Place(q) = CellInBox(q.subgrid, q.cell)
  <2> DEFINE s == q.subgrid
             c == q.cell
  <2>1. Place(q) = [a \in Axis |-> IF grid.periodic[a] THEN (Base(s)[a] + c[a]) % WalkBox.size[a]
                                   ELSE Base(s)[a] + c[a]]
    BY <1>1 DEF Place, Done
  <2>2. \A a \in Axis : WalkBox.size[a] = BoxSize(a)
    BY DEF WalkBox, BoxSize
  <2> HIDE DEF s, c
  <2>3. Place(q) = CellInBox(s, c)
    BY <2>1, <2>2 DEF CellInBox, Wrapped
  <2> QED
    BY <2>3 DEF s, c
<1> QED
  BY <1>1 DEF Place

(* A cell of the box has three coordinates, the other places do not. *)
LEMMA PlaceLength ==
  ASSUME NEW q, Shape(q)
  PROVE  Len(Place(q)) = 3 <=> ~ Done(q)
<1>1. CASE Done(q)
  <2>1. Place(q) \in {<<>>, <<0>>, <<1>>}
    BY <1>1, PlaceIs DEF Done
  <2>2. Len(<<>>) = 0 /\ Len(<<0>>) = 1 /\ Len(<<1>>) = 1
    OBVIOUS
  <2> HIDE DEF Place
  <2> QED
    BY <1>1, <2>1, <2>2
<1>2. CASE ~ Done(q)
  <2>1. Place(q) = CellInBox(q.subgrid, q.cell)
    BY <1>2, PlaceIs
  <2>2. DOMAIN CellInBox(q.subgrid, q.cell) = 1 .. 3
    BY DEF CellInBox, Axis
  <2>3. Len(CellInBox(q.subgrid, q.cell)) = 3
    <3> DEFINE c == CellInBox(q.subgrid, q.cell)
    <3>1. DOMAIN c = 1 .. 3
      BY <2>2
    <3> HIDE DEF c
    <3>2. Len(c) = 3
      BY <3>1, LenIs
    <3> QED
      BY <3>2 DEF c
  <2> QED
    BY <1>2, <2>1, <2>3
<1> QED
  BY <1>1, <1>2

(* The cells of a subgrid are cells of the box. *)
LEMMA InnerInBox ==
  ASSUME TablesOK, NEW s \in Subgrid, NEW c \in Inner
  PROVE  /\ Walk!InBox(CellInBox(s, c))
         /\ \A a \in Axis : /\ CellInBox(s, c)[a] = Base(s)[a] + c[a]
                            /\ Base(s)[a] + c[a] \in 0 .. BoxSize(a) - 1
<1>1. ASSUME NEW a \in Axis
      PROVE  /\ CellInBox(s, c)[a] = Base(s)[a] + c[a]
             /\ Base(s)[a] + c[a] \in 0 .. BoxSize(a) - 1
  <2> DEFINE n == grid.n[a]
             m == grid.cells[a]
             p == GridPosition(grid, OriginOf(s))[a]
             r == c[a]
             x == Base(s)[a] + c[a]
  <2>1. /\ n \in Nat \ {0} /\ m \in Nat \ {0} /\ p \in 0 .. n - 1 /\ r \in 0 .. m - 1
        /\ x = p * m + r /\ grid.periodic[a] \in BOOLEAN
    BY BaseIs, InnerAround DEF TablesOK
  <2>2. CellInBox(s, c)[a] = Wrapped(grid.periodic[a], x, n * m) /\ BoxSize(a) = n * m
    BY DEF CellInBox, BoxSize
  <2> HIDE DEF n, m, p, r, x
  <2>3. p \in Nat /\ p < n /\ n \in Nat /\ r \in Nat
    BY <2>1
  <2>4. p * m \in Nat /\ n * m \in Nat
    BY <2>1, <2>3
  <2>5. p * m + r < n * m
    BY <2>1, <2>3, BelowProduct
  <2> DEFINE z == n * m
             y == p * m
  <2>6. z \in Nat /\ y \in Nat /\ x = y + r /\ y + r < z
    BY <2>1, <2>4, <2>5
  <2> HIDE DEF z, y
  <2>7. x \in 0 .. z - 1 /\ x % z = x
    BY <2>3, <2>6
  <2>8. Wrapped(grid.periodic[a], x, z) = x
    BY <2>7 DEF Wrapped
  <2> QED
    BY <2>2, <2>7, <2>8 DEF x, z
<1>2. Len(CellInBox(s, c)) = 3
  <2> DEFINE b == CellInBox(s, c)
  <2>1. DOMAIN b = 1 .. 3
    BY DEF CellInBox, Axis
  <2> HIDE DEF b
  <2>2. Len(b) = 3
    BY <2>1, LenIs
  <2> QED
    BY <2>2 DEF b
<1>3. \A a \in Axis : WalkBox.size[a] = BoxSize(a)
  BY DEF WalkBox, BoxSize
<1>4. \A a \in Axis : CellInBox(s, c)[a] \in 0 .. WalkBox.size[a] - 1
  BY <1>1, <1>3
<1>5. Walk!Axis = Axis
  BY DEF Walk!Axis, Axis
<1>6. Walk!InBox(CellInBox(s, c))
  BY <1>2, <1>4, <1>5 DEF Walk!InBox
<1> QED
  BY <1>1, <1>6

(* A step from a cell of a subgrid is a step in the box. *)
LEMMA MoveInBox ==
  ASSUME TablesOK, NEW s \in Subgrid, NEW c \in Inner, NEW f \in Flights, NEW S,
         NEW d, d = [a \in Axis |-> IF a \in S THEN c[a] + f[a] ELSE c[a]]
  PROVE  CellInBox(s, d) = Walk!Next3(CellInBox(s, c), f, S)
<1> DEFINE b == CellInBox(s, c)
<1>1. \A a \in Axis : /\ b[a] = Base(s)[a] + c[a] /\ b[a] \in 0 .. BoxSize(a) - 1
                      /\ b[a] = Wrapped(grid.periodic[a], Base(s)[a] + c[a], BoxSize(a))
  <2>1. \A a \in Axis : b[a] = Wrapped(grid.periodic[a], Base(s)[a] + c[a], BoxSize(a))
    BY DEF CellInBox
  <2> QED
    BY <2>1, InnerInBox
<1>2. \A a \in Axis : Base(s)[a] \in Int /\ c[a] \in Int /\ f[a] \in Int
  BY BaseIs, PacketAssumption DEF Inner
<1>3. Walk!Axis = Axis
  BY DEF Walk!Axis, Axis
<1>4. \A a \in Axis : WalkBox.size[a] = BoxSize(a) /\ WalkBox.periodic[a] = grid.periodic[a]
  BY DEF WalkBox, BoxSize
<1> HIDE DEF b
<1>5. Walk!Next3(b, f, S)
      = [a \in Axis |-> IF a \notin S THEN b[a]
                        ELSE IF grid.periodic[a] THEN (b[a] + f[a]) % BoxSize(a) ELSE b[a] + f[a]]
  BY <1>3, <1>4 DEF Walk!Next3
<1>6. CellInBox(s, d) = [a \in Axis |-> Wrapped(grid.periodic[a], Base(s)[a] + d[a], BoxSize(a))]
  BY DEF CellInBox
<1>7. ASSUME NEW a \in Axis
      PROVE  Wrapped(grid.periodic[a], Base(s)[a] + d[a], BoxSize(a))
             = IF a \notin S THEN b[a]
               ELSE IF grid.periodic[a] THEN (b[a] + f[a]) % BoxSize(a) ELSE b[a] + f[a]
  <2>1. CASE a \notin S
    <3>1. d[a] = c[a]
      BY <2>1
    <3> QED
      BY <1>1, <2>1, <3>1
  <2>2. CASE a \in S
    <3> DEFINE x == Base(s)[a]
               y == c[a]
               z == f[a]
    <3>1. x \in Int /\ y \in Int /\ z \in Int /\ d[a] = y + z /\ b[a] = x + y
      BY <1>1, <1>2, <2>2
    <3> HIDE DEF x, y, z
    <3>2. x + d[a] = b[a] + z
      BY <3>1
    <3> QED
      BY <2>2, <3>2 DEF Wrapped, x, z
  <2> QED
    BY <2>1, <2>2
<1>8. CellInBox(s, d) = Walk!Next3(b, f, S)
  BY <1>5, <1>6, <1>7
<1> QED
  BY <1>8 DEF b

(* A cell around a subgrid that is out of the box. *)
LEMMA OutOfBox ==
  ASSUME NEW s, NEW c,
         \E a \in Axis : ~ grid.periodic[a] /\ Base(s)[a] + c[a] \notin 0 .. BoxSize(a) - 1
  PROVE  ~ Walk!InBox(CellInBox(s, c))
<1>1. PICK a \in Axis : ~ grid.periodic[a] /\ Base(s)[a] + c[a] \notin 0 .. BoxSize(a) - 1
  OBVIOUS
<1>2. CellInBox(s, c)[a] = Base(s)[a] + c[a]
  BY <1>1 DEF CellInBox, Wrapped
<1>3. WalkBox.size[a] = BoxSize(a)
  BY DEF WalkBox, BoxSize
<1>4. Walk!Axis = Axis
  BY DEF Walk!Axis, Axis
<1> QED
  BY <1>1, <1>2, <1>3, <1>4 DEF Walk!InBox

-----------------------------------------------------------------------------
(* The places of the packets change with the packets only. *)
LEMMA PlacesSame ==
  ASSUME UNCHANGED <<scenario, tables>>
  PROVE  /\ Places' = [p \in Packet |-> Place(packet'[p])]
         /\ Flying' = [p \in Packet |-> packet'[p].flight]
         /\ Turning' = [p \in Packet |-> packet'[p].turns]
         /\ WalkBox' = WalkBox
  BY DEF Places, Flying, Turning, Place, Base, WalkBox, grid, tables

(* A step of one packet is one of its place, flight direction and turns.   *)
LEMMA PlacesBecome ==
  ASSUME UNCHANGED <<scenario, tables>>, NEW p \in Packet, NEW r, Becomes(p, r),
         DOMAIN packet = Packet
  PROVE  /\ Places' = [Places EXCEPT ![p] = Place(r)]
         /\ Flying' = [Flying EXCEPT ![p] = r.flight]
         /\ Turning' = [Turning EXCEPT ![p] = r.turns]
         /\ WalkBox' = WalkBox
<1>1. packet' = [packet EXCEPT ![p] = r]
  BY DEF Becomes
<1>2. \A x \in Packet : packet'[x] = IF x = p THEN r ELSE packet[x]
  BY <1>1
<1> HIDE DEF Place
<1>3. [x \in Packet |-> Place(packet'[x])] = [Places EXCEPT ![p] = Place(r)]
  BY <1>2 DEF Places
<1>4. [x \in Packet |-> packet'[x].flight] = [Flying EXCEPT ![p] = r.flight]
  BY <1>2 DEF Flying
<1>5. [x \in Packet |-> packet'[x].turns] = [Turning EXCEPT ![p] = r.turns]
  BY <1>2 DEF Turning
<1> QED
  BY <1>3, <1>4, <1>5, PlacesSame

(* The walk as it is seen from the packets. *)
Stutter == UNCHANGED <<WalkBox, Places, Flying, Turning>>

(* Nothing in it changes. *)
LEMMA StutterIs == Stutter => UNCHANGED Walk!vars
  BY DEF Stutter, Walk!vars, Places, Flying, Turning

(* A packet that ends in its cell stays there, and one that goes on makes  *)
(* a step.                                                                 *)
LEMMA CrossWalks ==
  ASSUME TablesOK, DOMAIN packet = Packet, UNCHANGED <<scenario, tables>>,
         NEW p \in Packet, Shape(packet[p]), NEW r, Crosses(packet[p], r), Becomes(p, r)
  PROVE  Walk!Step(p) \/ Stutter
<1> DEFINE q == packet[p]
<1>1. /\ Places' = [Places EXCEPT ![p] = Place(r)] /\ Flying' = [Flying EXCEPT ![p] = r.flight]
      /\ Turning' = [Turning EXCEPT ![p] = r.turns] /\ WalkBox' = WalkBox
  BY PlacesBecome
<1>2. /\ Places = [x \in Packet |-> Places[x]] /\ Places[p] = Place(q)
      /\ Flying = [x \in Packet |-> Flying[x]] /\ Flying[p] = q.flight
      /\ Turning = [x \in Packet |-> Turning[x]] /\ Turning[p] = q.turns
  BY DEF Places, Flying, Turning
<1>3. ~ Done(q) /\ q.subgrid \in Subgrid /\ q.cell \in Inner /\ q.flight \in Flights
  BY DEF Crosses, Shape, Done
<1>4. Place(q) = CellInBox(q.subgrid, q.cell)
  BY <1>3, PlaceIs
<1>5. Shape(r) /\ Keeps(q, r)
  BY DEF Becomes, Crosses
<1>6. Flying' = Flying
  BY <1>1, <1>2, <1>5 DEF Keeps
<1>7. CASE r.status \in {"ended", "ended counted"} /\ r.cell = q.cell /\ r.turns = q.turns
  <2>1. Place(r) = Place(q)
    <3>1. ~ Done(r) /\ r.subgrid = q.subgrid /\ r.cell = q.cell
      BY <1>5, <1>7 DEF Done, Keeps
    <3> QED
      BY <1>4, <1>5, <3>1, PlaceIs
  <2>2. Places' = Places /\ Turning' = Turning
    BY <1>1, <1>2, <1>7, <2>1
  <2> QED
    BY <1>1, <1>6, <2>2 DEF Stutter
<1>8. CASE /\ r.status \in {"inside", "inside counted"} /\ r.turns = q.turns + 1
           /\ \E S \in SUBSET {a \in Axis : q.flight[a] # 0} \ {{}} :
                r.cell = [a \in Axis |-> IF a \in S THEN q.cell[a] + q.flight[a] ELSE q.cell[a]]
  <2>1. PICK S \in SUBSET {a \in Axis : q.flight[a] # 0} \ {{}} :
          r.cell = [a \in Axis |-> IF a \in S THEN q.cell[a] + q.flight[a] ELSE q.cell[a]]
    BY <1>8
  <2>2. Place(r) = Walk!Next3(Place(q), q.flight, S)
    <3>1. ~ Done(r) /\ r.subgrid = q.subgrid
      BY <1>5, <1>8 DEF Done, Keeps
    <3>2. Place(r) = CellInBox(q.subgrid, r.cell)
      BY <1>5, <3>1, PlaceIs
    <3> DEFINE s == q.subgrid
               c == q.cell
               f == q.flight
               d == r.cell
    <3>3. s \in Subgrid /\ c \in Inner /\ f \in Flights
          /\ d = [a \in Axis |-> IF a \in S THEN c[a] + f[a] ELSE c[a]]
      BY <1>3, <2>1
    <3> HIDE DEF s, c, f, d
    <3>4. CellInBox(s, d) = Walk!Next3(CellInBox(s, c), f, S)
      BY <3>3, MoveInBox
    <3> QED
      BY <1>4, <3>2, <3>4 DEF s, c, f, d
  <2>3. Walk!InBox(Place(q))
    BY <1>3, <1>4, InnerInBox
  <2>4. Walk!Axis = Axis
    BY DEF Walk!Axis, Axis
  <2>5. Places' = [Places EXCEPT ![p] = Walk!Next3(Places[p], Flying[p], S)]
        /\ Walk!InBox(Places[p]) /\ S \in SUBSET {a \in Walk!Axis : Flying[p][a] # 0} \ {{}}
        /\ Turning' = [Turning EXCEPT ![p] = Turning[p] + 1]
    BY <1>1, <1>2, <1>8, <2>1, <2>2, <2>3, <2>4
  <2>6. Walk!Step(p)
    BY <1>1, <1>6, <2>5 DEF Walk!Step, Places, Flying, Turning
  <2> QED
    BY <2>6
<1> QED
  BY <1>7, <1>8 DEF Crosses

(* A packet that is counted stays in its place. *)
LEMMA CountWalks ==
  ASSUME DOMAIN packet = Packet, UNCHANGED <<scenario, tables>>,
         NEW p \in Packet, Shape(packet[p]), NEW r, IsCounted(packet[p], r), Becomes(p, r)
  PROVE  Stutter
<1> DEFINE q == packet[p]
<1>1. /\ Places' = [Places EXCEPT ![p] = Place(r)] /\ Flying' = [Flying EXCEPT ![p] = r.flight]
      /\ Turning' = [Turning EXCEPT ![p] = r.turns] /\ WalkBox' = WalkBox
  BY PlacesBecome
<1>2. /\ Places = [x \in Packet |-> Places[x]] /\ Places[p] = Place(q)
      /\ Flying = [x \in Packet |-> Flying[x]] /\ Flying[p] = q.flight
      /\ Turning = [x \in Packet |-> Turning[x]] /\ Turning[p] = q.turns
  BY DEF Places, Flying, Turning
<1>3. ~ Done(q) /\ ~ Done(r) /\ Shape(r) /\ r.subgrid = q.subgrid /\ r.cell = q.cell
      /\ r.flight = q.flight /\ r.turns = q.turns
  BY DEF IsCounted, Keeps, Done, Becomes
<1>4. Place(r) = Place(q)
  BY <1>3, PlaceIs
<1> QED
  BY <1>1, <1>2, <1>3, <1>4 DEF Stutter

(* A packet that leaves a subgrid stays in its place or escapes. *)
LEMMA LeaveWalks ==
  ASSUME DOMAIN packet = Packet, UNCHANGED <<scenario, tables>>,
         NEW p \in Packet, Shape(packet[p]), NEW r, Leaves(packet[p], r), Becomes(p, r)
  PROVE  Walk!Escape(p) \/ Stutter
<1> DEFINE q == packet[p]
<1>1. /\ Places' = [Places EXCEPT ![p] = Place(r)] /\ Flying' = [Flying EXCEPT ![p] = r.flight]
      /\ Turning' = [Turning EXCEPT ![p] = r.turns] /\ WalkBox' = WalkBox
  BY PlacesBecome
<1>2. /\ Places = [x \in Packet |-> Places[x]] /\ Places[p] = Place(q)
      /\ Flying = [x \in Packet |-> Flying[x]] /\ Flying[p] = q.flight
      /\ Turning = [x \in Packet |-> Turning[x]] /\ Turning[p] = q.turns
  BY DEF Places, Flying, Turning
<1>3. ~ Done(q) /\ Shape(r) /\ r.flight = q.flight /\ r.turns = q.turns
  BY DEF Leaves, Done, Becomes
<1>4. Place(q) = CellInBox(q.subgrid, q.cell)
  BY <1>3, PlaceIs
<1>5. Flying' = Flying /\ Turning' = Turning
  BY <1>1, <1>2, <1>3
<1>6. CASE r.status = "inside" /\ CellInBox(r.subgrid, r.cell) = CellInBox(q.subgrid, q.cell)
  <2>1. Place(r) = Place(q)
    <3>1. ~ Done(r)
      BY <1>6 DEF Done
    <3> QED
      BY <1>3, <1>4, <1>6, <3>1, PlaceIs
  <2> QED
    BY <1>1, <1>2, <1>5, <2>1 DEF Stutter
<1>7. CASE /\ r.status = "escaped"
           /\ \E a \in Axis :
                ~ grid.periodic[a] /\ Base(q.subgrid)[a] + q.cell[a] \notin 0 .. BoxSize(a) - 1
  <2>1. Place(r) = Walk!Escaped
    BY <1>3, <1>7, PlaceIs DEF Walk!Escaped
  <2>2. ~ Walk!InBox(Places[p])
    <3> DEFINE s == q.subgrid
               c == q.cell
    <3>1. \E a \in Axis : ~ grid.periodic[a] /\ Base(s)[a] + c[a] \notin 0 .. BoxSize(a) - 1
      BY <1>7
    <3> HIDE DEF s, c
    <3>2. ~ Walk!InBox(CellInBox(s, c))
      BY <3>1, OutOfBox
    <3> QED
      BY <1>2, <1>4, <3>2 DEF s, c
  <2>3. Len(Places[p]) = 3
    BY <1>2, <1>3, PlaceLength
  <2>4. Places' = [Places EXCEPT ![p] = Walk!Escaped]
    BY <1>1, <2>1
  <2>5. Walk!Escape(p)
    BY <1>1, <1>5, <2>2, <2>3, <2>4 DEF Walk!Escape, Places, Flying, Turning
  <2> QED
    BY <2>5
<1> QED
  BY <1>6, <1>7 DEF Leaves

(* A packet is absorbed in a cell of the box. *)
LEMMA AbsorbWalks ==
  ASSUME TablesOK, DOMAIN packet = Packet, UNCHANGED <<scenario, tables>>,
         NEW p \in Packet, Shape(packet[p]), NEW r, IsAbsorbed(packet[p], r), Becomes(p, r)
  PROVE  Walk!Absorb(p)
<1> DEFINE q == packet[p]
<1>1. /\ Places' = [Places EXCEPT ![p] = Place(r)] /\ Flying' = [Flying EXCEPT ![p] = r.flight]
      /\ Turning' = [Turning EXCEPT ![p] = r.turns] /\ WalkBox' = WalkBox
  BY PlacesBecome
<1>2. /\ Places = [x \in Packet |-> Places[x]] /\ Places[p] = Place(q)
      /\ Flying = [x \in Packet |-> Flying[x]] /\ Flying[p] = q.flight
      /\ Turning = [x \in Packet |-> Turning[x]] /\ Turning[p] = q.turns
  BY DEF Places, Flying, Turning
<1>3. ~ Done(q) /\ Shape(r) /\ r.flight = q.flight /\ r.turns = q.turns /\ r.status = "absorbed"
      /\ q.subgrid \in Subgrid /\ q.cell \in Inner
  BY DEF IsAbsorbed, Keeps, Done, Shape, Becomes
<1>4. Walk!InBox(Places[p])
  BY <1>2, <1>3, PlaceIs, InnerInBox
<1>5. Places' = [Places EXCEPT ![p] = Walk!Absorbed]
  BY <1>1, <1>3, PlaceIs DEF Walk!Absorbed
<1>6. Flying' = Flying /\ Turning' = Turning
  BY <1>1, <1>2, <1>3
<1> QED
  BY <1>1, <1>4, <1>5, <1>6 DEF Walk!Absorb, Places, Flying, Turning

(* A packet is reemitted where it is. *)
LEMMA ReemitWalks ==
  ASSUME TablesOK, DOMAIN packet = Packet, UNCHANGED <<scenario, tables>>,
         NEW p \in Packet, Shape(packet[p]), NEW r, IsReemitted(packet[p], r), Becomes(p, r)
  PROVE  Walk!Scatter(p)
<1> DEFINE q == packet[p]
<1>1. /\ Places' = [Places EXCEPT ![p] = Place(r)] /\ Flying' = [Flying EXCEPT ![p] = r.flight]
      /\ Turning' = [Turning EXCEPT ![p] = r.turns] /\ WalkBox' = WalkBox
  BY PlacesBecome
<1>2. /\ Places = [x \in Packet |-> Places[x]] /\ Places[p] = Place(q)
      /\ Turning = [x \in Packet |-> Turning[x]] /\ Turning[p] = q.turns
  BY DEF Places, Turning
<1>3. /\ ~ Done(q) /\ ~ Done(r) /\ Shape(r) /\ r.flight \in Flights /\ r.turns = q.turns + 1
      /\ q.subgrid \in Subgrid /\ q.cell \in Inner /\ r.subgrid = q.subgrid /\ r.cell = q.cell
  BY DEF IsReemitted, Done, Shape, Becomes
<1>4. Walk!InBox(Places[p])
  BY <1>2, <1>3, PlaceIs, InnerInBox
<1>5. Place(r) = Place(q)
  BY <1>3, PlaceIs
<1>6. Places' = Places /\ Turning' = [Turning EXCEPT ![p] = Turning[p] + 1]
  BY <1>1, <1>2, <1>3, <1>5
<1> QED
  BY <1>1, <1>3, <1>4, <1>6 DEF Walk!Scatter, Places, Flying, Turning

-----------------------------------------------------------------------------
(* The first packets are those that were emitted, as many as there are.    *)
LEMMA EmittedIs ==
  ASSUME NEW k \in 0 .. Cardinality(Packet), Emitted = 1 .. k, DOMAIN packet = Packet
  PROVE  Cardinality(Emitted) = k /\ \A n : Started(n) = k + 1 .. k + n
<1>1. k \in Int /\ 1 \in Int /\ k >= 0
  BY PacketAssumption
<1>2. Cardinality(1 .. k) = k
  BY <1>1, FS_Interval
<1> QED
  BY <1>2 DEF Started

(* No packet was emitted in the beginning. *)
LEMMA NumberedInit == Init => Numbered
<1> SUFFICES ASSUME Init PROVE Numbered
  OBVIOUS
<1>1. Emitted = {}
  BY DEF Init, Emitted, Idle
<1>2. 0 \in 0 .. Cardinality(Packet) /\ Emitted = 1 .. 0
  BY <1>1, PacketAssumption
<1> QED
  BY <1>2 DEF Numbered

(* A source task emits the packets that follow. *)
LEMMA NumberedNext == TablesOK /\ SourcesOK /\ PacketsOK /\ Numbered /\ [Next]_vars => Numbered'
<1> SUFFICES ASSUME TablesOK, SourcesOK, PacketsOK, Numbered, [Next]_vars PROVE Numbered'
  OBVIOUS
<1> DEFINE N == Cardinality(Packet)
<1>0. N \in Nat /\ Packet = 1 .. N
  BY PacketAssumption
<1>1. ASSUME Emitted' = Emitted PROVE Numbered'
  BY <1>1 DEF Numbered
<1>2. ASSUME NEW p \in Packet, NEW r, Becomes(p, r), packet[p].status # "idle", r.status # "idle"
      PROVE  Numbered'
  <2>1. \A x \in Packet : packet'[x].status # "idle" <=> packet[x].status # "idle"
    BY <1>2 DEF Becomes, PacketsOK
  <2> QED
    BY <1>1, <2>1 DEF Emitted
<1>3. \A p \in Packet : Shape(packet[p])
  BY DEF PacketsOK
<1>4. CASE StartIteration
  <2>1. Emitted' = {}
    BY <1>4 DEF StartIteration, Emitted, Idle
  <2>2. 0 \in 0 .. N /\ Emitted' = 1 .. 0
    BY <1>0, <2>1
  <2> QED
    BY <2>2 DEF Numbered
<1>5. CASE Launch
  <2>1. PICK n \in Nat : Starts(n)
    BY <1>5, LaunchIs
  <2>2. PICK s \in Subgrid, c \in Inner, f \in [Started(n) -> Flights] : StartsAt(n, s, c, f)
    BY <2>1 DEF Starts
  <2>3. PICK k \in 0 .. N : Emitted = 1 .. k
    BY DEF Numbered
  <2>4. Started(n) = k + 1 .. k + n
    BY <2>3, EmittedIs DEF PacketsOK
  <2>5. /\ \A p \in Packet : p \notin Started(n) => packet'[p] = packet[p]
        /\ \A p \in Packet : p \in Started(n) => packet'[p].status = "inside"
    BY <2>2, StartedShape DEF TablesOK
  <2>6. \A p \in Packet : packet'[p].status # "idle" <=> p \in Emitted \/ p \in Started(n)
    BY <2>5 DEF Emitted
  <2> DEFINE m == IF k + n <= N THEN k + n ELSE N
  <2>7. Emitted' = {p \in Packet : p \in Emitted \/ p \in Started(n)}
    BY <2>6 DEF Emitted
  <2>8. {p \in Packet : p \in Emitted \/ p \in Started(n)} = 1 .. m
    <3> HIDE DEF N
    <3>1. ASSUME NEW p PROVE (p \in 1 .. N /\ (p \in 1 .. k \/ p \in k + 1 .. k + n)) <=> p \in 1 .. m
      BY <1>0
    <3>2. \A p : p \in {x \in Packet : x \in Emitted \/ x \in Started(n)}
                 <=> (p \in 1 .. N /\ (p \in 1 .. k \/ p \in k + 1 .. k + n))
      BY <1>0, <2>3, <2>4
    <3> HIDE DEF m
    <3> QED
      BY <3>1, <3>2
  <2>9. m \in 0 .. N
    <3> HIDE DEF N
    <3> QED
      BY <1>0
  <2> HIDE DEF m
  <2> QED
    BY <2>7, <2>8, <2>9 DEF Numbered
<1>6. ASSUME NEW p \in Packet, Cross(p) PROVE Numbered'
  <2>1. PICK r : Crosses(packet[p], r) /\ Becomes(p, r)
    BY <1>3, <1>6, CrossIs
  <2> QED
    BY <1>2, <2>1 DEF Crosses
<1>7. ASSUME NEW p \in Packet, CountPhoton(p) PROVE Numbered'
  <2>1. PICK r : IsCounted(packet[p], r) /\ Becomes(p, r)
    BY <1>3, <1>7, CountIs
  <2> QED
    BY <1>2, <2>1 DEF IsCounted, Done
<1>8. ASSUME NEW p \in Packet, Leave(p) PROVE Numbered'
  <2>1. PICK r : Leaves(packet[p], r) /\ Becomes(p, r)
    BY <1>3, <1>8, LeaveIs
  <2> QED
    BY <1>2, <2>1 DEF Leaves
<1>9. ASSUME NEW p \in Packet, Absorb(p) PROVE Numbered'
  <2>1. PICK r : IsAbsorbed(packet[p], r) /\ Becomes(p, r)
    BY <1>3, <1>9, AbsorbIs
  <2> QED
    BY <1>2, <2>1 DEF IsAbsorbed
<1>10. ASSUME NEW p \in Packet, Reemit(p) PROVE Numbered'
  <2>1. PICK r : IsReemitted(packet[p], r) /\ Becomes(p, r)
    BY <1>3, <1>10, ReemitIs DEF PacketsOK
  <2> QED
    BY <1>2, <2>1 DEF IsReemitted
<1>11. CASE \/ UpdateSources \/ KeepSources \/ NewSource \/ GetPhotonBatch \/ StartTransport
            \/ UpdateOriginalCounters \/ CalculateTemperature \/ UpdateCopyProperties
            \/ NextLoop \/ End \/ UNCHANGED vars
  <2>1. UNCHANGED packet
    BY <1>11 DEF UpdateSources, KeepSources, NewSource, GetPhotonBatch, StartTransport,
      UpdateOriginalCounters, CalculateTemperature, UpdateCopyProperties, NextLoop, End, vars
  <2> QED
    BY <1>1, <2>1 DEF Emitted
<1> QED
  BY <1>4, <1>5, <1>6, <1>7, <1>8, <1>9, <1>10, <1>11 DEF Next

(* The packets of a source task are emitted from one cell of the box. *)
LEMMA LaunchWalks ==
  ASSUME TablesOK, SourcesOK, PacketsOK, Numbered, Launch
  PROVE  Walk!Emit \/ Stutter
<1>1. UNCHANGED <<scenario, tables>>
  BY DEF Launch
<1>2. PICK n \in Nat : Starts(n)
  BY LaunchIs
<1>3. PICK s \in Subgrid, c \in Inner, f \in [Started(n) -> Flights] : StartsAt(n, s, c, f)
  BY <1>2 DEF Starts
<1>4. /\ DOMAIN packet' = Packet
      /\ \A p \in Packet : p \notin Started(n) => packet'[p] = packet[p]
      /\ \A p \in Packet : p \in Started(n) =>
           /\ Shape(packet'[p]) /\ packet'[p].status = "inside" /\ packet'[p].subgrid = s
           /\ packet'[p].cell = c /\ packet'[p].flight \in Flights /\ packet'[p].turns = 0
  BY <1>3, StartedShape DEF TablesOK
<1>5. ASSUME NEW p \in Packet, p \in Started(n)
      PROVE  Place(packet[p]) = <<>> /\ packet[p].turns = 0
  <2>1. PICK k \in 0 .. Cardinality(Packet) : Emitted = 1 .. k
    BY DEF Numbered
  <2>2. Started(n) = k + 1 .. k + n
    BY <2>1, EmittedIs DEF PacketsOK
  <2>3. p \notin Emitted
    <3>1. Cardinality(Packet) \in Nat /\ p \in Nat
      BY PacketAssumption
    <3> QED
      BY <1>5, <2>1, <2>2, <3>1
  <2>4. packet[p].status = "idle" /\ Shape(packet[p])
    BY <2>3 DEF Emitted, PacketsOK
  <2> QED
    BY <2>4, PlaceIs DEF Shape
<1>6. ASSUME NEW p \in Packet, p \in Started(n)
      PROVE  Place(packet'[p]) = CellInBox(s, c)
  BY <1>4, <1>6, PlaceIs DEF Done
<1> DEFINE S == {p \in Packet : p \in Started(n)}
<1>7. /\ Places' = [p \in Packet |-> Place(packet'[p])]
      /\ Flying' = [p \in Packet |-> packet'[p].flight]
      /\ Turning' = [p \in Packet |-> packet'[p].turns]
      /\ WalkBox' = WalkBox
  BY <1>1, PlacesSame
<1>8. /\ \A p \in Packet : Places[p] = Place(packet[p]) /\ Flying[p] = packet[p].flight
      /\ Turning = [p \in Packet |-> packet[p].turns]
      /\ Places = [p \in Packet |-> Place(packet[p])] /\ Flying = [p \in Packet |-> packet[p].flight]
  BY DEF Places, Flying, Turning
<1> HIDE DEF Place
<1>9. /\ \A p \in Packet : Places'[p] = Place(packet'[p]) /\ Flying'[p] = packet'[p].flight
      /\ Turning' = Turning
  BY <1>4, <1>5, <1>7, <1>8
<1>10. CASE S = {}
  <2>1. \A p \in Packet : packet'[p] = packet[p]
    BY <1>4, <1>10
  <2> QED
    BY <1>7, <1>8, <2>1 DEF Stutter
<1>11. CASE S # {}
  <2>1. ASSUME NEW p \in S
        PROVE  /\ Places[p] = Walk!Nowhere /\ Places'[p] = CellInBox(s, c) /\ Flying'[p] \in Flights
               /\ Walk!InBox(Places'[p])
    <3>1. p \in Packet /\ p \in Started(n)
      OBVIOUS
    <3>2. Places[p] = <<>> /\ Places'[p] = CellInBox(s, c) /\ Flying'[p] \in Flights
      BY <1>4, <1>5, <1>6, <1>8, <1>9, <3>1
    <3>3. Walk!InBox(CellInBox(s, c))
      BY InnerInBox
    <3>4. Walk!InBox(Places'[p])
      BY <3>2, <3>3
    <3> QED
      BY <3>2, <3>4 DEF Walk!Nowhere
  <2>2. \A p \in Packet \ S : Places'[p] = Places[p] /\ Flying'[p] = Flying[p]
    <3> SUFFICES ASSUME NEW p \in Packet \ S PROVE Places'[p] = Places[p] /\ Flying'[p] = Flying[p]
      OBVIOUS
    <3>1. packet'[p] = packet[p]
      BY <1>4
    <3> QED
      BY <1>8, <1>9, <3>1
  <2>3. S \in SUBSET Packet
    OBVIOUS
  <2> HIDE DEF S
  <2>4. \E T \in SUBSET Packet :
          /\ T # {}
          /\ \A p \in T : Places[p] = Walk!Nowhere /\ Walk!InBox(Places'[p]) /\ Flying'[p] \in Flights
          /\ \A p, q \in T : Places'[p] = Places'[q]
          /\ \A p \in Packet \ T : Places'[p] = Places[p] /\ Flying'[p] = Flying[p]
    BY <1>11, <2>1, <2>2, <2>3
  <2>5. Walk!Emit
    BY <1>7, <1>9, <2>4 DEF Walk!Emit, Places, Flying, Turning
  <2> QED
    BY <2>5
<1> QED
  BY <1>10, <1>11

(* Every packet is back outside of the box when an iteration starts. *)
LEMMA RestartWalks ==
  ASSUME TablesOK, PacketsOK, StartIteration
  PROVE  Walk!Restart
<1>1. phase = "reset" /\ packet' = [p \in Packet |-> Idle] /\ UNCHANGED <<scenario, tables>>
  BY DEF StartIteration
<1>2. /\ Places' = [p \in Packet |-> Place(packet'[p])]
      /\ Flying' = [p \in Packet |-> packet'[p].flight]
      /\ Turning' = [p \in Packet |-> packet'[p].turns]
      /\ WalkBox' = WalkBox
  BY <1>1, PlacesSame
<1>3. Shape(Idle) /\ Idle.status = "idle" /\ Idle.flight \in Flights /\ Idle.turns = 0
  BY IdleShape DEF Shape, Idle
<1>4. Place(Idle) = Walk!Nowhere
  BY <1>3, PlaceIs DEF Walk!Nowhere
<1>5. ASSUME NEW p \in Packet PROVE Len(Places[p]) # 3
  <2>1. Shape(packet[p]) /\ Done(packet[p])
    BY <1>1 DEF PacketsOK
  <2>2. Len(Place(packet[p])) # 3
    BY <2>1, PlaceLength
  <2>3. Places[p] = Place(packet[p])
    BY DEF Places
  <2> QED
    BY <2>2, <2>3
<1> HIDE DEF Place, Idle
<1>6. /\ Places' = [p \in Packet |-> Walk!Nowhere] /\ Flying' \in [Packet -> Flights]
      /\ Turning' = [p \in Packet |-> 0]
  BY <1>1, <1>2, <1>3, <1>4
<1> QED
  BY <1>2, <1>5, <1>6 DEF Walk!Restart, Places, Flying, Turning

(* A function on the first numbers is a sequence. *)
LEMMA FunctionIsSeq ==
  ASSUME NEW S, NEW n \in Nat, NEW f \in [1 .. n -> S]
  PROVE  f \in Seq(S)
  OBVIOUS

(* In the beginning no packet was emitted. *)
LEMMA WalkInit == Init => Walk!Init
<1> SUFFICES ASSUME Init PROVE Walk!Init
  OBVIOUS
<1>1. scenario \in Scenarios /\ packet = [p \in Packet |-> Idle]
  BY DEF Init
<1>2. Shape(Idle) /\ Idle.status = "idle" /\ Idle.flight \in Flights /\ Idle.turns = 0
  BY IdleShape DEF Shape, Idle
<1>3. Place(Idle) = Walk!Nowhere
  BY <1>2, PlaceIs DEF Walk!Nowhere
<1> HIDE DEF Place, Idle
<1>4. /\ Places = [p \in Packet |-> Walk!Nowhere] /\ Flying \in [Packet -> Flights]
      /\ Turning = [p \in Packet |-> 0]
  BY <1>1, <1>2, <1>3 DEF Places, Flying, Turning
<1>5. WalkBox \in [size : Seq(Nat), periodic : Seq(BOOLEAN)]
  <2> DEFINE size == [a \in Axis |-> grid.n[a] * grid.cells[a]]
             periodic == grid.periodic
  <2>1. IsGrid(grid)
    BY <1>1, GridOfScenario
  <2>2. size \in [1 .. 3 -> Nat]
    <3>1. ASSUME NEW a \in Axis PROVE grid.n[a] * grid.cells[a] \in Nat
      <4>1. grid.n[a] \in Nat /\ grid.cells[a] \in Nat
        BY <2>1 DEF IsGrid
      <4> QED
        BY <4>1
    <3> QED
      BY <3>1 DEF Axis
  <2>3. periodic \in [1 .. 3 -> BOOLEAN]
    BY <2>1 DEF IsGrid, Axis
  <2> HIDE DEF size, periodic
  <2>4. size \in Seq(Nat) /\ periodic \in Seq(BOOLEAN)
    BY <2>2, <2>3, FunctionIsSeq
  <2>5. WalkBox = [size |-> size, periodic |-> periodic]
    BY DEF WalkBox, size, periodic
  <2> QED
    BY <2>4, <2>5
<1> QED
  BY <1>4, <1>5 DEF Walk!Init, Places, Flying, Turning

(* Every step is one of the walk in the box, or does not show there.       *)
LEMMA WalkNext ==
  TablesOK /\ SourcesOK /\ PacketsOK /\ Numbered /\ [Next]_vars => [Walk!Next]_(Walk!vars)
<1> SUFFICES ASSUME TablesOK, SourcesOK, PacketsOK, Numbered, [Next]_vars
             PROVE  Walk!Next \/ Stutter
  BY StutterIs
<1>0. ASSUME NEW p \in Packet PROVE Shape(packet[p]) /\ DOMAIN packet = Packet
  BY DEF PacketsOK
<1>1. CASE UpdateSources
  <2>1. phase = "sources" /\ UNCHANGED <<scenario, packet>>
    BY <1>1 DEF UpdateSources
  <2>2. \A p \in Packet : Done(packet[p])
    BY <2>1 DEF PacketsOK
  <2>3. \A p \in Packet : packet'[p] = packet[p] /\ Place(packet[p])' = Place(packet[p])
    BY <2>1, <2>2 DEF Place, Done
  <2>4. Places' = Places
    BY <2>3 DEF Places
  <2> QED
    BY <2>1, <2>4 DEF Stutter, Flying, Turning, WalkBox, grid
<1>2. CASE \/ KeepSources \/ NewSource \/ GetPhotonBatch \/ StartTransport
           \/ UpdateOriginalCounters \/ CalculateTemperature \/ UpdateCopyProperties
           \/ NextLoop \/ End \/ UNCHANGED vars
  <2>1. UNCHANGED <<scenario, tables, packet>>
    BY <1>2 DEF KeepSources, NewSource, GetPhotonBatch, StartTransport,
      UpdateOriginalCounters, CalculateTemperature, UpdateCopyProperties, NextLoop, End, vars
  <2> QED
    BY <2>1, PlacesSame DEF Stutter, Places, Flying, Turning
<1>3. CASE StartIteration
  BY <1>3, RestartWalks DEF Walk!Next
<1>4. CASE Launch
  BY <1>4, LaunchWalks DEF Walk!Next
<1>5. ASSUME NEW p \in Packet, Cross(p) PROVE Walk!Next \/ Stutter
  <2>1. UNCHANGED <<scenario, tables>>
    BY <1>5 DEF Cross
  <2>2. PICK r : Crosses(packet[p], r) /\ Becomes(p, r)
    BY <1>0, <1>5, CrossIs
  <2>3. Walk!Step(p) \/ Stutter
    BY <1>0, <2>1, <2>2, CrossWalks
  <2> QED
    BY <2>3 DEF Walk!Next
<1>6. ASSUME NEW p \in Packet, CountPhoton(p) PROVE Walk!Next \/ Stutter
  <2>1. UNCHANGED <<scenario, tables>>
    BY <1>6 DEF CountPhoton
  <2>2. PICK r : IsCounted(packet[p], r) /\ Becomes(p, r)
    BY <1>0, <1>6, CountIs
  <2> QED
    BY <1>0, <2>1, <2>2, CountWalks
<1>7. ASSUME NEW p \in Packet, Leave(p) PROVE Walk!Next \/ Stutter
  <2>1. UNCHANGED <<scenario, tables>>
    BY <1>7 DEF Leave
  <2>2. PICK r : Leaves(packet[p], r) /\ Becomes(p, r)
    BY <1>0, <1>7, LeaveIs
  <2>3. Walk!Escape(p) \/ Stutter
    BY <1>0, <2>1, <2>2, LeaveWalks
  <2> QED
    BY <2>3 DEF Walk!Next
<1>8. ASSUME NEW p \in Packet, Absorb(p) PROVE Walk!Next \/ Stutter
  <2>1. UNCHANGED <<scenario, tables>>
    BY <1>8 DEF Absorb
  <2>2. PICK r : IsAbsorbed(packet[p], r) /\ Becomes(p, r)
    BY <1>0, <1>8, AbsorbIs
  <2>3. Walk!Absorb(p)
    BY <1>0, <2>1, <2>2, AbsorbWalks
  <2> QED
    BY <2>3 DEF Walk!Next
<1>9. ASSUME NEW p \in Packet, Reemit(p) PROVE Walk!Next \/ Stutter
  <2>1. UNCHANGED <<scenario, tables>>
    BY <1>9 DEF Reemit
  <2>2. PICK r : IsReemitted(packet[p], r) /\ Becomes(p, r)
    BY <1>0, <1>9, ReemitIs
  <2>3. Walk!Scatter(p)
    BY <1>0, <2>1, <2>2, ReemitWalks
  <2> QED
    BY <2>3 DEF Walk!Next
<1> QED
  BY <1>1, <1>2, <1>3, <1>4, <1>5, <1>6, <1>7, <1>8, <1>9 DEF Next

(* The packets walk through the cells of the box as if it were not divided *)
(* into subgrids and copies of them: create_subgrid, create_copies,        *)
(* TravelDirections, get_start_index and update_photon_position take a     *)
(* packet on to the same cell of the box in another subgrid, and out of it *)
(* only at a boundary that is not periodic.                                *)
THEOREM WalkImplemented == Spec => ImplementsWalk
<1>1. Init => Walk!Init
  BY WalkInit
<1>2. TablesOK /\ SourcesOK /\ PacketsOK /\ Numbered /\ [Next]_vars => [Walk!Next]_(Walk!vars)
  BY WalkNext
<1> QED
  BY <1>1, <1>2, TablesInit, TablesNext, SourcesInit, SourcesNext, PacketsInit, PacketsNext,
     NumberedInit, NumberedNext, PTL DEF Spec, ImplementsWalk, Walk!Spec
=============================================================================
