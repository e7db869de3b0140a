--------------------------- MODULE HydroStep_proofs ---------------------------
(***************************************************************************)
(* Proofs about HydroStep and HydroSweeps, for all layouts of subgrids,    *)
(* periodic or not, all subgrids of cells and any number of steps.         *)
(*                                                                         *)
(*   1  numbers, lists and the positions of subgrids                       *)
(*   2  the tasks and the edges that make_hydro_tasks gives the graph      *)
(*   3  the children they make                                             *)
(*   4  the phases of the graph                                            *)
(*   5  the unfinished parents, and the execution of the tasks             *)
(*   6  the cells and the interfaces between them                          *)
(*   7  the visits of the sweeps                                           *)
(*   8  the graph as TaskScheduler assumes it                              *)
(*                                                                         *)
(* An induction over a number is an argument about the least one for       *)
(* which a fact fails.                                                     *)
(***************************************************************************)
EXTENDS HydroSweeps, FiniteSetTheorems, WellFoundedInduction, TLAPS

-----------------------------------------------------------------------------
(* 1. Numbers, lists and positions. *)

(* A nonempty set of natural numbers has a least element. *)
LEMMA LeastNumber ==
  ASSUME NEW B \in SUBSET Nat, B # {}
  PROVE  \E n \in B : \A m \in B : n <= m
<1>1. PICK n \in B : \A m \in B : ~ (<<m, n>> \in OpToRel(<, Nat))
  BY NatLessThanWellFounded, WFMin
<1>2. \A m \in B : <<m, n>> \in OpToRel(<, Nat) <=> m < n
  <2>1. \A m \in B : m \in Nat /\ n \in Nat
    OBVIOUS
  <2> QED
    BY <2>1, Zenon DEF OpToRel
<1>3. \A m \in B : ~ (m < n)
  BY <1>1, <1>2, Zenon
<1> QED
  BY <1>3

-----------------------------------------------------------------------------
(* Sequences of sequences of the same length. *)

(* G is the concatenation of the first sequences, for each number of them. *)
Flattens(G, s, n) ==
  G = [i \in 1 .. n |-> IF i = 1 THEN s[1] ELSE G[i - 1] \o s[i]]

(* There is such a concatenation. *)
LEMMA FlattensExist ==
  ASSUME NEW s, NEW n \in Nat \ {0}
  PROVE  \E G : Flattens(G, s, n)
<1> DEFINE B == {m \in Nat \ {0} : ~ \E G : Flattens(G, s, m)}
<1> SUFFICES ASSUME B # {} PROVE FALSE
  OBVIOUS
<1>1. PICK m \in B : \A k \in B : m <= k
  <2>1. B \in SUBSET Nat
    OBVIOUS
  <2> HIDE DEF B
  <2> QED
    BY <2>1, LeastNumber
<1>2. m # 1
  <2>1. Flattens([i \in 1 .. 1 |-> s[1]], s, 1)
    BY DEF Flattens
  <2> QED
    BY <2>1, <1>1
<1>3. m - 1 \in Nat \ {0} /\ m - 1 \notin B
  BY <1>1, <1>2
<1>4. PICK G : Flattens(G, s, m - 1)
  BY <1>3
<1> DEFINE H == [i \in 1 .. m |-> IF i = m THEN G[m - 1] \o s[m] ELSE G[i]]
<1>5. Flattens(H, s, m)
  <2>1. ASSUME NEW i \in 1 .. m
        PROVE  H[i] = IF i = 1 THEN s[1] ELSE H[i - 1] \o s[i]
    <3>1. /\ m \in Nat \ {0, 1} /\ m - 1 \in Nat /\ m - 1 >= 1
          /\ \A h \in 1 .. m - 1 : G[h] = IF h = 1 THEN s[1] ELSE G[h - 1] \o s[h]
      <4>1. m \in Nat \ {0, 1}
        BY <1>1, <1>2
      <4>2. G = [h \in 1 .. m - 1 |-> IF h = 1 THEN s[1] ELSE G[h - 1] \o s[h]]
        BY <1>4 DEF Flattens
      <4> HIDE DEF B, H
      <4>3. \A h \in 1 .. m - 1 : G[h] = IF h = 1 THEN s[1] ELSE G[h - 1] \o s[h]
        BY <4>2
      <4> QED
        BY <4>1, <4>3
    <3>2. CASE i = m
      <4>0. m - 1 \in 1 .. m /\ m \in 1 .. m /\ m - 1 # m
        BY <3>1
      <4>1. H[m] = G[m - 1] \o s[m] /\ H[m - 1] = G[m - 1]
        BY <4>0
      <4> HIDE DEF H
      <4> QED
        BY <4>1, <3>1, <3>2
    <3>3. CASE i # m
      <4>1. i \in 1 .. m - 1 /\ (i # 1 => i - 1 \in 1 .. m /\ i - 1 # m)
        BY <3>1, <3>3
      <4>2. H[i] = G[i] /\ (i # 1 => H[i - 1] = G[i - 1])
        BY <4>1, <3>1, <3>3
      <4> QED
        BY <3>1, <4>1, <4>2
    <3> HIDE DEF H
    <3> QED
      BY <3>2, <3>3
  <2>2. DOMAIN H = 1 .. m /\ H = [i \in 1 .. m |-> H[i]]
    OBVIOUS
  <2> HIDE DEF H
  <2> QED
    BY <2>1, <2>2 DEF Flattens
<1> QED
  BY <1>1, <1>5

(* The places of the elements of a sequence are below those of the next.   *)
LEMMA PlacesBelow ==
  ASSUME NEW k \in Nat, NEW i \in 1 .. k - 1, NEW m \in Nat, NEW j \in 1 .. m
  PROVE  (i - 1) * m + j \in 1 .. (k - 1) * m
<1>1. (i - 1) * m \in Nat /\ (k - 1 - i) * m \in Nat /\ (k - 1) * m \in Nat
  OBVIOUS
<1>2. (k - 1) * m = (i - 1) * m + m + (k - 1 - i) * m
  OBVIOUS
<1> DEFINE A == (i - 1) * m
           D == (k - 1 - i) * m
           C == (k - 1) * m
<1>3. A \in Nat /\ D \in Nat /\ C \in Nat /\ C = A + m + D
  BY <1>1, <1>2
<1> HIDE DEF A, D, C
<1>4. A + j \in 1 .. C
  BY <1>3
<1> QED
  BY <1>4 DEF A, C

(* The elements of a concatenation. *)
Concatenates(c, a, b, E) ==
  /\ c \in Seq(E) /\ Len(c) = Len(a) + Len(b)
  /\ \A h \in 1 .. Len(a) : c[h] = a[h]
  /\ \A h \in 1 .. Len(b) : c[Len(a) + h] = b[h]

(* Two sequences one after the other. *)
LEMMA Concat ==
  ASSUME NEW E, NEW a \in Seq(E), NEW b \in Seq(E)
  PROVE  Concatenates(a \o b, a, b, E)
  BY DEF Concatenates

(* The elements of n sequences of the length m, one after the other.       *)
AreFlattened(c, s, n, m, E) ==
  /\ c \in Seq(E) /\ Len(c) = n * m
  /\ \A i \in 1 .. n, j \in 1 .. m : c[(i - 1) * m + j] = s[i][j]

(* Flattening sequences of one length keeps every element, in its place.   *)
LEMMA FlattenEqual ==
  ASSUME NEW E, NEW n \in Nat \ {0}, NEW m \in Nat, NEW s \in [1 .. n -> Seq(E)],
         \A i \in 1 .. n : Len(s[i]) = m
  PROVE  AreFlattened(FlattenSeq(s), s, n, m, E)
<1> DEFINE G == CHOOSE g : g = [i \in 1 .. n |-> IF i = 1 THEN s[i] ELSE g[i - 1] \o s[i]]
<1>0. s \in Seq(Seq(E)) /\ Len(s) = n
  OBVIOUS
<1>1. FlattenSeq(s) = G[n]
  BY <1>0 DEF FlattenSeq
<1>2. Flattens(G, s, n)
  <2>1. PICK g : Flattens(g, s, n)
    BY FlattensExist
  <2>2. g = [i \in 1 .. n |-> IF i = 1 THEN s[i] ELSE g[i - 1] \o s[i]]
    BY <2>1 DEF Flattens
  <2>3. G = [i \in 1 .. n |-> IF i = 1 THEN s[i] ELSE G[i - 1] \o s[i]]
    BY <2>2
  <2> HIDE DEF G
  <2> QED
    BY <2>3 DEF Flattens
<1> HIDE DEF G
<1> DEFINE OK(k) == /\ G[k] \in Seq(E) /\ Len(G[k]) = k * m
                    /\ \A i \in 1 .. k, j \in 1 .. m : G[k][(i - 1) * m + j] = s[i][j]
           B == {k \in 1 .. n : ~ OK(k)}
<1>3. B = {}
  <2> SUFFICES ASSUME B # {} PROVE FALSE
    OBVIOUS
  <2>1. PICK k \in B : \A h \in B : k <= h
    <3>1. B \in SUBSET Nat
      OBVIOUS
    <3> HIDE DEF B
    <3> QED
      BY <3>1, LeastNumber
  <2>2. k # 1
    <3>1. G[1] = s[1]
      BY <1>2 DEF Flattens
    <3> QED
      BY <3>1, <2>1
  <2>3. k - 1 \in 1 .. n /\ OK(k - 1)
    BY <2>1, <2>2
  <2>4. G[k] = G[k - 1] \o s[k]
    BY <1>2, <2>1, <2>2 DEF Flattens
  <2>7. /\ k \in 2 .. n /\ s[k] \in Seq(E) /\ Len(s[k]) = m
        /\ G[k - 1] \in Seq(E) /\ Len(G[k - 1]) = (k - 1) * m
        /\ \A i \in 1 .. k - 1, j \in 1 .. m : G[k - 1][(i - 1) * m + j] = s[i][j]
    <3>1. k \in 2 .. n /\ s[k] \in Seq(E) /\ Len(s[k]) = m
      BY <2>1, <2>2
    <3>2. /\ G[k - 1] \in Seq(E) /\ Len(G[k - 1]) = (k - 1) * m
          /\ \A i \in 1 .. k - 1, j \in 1 .. m : G[k - 1][(i - 1) * m + j] = s[i][j]
      BY <2>3
    <3> QED
      BY <3>1, <3>2
  <2> HIDE DEF B, OK
  <2>8. /\ G[k] \in Seq(E) /\ Len(G[k]) = Len(G[k - 1]) + Len(s[k])
        /\ \A h \in 1 .. Len(G[k - 1]) : G[k][h] = G[k - 1][h]
        /\ \A h \in 1 .. Len(s[k]) : G[k][Len(G[k - 1]) + h] = s[k][h]
    <3>1. G[k - 1] \in Seq(E) /\ s[k] \in Seq(E)
      BY <2>7
    <3> DEFINE a == G[k - 1]
               b == s[k]
    <3>2. a \in Seq(E) /\ b \in Seq(E) /\ G[k] = a \o b
      BY <3>1, <2>4
    <3> HIDE DEF a, b
    <3>3. Concatenates(G[k], a, b, E)
      BY <3>2, Concat
    <3> QED
      BY <3>3 DEF a, b, Concatenates
  <2>5. G[k] \in Seq(E) /\ Len(G[k]) = k * m
    <3>1. (k - 1) * m + m = k * m /\ (k - 1) * m \in Nat
      BY <2>7
    <3> QED
      BY <2>7, <2>8, <3>1
  <2>6. ASSUME NEW i \in 1 .. k, NEW j \in 1 .. m PROVE G[k][(i - 1) * m + j] = s[i][j]
    <3>1. CASE i = k
      <4>1. G[k][Len(G[k - 1]) + j] = s[k][j]
        BY <2>7, <2>8
      <4> QED
        BY <3>1, <4>1, <2>7
    <3>2. CASE i # k
      <4>1. i \in 1 .. k - 1
        BY <3>2, <2>7
      <4>2. (i - 1) * m + j \in 1 .. Len(G[k - 1])
        <5>1. k \in Nat
          BY <2>7
        <5> QED
          BY <5>1, <4>1, <2>7, PlacesBelow
      <4>3. G[k][(i - 1) * m + j] = G[k - 1][(i - 1) * m + j]
        BY <4>2, <2>8
      <4>4. G[k - 1][(i - 1) * m + j] = s[i][j]
        BY <4>1, <2>7
      <4> QED
        BY <4>3, <4>4
    <3> QED
      BY <3>1, <3>2
  <2> QED
    BY <2>1, <2>5, <2>6 DEF B, OK
<1>4. OK(n)
  <2>1. n \in 1 .. n
    OBVIOUS
  <2> QED
    BY <2>1, <1>3
<1> QED
  BY <1>1, <1>4 DEF AreFlattened

-----------------------------------------------------------------------------
(* The layout. *)

(* The positions of subgrids. *)
Box(L) == {p \in [Axis -> Int] : \A a \in Axis : p[a] \in 0 .. L.n[a] - 1}

(* What a layout is. *)
LEMMA LayoutType ==
  ASSUME NEW L \in Layouts
  PROVE  /\ L.n[1] \in Nat \ {0} /\ L.n[2] \in Nat \ {0} /\ L.n[3] \in Nat \ {0}
         /\ L.periodic[1] \in BOOLEAN /\ L.periodic[2] \in BOOLEAN /\ L.periodic[3] \in BOOLEAN
  BY LayoutsAssumption

(* Division with remainder. *)
LEMMA Division ==
  ASSUME NEW q \in Nat, NEW m \in Nat \ {0}, NEW r \in 0 .. m - 1
  PROVE  (q * m + r) \div m = q /\ (q * m + r) % m = r
  OBVIOUS

(* A number is so many rows and a rest. *)
LEMMA DivisionBack ==
  ASSUME NEW i \in Nat, NEW m \in Nat \ {0}
  PROVE  i \div m \in Nat /\ i % m \in 0 .. m - 1 /\ i = (i \div m) * m + (i % m)
  OBVIOUS

(* A number below a product is a number of rows and a rest. *)
LEMMA BelowProduct ==
  ASSUME NEW n \in Nat, NEW m \in Nat \ {0}, NEW q \in Nat, NEW r \in 0 .. m - 1
  PROVE  q < n <=> q * m + r < n * m
<1>1. ASSUME q < n PROVE q * m + r < n * m
  <2>1. n * m = q * m + m + (n - 1 - q) * m /\ (n - 1 - q) * m >= 0
    BY <1>1
  <2> QED
    BY <2>1
<1>2. ASSUME ~ (q < n) PROVE ~ (q * m + r < n * m)
  <2>1. q * m = n * m + (q - n) * m /\ (q - n) * m >= 0
    BY <1>2
  <2> QED
    BY <2>1
<1> QED
  BY <1>1, <1>2

(* Products of numbers of subgrids. *)
LEMMA Products ==
  ASSUME NEW L \in Layouts
  PROVE  /\ L.n[2] * L.n[3] \in Nat \ {0}
         /\ L.n[1] * L.n[2] * L.n[3] = L.n[1] * (L.n[2] * L.n[3])
         /\ L.n[1] * L.n[2] * L.n[3] \in Nat \ {0}
  BY LayoutType

(* The index of a position is that of a subgrid, which is there. *)
LEMMA IndexPosition ==
  ASSUME NEW L \in Layouts, NEW p \in Box(L)
  PROVE  Index(L, p) \in Subgrids(L) /\ Position(L, Index(L, p)) = p
<1> DEFINE m == L.n[2] * L.n[3]
           r == p[2] * L.n[3] + p[3]
<1>1. /\ p[1] \in 0 .. L.n[1] - 1 /\ p[2] \in 0 .. L.n[2] - 1 /\ p[3] \in 0 .. L.n[3] - 1
      /\ p = <<p[1], p[2], p[3]>>
  BY DEF Box, Axis
<1>2. m \in Nat \ {0} /\ L.n[1] * L.n[2] * L.n[3] = L.n[1] * m
  BY Products
<1>3. r \in 0 .. m - 1
  <2>1. r \in Nat
    BY <1>1, LayoutType
  <2>2. r < m
    BY <1>1, LayoutType, BelowProduct
  <2> QED
    BY <2>1, <2>2, <1>2
<1>4. Index(L, p) = p[1] * m + r
  <2>1. p[1] * L.n[2] * L.n[3] = p[1] * (L.n[2] * L.n[3])
    BY <1>1, LayoutType
  <2>2. p[1] * (L.n[2] * L.n[3]) \in Nat /\ p[2] * L.n[3] \in Nat
    BY <1>1, LayoutType
  <2> QED
    BY <1>1, <2>1, <2>2 DEF Index
<1>5. r \div L.n[3] = p[2] /\ r % L.n[3] = p[3]
  BY <1>1, LayoutType, Division
<1>6. Index(L, p) \div L.n[3] = p[1] * L.n[2] + p[2] /\ Index(L, p) % L.n[3] = p[3]
  <2> DEFINE q == p[1] * L.n[2] + p[2]
  <2>1. q \in Nat
    BY <1>1, LayoutType
  <2>2. Index(L, p) = q * L.n[3] + p[3]
    BY <1>1, LayoutType DEF Index
  <2>3. L.n[3] \in Nat \ {0} /\ p[3] \in 0 .. L.n[3] - 1
    BY <1>1, LayoutType
  <2> HIDE DEF q
  <2>4. (q * L.n[3] + p[3]) \div L.n[3] = q /\ (q * L.n[3] + p[3]) % L.n[3] = p[3]
    BY <2>1, <2>3, Division
  <2> QED
    BY <2>2, <2>4 DEF q
<1>7. (p[1] * L.n[2] + p[2]) % L.n[2] = p[2]
  BY <1>1, LayoutType, Division
<1> HIDE DEF m, r
<1>8. Index(L, p) \div m = p[1]
  BY <1>1, <1>2, <1>3, <1>4, Division
<1>9. Index(L, p) \in Nat /\ Index(L, p) < L.n[1] * m
  <2>1. p[1] \in Nat /\ L.n[1] \in Nat /\ p[1] < L.n[1] /\ p[1] * m \in Nat
    BY <1>1, <1>2, LayoutType
  <2> QED
    BY <2>1, <1>2, <1>3, <1>4, BelowProduct
<1>10. Index(L, p) \in Subgrids(L)
  <2>1. L.n[1] * m \in Nat
    BY <1>2, LayoutType
  <2> QED
    BY <2>1, <1>2, <1>9 DEF Subgrids
<1> QED
  BY <1>1, <1>6, <1>7, <1>8, <1>10 DEF Position, m

(* A subgrid has a position, with its index. *)
LEMMA PositionIndex ==
  ASSUME NEW L \in Layouts, NEW i \in Subgrids(L)
  PROVE  Position(L, i) \in Box(L) /\ Index(L, Position(L, i)) = i
<1> DEFINE m == L.n[2] * L.n[3]
           q == i \div L.n[3]
<1>1. i \in Nat /\ i < L.n[1] * m
  BY Products DEF Subgrids
<1>2. m \in Nat \ {0}
  BY Products
<1>3. q \in Nat /\ i % L.n[3] \in 0 .. L.n[3] - 1 /\ i = q * L.n[3] + (i % L.n[3])
  BY <1>1, LayoutType, DivisionBack
<1>4. q \div L.n[2] \in Nat /\ q % L.n[2] \in 0 .. L.n[2] - 1 /\ q = (q \div L.n[2]) * L.n[2] + (q % L.n[2])
  <2> HIDE DEF q
  <2> QED
    BY <1>3, LayoutType, DivisionBack
<1> HIDE DEF q, m
<1> DEFINE r == (q % L.n[2]) * L.n[3] + (i % L.n[3])
           d == q \div L.n[2]
           e == q % L.n[2]
           f == i % L.n[3]
<1>5. r \in 0 .. m - 1
  <2>1. r \in Nat
    BY <1>3, <1>4, LayoutType
  <2>2. r < m
    <3>1. /\ L.n[2] \in Nat /\ L.n[3] \in Nat \ {0} /\ e \in Nat /\ f \in 0 .. L.n[3] - 1
          /\ e < L.n[2]
      BY <1>3, <1>4, LayoutType
    <3>2. e * L.n[3] + f < L.n[2] * L.n[3]
      <4> HIDE DEF e, f
      <4> QED
        BY <3>1, BelowProduct
    <3> QED
      BY <3>2 DEF m
  <2> QED
    BY <2>1, <2>2, <1>2
<1>6. i = d * m + r
  <2>1. d \in Nat /\ e \in Nat /\ f \in Nat /\ q = d * L.n[2] + e /\ i = q * L.n[3] + f /\ r = e * L.n[3] + f
    BY <1>3, <1>4
  <2> HIDE DEF d, e, f, r
  <2> QED
    BY <2>1, LayoutType DEF m
<1>7. i \div m = d /\ d \in Nat /\ d < L.n[1]
  <2>1. d \in Nat
    BY <1>4
  <2> HIDE DEF d, r
  <2>2. d < L.n[1]
    BY <2>1, <1>1, <1>2, <1>5, <1>6, LayoutType, BelowProduct
  <2> QED
    BY <2>1, <2>2, <1>1, <1>2, <1>5, <1>6, Division
<1>8. Position(L, i) = <<d, e, f>>
  BY <1>7 DEF Position, m, q
<1>9. Position(L, i) \in Box(L)
  <2>1. d \in 0 .. L.n[1] - 1 /\ e \in 0 .. L.n[2] - 1 /\ f \in 0 .. L.n[3] - 1
    BY <1>3, <1>4, <1>7, LayoutType
  <2> HIDE DEF d, e, f, r
  <2>2. <<d, e, f>> \in [Axis -> Int]
    BY <2>1, LayoutType DEF Axis
  <2> QED
    BY <2>1, <2>2, <1>8 DEF Box, Axis
<1>10. Index(L, <<d, e, f>>) = i
  <2>1. d \in Nat /\ e \in Nat /\ f \in Nat /\ q = d * L.n[2] + e /\ i = q * L.n[3] + f
    BY <1>3, <1>4
  <2> HIDE DEF d, e, f, r
  <2> QED
    BY <2>1, LayoutType DEF Index
<1> QED
  BY <1>8, <1>9, <1>10

(* The position with another coordinate along an axis. *)
LEMMA BoxExcept ==
  ASSUME NEW L \in Layouts, NEW p \in Box(L), NEW a \in Axis, NEW c \in 0 .. L.n[a] - 1
  PROVE  /\ [p EXCEPT ![a] = c] \in Box(L)
         /\ [p EXCEPT ![a] = c][a] = c
         /\ \A e : [[p EXCEPT ![a] = c] EXCEPT ![a] = e] = [p EXCEPT ![a] = e]
<1>1. p \in [Axis -> Int] /\ c \in Int
  BY LayoutType DEF Box, Axis
<1>2. [p EXCEPT ![a] = c] \in [Axis -> Int]
  BY <1>1
<1>3. [p EXCEPT ![a] = c] \in Box(L)
  BY <1>1, <1>2 DEF Box
<1> QED
  BY <1>1, <1>3

(* A step along an axis that stays in the layout, and what is over its     *)
(* boundary: the subgrid at the other end, if the axis is periodic.        *)
NeighbourOf(L, p, a, d, j) ==
  /\ p[a] + d \in 0 .. L.n[a] - 1 => j = Index(L, [p EXCEPT ![a] = p[a] + d])
  /\ p[a] + d = -1 /\ L.periodic[a] => j = Index(L, [p EXCEPT ![a] = L.n[a] - 1])
  /\ p[a] + d = L.n[a] /\ L.periodic[a] => j = Index(L, [p EXCEPT ![a] = 0])
  /\ p[a] + d \notin 0 .. L.n[a] - 1 /\ ~ L.periodic[a] => j = Outside

(* The neighbour at a position. *)
LEMMA NeighbourIs ==
  ASSUME NEW L \in Layouts, NEW p \in Box(L), NEW a \in Axis, NEW d \in {-1, 1}
  PROVE  /\ p[a] \in 0 .. L.n[a] - 1 /\ L.n[a] \in Nat \ {0} /\ L.periodic[a] \in BOOLEAN
         /\ NeighbourOf(L, p, a, d, Neighbour(L, Index(L, p), a, d))
<1>1. Position(L, Index(L, p)) = p
  BY IndexPosition
<1>2. p[a] \in 0 .. L.n[a] - 1 /\ L.n[a] \in Nat \ {0} /\ L.periodic[a] \in BOOLEAN
  BY LayoutType DEF Box, Axis
<1> QED
  BY <1>1, <1>2 DEF Neighbour, NeighbourOf

(* The neighbour at a coordinate: the next one, or the one at the other    *)
(* end of a periodic axis.                                                 *)
LEMMA NeighbourAt ==
  ASSUME NEW L \in Layouts, NEW q \in Box(L), NEW a \in Axis, NEW e \in {-1, 1},
         NEW c \in 0 .. L.n[a] - 1,
         \/ q[a] + e = c
         \/ q[a] + e = -1 /\ L.periodic[a] /\ c = L.n[a] - 1
         \/ q[a] + e = L.n[a] /\ L.periodic[a] /\ c = 0
  PROVE  Neighbour(L, Index(L, q), a, e) = Index(L, [q EXCEPT ![a] = c])
<1>1. NeighbourOf(L, q, a, e, Neighbour(L, Index(L, q), a, e))
  BY NeighbourIs, Zenon
<1> QED
  BY <1>1 DEF NeighbourOf

(* A neighbour is a subgrid, or there is none; and its neighbour on the    *)
(* other side is the subgrid one came from.                                *)
LEMMA NeighbourBack ==
  ASSUME NEW L \in Layouts, NEW i \in Subgrids(L), NEW a \in Axis, NEW d \in {-1, 1}
  PROVE  /\ Neighbour(L, i, a, d) \in Subgrids(L) \cup {Outside}
         /\ Neighbour(L, i, a, d) # Outside => Neighbour(L, Neighbour(L, i, a, d), a, -d) = i
<1>1. PICK p \in Box(L) : i = Index(L, p)
  BY PositionIndex
<1> DEFINE c == p[a] + d
           m == L.n[a]
<1>2. /\ p[a] \in 0 .. m - 1 /\ m \in Nat \ {0} /\ p \in [Axis -> Int]
      /\ L.periodic[a] \in BOOLEAN
  BY NeighbourIs DEF Box, Axis
<1>3. -d \in {-1, 1} /\ [p EXCEPT ![a] = p[a]] = p
  BY <1>2
<1> DEFINE Moved(e) == [p EXCEPT ![a] = e]
<1>4. ASSUME NEW e \in 0 .. m - 1
      PROVE  /\ Moved(e) \in Box(L) /\ Moved(e)[a] = e /\ Index(L, Moved(e)) \in Subgrids(L)
             /\ \A f : [Moved(e) EXCEPT ![a] = f] = Moved(f)
  BY BoxExcept, IndexPosition
<1>11. NeighbourOf(L, p, a, d, Neighbour(L, Index(L, p), a, d))
  BY NeighbourIs, Zenon
<1>9. c \in 0 .. m - 1 \/ c = -1 \/ c = m
  BY <1>2
<1>5. CASE c \in 0 .. m - 1
  <2>1. Neighbour(L, i, a, d) = Index(L, Moved(c))
    <3>1. Neighbour(L, Index(L, p), a, d) = Index(L, [p EXCEPT ![a] = c])
      BY <1>11, <1>5 DEF NeighbourOf
    <3> QED
      BY <1>1, <3>1, Zenon
  <2>2. Moved(c)[a] + (-d) = p[a]
    BY <1>2, <1>4, <1>5
  <2>3. Neighbour(L, Index(L, Moved(c)), a, -d) = Index(L, [Moved(c) EXCEPT ![a] = p[a]])
    BY <1>2, <1>3, <1>4, <1>5, <2>2, NeighbourAt
  <2> QED
    BY <1>1, <1>2, <1>3, <1>4, <1>5, <2>1, <2>3
<1>6. CASE c = -1 /\ L.periodic[a]
  <2>1. Neighbour(L, i, a, d) = Index(L, Moved(m - 1))
    <3>1. Neighbour(L, Index(L, p), a, d) = Index(L, [p EXCEPT ![a] = m - 1])
      BY <1>11, <1>6 DEF NeighbourOf
    <3> QED
      BY <1>1, <3>1, Zenon
  <2>2. m - 1 \in 0 .. m - 1 /\ Moved(m - 1)[a] + (-d) = m /\ p[a] = 0
    BY <1>2, <1>4, <1>6
  <2>3. Neighbour(L, Index(L, Moved(m - 1)), a, -d) = Index(L, [Moved(m - 1) EXCEPT ![a] = 0])
    BY <1>2, <1>3, <1>4, <1>6, <2>2, NeighbourAt
  <2> QED
    BY <1>1, <1>2, <1>3, <1>4, <2>1, <2>2, <2>3
<1>7. CASE c = m /\ L.periodic[a]
  <2>1. Neighbour(L, i, a, d) = Index(L, Moved(0))
    <3>1. Neighbour(L, Index(L, p), a, d) = Index(L, [p EXCEPT ![a] = 0])
      BY <1>11, <1>7 DEF NeighbourOf
    <3> QED
      BY <1>1, <3>1, Zenon
  <2>2. /\ 0 \in 0 .. m - 1 /\ Moved(0)[a] + (-d) = -1
        /\ p[a] = m - 1 /\ m - 1 \in 0 .. m - 1
    BY <1>2, <1>4, <1>7
  <2>3. Neighbour(L, Index(L, Moved(0)), a, -d) = Index(L, [Moved(0) EXCEPT ![a] = m - 1])
    <3>1. Moved(0) \in Box(L)
      BY <1>4, <2>2
    <3> HIDE DEF Moved
    <3> QED
      BY <1>3, <1>7, <2>2, <3>1, NeighbourAt
  <2> QED
    BY <1>1, <1>2, <1>3, <1>4, <2>1, <2>2, <2>3
<1>8. CASE c \notin 0 .. m - 1 /\ ~ L.periodic[a]
  <2>1. NeighbourOf(L, p, a, d, Neighbour(L, Index(L, p), a, d))
    BY NeighbourIs, Zenon
  <2>2. Neighbour(L, i, a, d) = Outside
    BY <1>1, <1>8, <2>1 DEF NeighbourOf
  <2> QED
    BY <2>2
<1> QED
  BY <1>2, <1>5, <1>6, <1>7, <1>8, <1>9

(* The same with the two directions named. *)
LEMMA NeighbourOpposite ==
  ASSUME NEW L \in Layouts, NEW i \in Subgrids(L), NEW a \in Axis, NEW d \in {-1, 1},
         NEW e \in {-1, 1}, e # d, Neighbour(L, i, a, d) # Outside
  PROVE  /\ Neighbour(L, i, a, d) \in Subgrids(L)
         /\ Neighbour(L, Neighbour(L, i, a, d), a, e) = i
<1>1. e = -d
  OBVIOUS
<1> QED
  BY <1>1, NeighbourBack

-----------------------------------------------------------------------------
(* 2. The tasks and the edges. *)

Sweeps == Gradient \cup Flux

(* The slots of the sweeps over faces. *)
LEMMA FaceSlots ==
  ASSUME NEW k \in Sweeps
  PROVE  /\ k \in Slot
         /\ k \in Positive => AxisOf(k) \in Axis /\ k \notin Negative /\ k + 1 \in Negative
                              /\ AxisOf(k + 1) = AxisOf(k) /\ k + 1 \in Sweeps
                              /\ PhaseOf(k + 1) = PhaseOf(k)
         /\ k \in Negative => AxisOf(k) \in Axis /\ k \notin Positive /\ k - 1 \in Positive
                              /\ AxisOf(k - 1) = AxisOf(k) /\ k - 1 \in Sweeps
                              /\ PhaseOf(k - 1) = PhaseOf(k)
         /\ PhaseOf(k) = IF k \in Gradient THEN 1 ELSE 4
<1>1. k \in 0 .. 6 \/ k \in 9 .. 15
  BY DEF Sweeps, Gradient, Flux
<1> QED
  BY <1>1 DEF Slot, Positive, Negative, AxisOf, Axis, Sweeps, Gradient, Flux, PhaseOf,
              Limiter, Predict, Conserved, Primitive

(* The tasks with a slot that is not empty. *)
LEMMA TaskSlots ==
  ASSUME NEW L, NEW i \in Subgrids(L), NEW k \in Slot
  PROVE  /\ <<i, k>> \in HydroTask(L) <=>
              (k \in Negative => Neighbour(L, i, AxisOf(k), -1) = Outside)
         /\ k \notin Negative => <<i, k>> \in HydroTask(L)
  BY DEF HydroTask

(* The sweep of a subgrid in a slot is a task of this kind that works on   *)
(* the subgrid.                                                            *)
LEMMA SweepIsTask ==
  ASSUME NEW L \in Layouts, NEW i \in Subgrids(L), NEW k \in Sweeps
  PROVE  /\ SweepOf(L, i, k) \in HydroTask(L)
         /\ SweepOf(L, i, k) = <<i, k>>
            \/ /\ k \in Negative /\ SweepOf(L, i, k)[2] = k - 1
               /\ Partner(L, SweepOf(L, i, k)) = i
<1>1. CASE <<i, k>> \in HydroTask(L)
  BY <1>1 DEF SweepOf
<1>2. CASE <<i, k>> \notin HydroTask(L)
  <2>1. k \in Negative /\ Neighbour(L, i, AxisOf(k), -1) # Outside
    BY <1>2, FaceSlots, TaskSlots
  <2>2. PICK q : q = Neighbour(L, i, AxisOf(k), -1)
    OBVIOUS
  <2>3. AxisOf(k) \in Axis /\ k - 1 \in Positive /\ AxisOf(k - 1) = AxisOf(k) /\ k - 1 \in Sweeps
    BY <2>1, FaceSlots
  <2>4. q \in Subgrids(L) /\ Neighbour(L, q, AxisOf(k), 1) = i
    <3>1. -1 \in {-1, 1} /\ 1 \in {-1, 1} /\ -1 # 1
      OBVIOUS
    <3> QED
      BY <2>1, <2>2, <2>3, <3>1, NeighbourOpposite
  <2>5. SweepOf(L, i, k) = <<q, k - 1>>
    BY <1>2, <2>2 DEF SweepOf
  <2>6. k - 1 \in Slot /\ k - 1 \notin Negative
    BY <2>3, FaceSlots
  <2>7. <<q, k - 1>> \in HydroTask(L)
    BY <2>4, <2>6, TaskSlots
  <2>8. Partner(L, <<q, k - 1>>) = i
    BY <2>3, <2>4 DEF Partner
  <2> QED
    BY <2>1, <2>5, <2>7, <2>8
<1> QED
  BY <1>1, <1>2

(* Every sweep that works on a subgrid is the one of the subgrid in some   *)
(* slot: its own one, or the one of the opposite face.                     *)
LEMMA SweepOfOwn ==
  ASSUME NEW L \in Layouts, NEW x \in HydroTask(L), x[2] \in Sweeps
  PROVE  x[1] \in Subgrids(L) /\ SweepOf(L, x[1], x[2]) = x
<1>1. x \in Subgrids(L) \X Slot
  BY DEF HydroTask
<1>2. x = <<x[1], x[2]>>
  BY <1>1
<1> QED
  BY <1>1, <1>2 DEF SweepOf

(* A sweep over a face between two subgrids is the sweep that the subgrid  *)
(* on the other side has in the slot after its own.                        *)
LEMMA SweepOfPartner ==
  ASSUME NEW L \in Layouts, NEW x \in HydroTask(L), x[2] \in Sweeps, Partner(L, x) # Outside
  PROVE  /\ x[2] \in Positive /\ x[2] + 1 \in Sweeps /\ PhaseOf(x[2] + 1) = PhaseOf(x[2])
         /\ Partner(L, x) \in Subgrids(L) /\ SweepOf(L, Partner(L, x), x[2] + 1) = x
<1>1. x \in Subgrids(L) \X Slot
  BY DEF HydroTask
<1>2. x = <<x[1], x[2]>> /\ x[1] \in Subgrids(L)
  BY <1>1
<1>3. x[2] \in Positive
  BY DEF Partner
<1> DEFINE k == x[2]
           s == Partner(L, x)
<1>4. /\ AxisOf(k) \in Axis /\ k + 1 \in Negative /\ AxisOf(k + 1) = AxisOf(k)
      /\ k + 1 \in Sweeps /\ PhaseOf(k + 1) = PhaseOf(k) /\ k \in Int
  <2>1. k \in Int
    BY <1>1 DEF Slot
  <2> QED
    BY <1>3, <2>1, FaceSlots
<1>5. s = Neighbour(L, x[1], AxisOf(k), 1) /\ s # Outside
  BY <1>3 DEF Partner
<1>6. s \in Subgrids(L) /\ Neighbour(L, s, AxisOf(k), -1) = x[1]
  <2>1. -1 \in {-1, 1} /\ 1 \in {-1, 1} /\ -1 # 1
    OBVIOUS
  <2> QED
    BY <1>2, <1>4, <1>5, <2>1, NeighbourOpposite
<1>7. x[1] # Outside
  BY <1>2 DEF Subgrids, Outside
<1>8. <<s, k + 1>> \notin HydroTask(L)
  <2>1. k + 1 \in Slot
    BY <1>4, FaceSlots
  <2> QED
    BY <1>4, <1>6, <1>7, <2>1, TaskSlots
<1>9. SweepOf(L, s, k + 1) = <<x[1], k>>
  BY <1>4, <1>6, <1>8 DEF SweepOf
<1> QED
  BY <1>2, <1>3, <1>4, <1>6, <1>9

-----------------------------------------------------------------------------
(* The edges of the graph, by their place. *)
EdgeAt(L, i, j) ==
  CASE j \in 1 .. 7   -> <<SweepOf(L, i, j - 1), <<i, Limiter>> >>
    [] j = 8          -> << <<i, Limiter>>, <<i, Predict>> >>
    [] j \in 9 .. 15  -> << <<i, Predict>>, SweepOf(L, i, j)>>
    [] j \in 16 .. 22 -> <<SweepOf(L, i, j - 7), <<i, Conserved>> >>
    [] j = 23         -> << <<i, Conserved>>, <<i, Primitive>> >>

(* The edges of a subgrid connect tasks. *)
LEMMA EdgeTasks ==
  ASSUME NEW L \in Layouts, NEW i \in Subgrids(L), NEW j \in 1 .. 23
  PROVE  EdgeAt(L, i, j) \in HydroTask(L) \X HydroTask(L)
<1>1. \A k \in {Limiter, Predict, Conserved, Primitive} : <<i, k>> \in HydroTask(L)
  <2>1. \A k \in {Limiter, Predict, Conserved, Primitive} : k \in Slot /\ k \notin Negative
    BY DEF Limiter, Predict, Conserved, Primitive, Slot, Negative
  <2> QED
    BY <2>1, TaskSlots
<1>2. \A k \in Sweeps : SweepOf(L, i, k) \in HydroTask(L)
  BY SweepIsTask
<1>3. /\ j \in 1 .. 7 => j - 1 \in Sweeps
      /\ j \in 9 .. 15 => j \in Sweeps
      /\ j \in 16 .. 22 => j - 7 \in Sweeps
  BY DEF Sweeps, Gradient, Flux
<1> QED
  BY <1>1, <1>2, <1>3 DEF EdgeAt

(* The edges that make_hydro_tasks adds for a subgrid are 23, in the order *)
(* of the calls.                                                           *)
LEMMA EdgesAre ==
  ASSUME NEW L \in Layouts, NEW i \in Subgrids(L)
  PROVE  /\ Edges(L, i) \in Seq(HydroTask(L) \X HydroTask(L)) /\ Len(Edges(L, i)) = 23
         /\ \A j \in 1 .. 23 : Edges(L, i)[j] = EdgeAt(L, i, j)
<1> DEFINE E == HydroTask(L) \X HydroTask(L)
           g == [j \in 1 .. 7 |-> SweepOf(L, i, j - 1)]
           f == [j \in 1 .. 7 |-> SweepOf(L, i, j + 8)]
           a == [j \in 1 .. 7 |-> <<g[j], <<i, Limiter>> >>]
           b == << << <<i, Limiter>>, <<i, Predict>> >> >>
           c == [j \in 1 .. 7 |-> << <<i, Predict>>, f[j]>>]
           d == [j \in 1 .. 7 |-> <<f[j], <<i, Conserved>> >>]
           e == << << <<i, Conserved>>, <<i, Primitive>> >> >>
<1>1. /\ Len(a) = 7 /\ Len(b) = 1 /\ Len(c) = 7 /\ Len(d) = 7 /\ Len(e) = 1
      /\ \A j \in 1 .. 7 : a[j] = EdgeAt(L, i, j)
      /\ \A j \in 1 .. 1 : b[j] = EdgeAt(L, i, 7 + j)
      /\ \A j \in 1 .. 7 : c[j] = EdgeAt(L, i, 8 + j)
      /\ \A j \in 1 .. 7 : d[j] = EdgeAt(L, i, 15 + j)
      /\ \A j \in 1 .. 1 : e[j] = EdgeAt(L, i, 22 + j)
  <2>1. \A j \in 1 .. 7 : /\ a[j] = EdgeAt(L, i, j)
                          /\ c[j] = EdgeAt(L, i, 8 + j)
                          /\ d[j] = EdgeAt(L, i, 15 + j)
    <3> TAKE j \in 1 .. 7
    <3>1. a[j] = EdgeAt(L, i, j)
      BY DEF EdgeAt
    <3>2. 8 + j \in 9 .. 15 /\ 15 + j \in 16 .. 22 /\ (15 + j) - 7 = j + 8
      OBVIOUS
    <3>3. c[j] = EdgeAt(L, i, 8 + j)
      BY <3>2 DEF EdgeAt
    <3>4. d[j] = EdgeAt(L, i, 15 + j)
      BY <3>2 DEF EdgeAt
    <3> QED
      BY <3>1, <3>3, <3>4
  <2>2. b[1] = EdgeAt(L, i, 8) /\ e[1] = EdgeAt(L, i, 23)
    BY DEF EdgeAt
  <2>3. Len(a) = 7 /\ Len(c) = 7 /\ Len(d) = 7
    OBVIOUS
  <2>4. Len(b) = 1 /\ Len(e) = 1
    OBVIOUS
  <2>5. (\A j \in 1 .. 1 : j = 1) /\ 7 + 1 = 8 /\ 22 + 1 = 23
    OBVIOUS
  <2> HIDE DEF a, b, c, d, e
  <2> QED
    BY <2>1, <2>2, <2>3, <2>4, <2>5
<1>2. a \in Seq(E) /\ b \in Seq(E) /\ c \in Seq(E) /\ d \in Seq(E) /\ e \in Seq(E)
  <2>1. \A j \in 1 .. 23 : EdgeAt(L, i, j) \in E
    BY EdgeTasks
  <2>2. \A j \in 1 .. 7 : j \in 1 .. 23 /\ 8 + j \in 1 .. 23 /\ 15 + j \in 1 .. 23
    OBVIOUS
  <2>3. \A j \in 1 .. 7 : a[j] \in E /\ c[j] \in E /\ d[j] \in E
    <3> HIDE DEF a, b, c, d, e, E
    <3> QED
      BY <1>1, <2>1, <2>2
  <2>4. b[1] \in E /\ e[1] \in E
    <3>1. 7 + 1 \in 1 .. 23 /\ 22 + 1 \in 1 .. 23 /\ 1 \in 1 .. 1
      OBVIOUS
    <3> HIDE DEF a, b, c, d, e, E
    <3> QED
      BY <1>1, <2>1, <3>1
  <2>5. a \in Seq(E) /\ c \in Seq(E) /\ d \in Seq(E)
    <3> HIDE DEF g, f, E
    <3> QED
      BY <2>3
  <2>6. b = <<b[1]>> /\ e = <<e[1]>>
    OBVIOUS
  <2>7. b \in Seq(E) /\ e \in Seq(E)
    <3> DEFINE u == b[1]
               v == e[1]
    <3>1. u \in E /\ v \in E /\ b = <<u>> /\ e = <<v>>
      BY <2>4, <2>6
    <3> HIDE DEF a, b, c, d, e, E, u, v
    <3> QED
      BY <3>1
  <2> HIDE DEF a, b, c, d, e, E
  <2> QED
    BY <2>5, <2>7
<1>3. Edges(L, i) = a \o b \o c \o d \o e
  BY DEF Edges
<1> HIDE DEF a, b, c, d, e, E
<1> DEFINE ab == a \o b
           abc == ab \o c
           abcd == abc \o d
           all == abcd \o e
<1>4. /\ ab \in Seq(E) /\ Len(ab) = 8
      /\ \A j \in 1 .. 8 : ab[j] = EdgeAt(L, i, j)
  <2>1. Concatenates(ab, a, b, E)
    BY <1>2, Concat
  <2> HIDE DEF ab
  <2>2. \A j \in 1 .. 8 : j \in 1 .. 7 \/ (j - 7 \in 1 .. 1 /\ j = 7 + (j - 7))
    OBVIOUS
  <2> QED
    BY <1>1, <2>1, <2>2 DEF Concatenates
<1> HIDE DEF ab
<1>5. /\ abc \in Seq(E) /\ Len(abc) = 15
      /\ \A j \in 1 .. 15 : abc[j] = EdgeAt(L, i, j)
  <2>1. Concatenates(abc, ab, c, E)
    BY <1>2, <1>4, Concat
  <2> HIDE DEF abc
  <2>2. \A j \in 1 .. 15 : j \in 1 .. 8 \/ (j - 8 \in 1 .. 7 /\ j = 8 + (j - 8))
    OBVIOUS
  <2> QED
    BY <1>1, <1>4, <2>1, <2>2 DEF Concatenates
<1> HIDE DEF abc
<1>6. /\ abcd \in Seq(E) /\ Len(abcd) = 22
      /\ \A j \in 1 .. 22 : abcd[j] = EdgeAt(L, i, j)
  <2>1. Concatenates(abcd, abc, d, E)
    BY <1>2, <1>5, Concat
  <2> HIDE DEF abcd
  <2>2. \A j \in 1 .. 22 : j \in 1 .. 15 \/ (j - 15 \in 1 .. 7 /\ j = 15 + (j - 15))
    OBVIOUS
  <2> QED
    BY <1>1, <1>5, <2>1, <2>2 DEF Concatenates
<1> HIDE DEF abcd
<1>7. /\ all \in Seq(E) /\ Len(all) = 23
      /\ \A j \in 1 .. 23 : all[j] = EdgeAt(L, i, j)
  <2>1. Concatenates(all, abcd, e, E)
    BY <1>2, <1>6, Concat
  <2> HIDE DEF all
  <2>2. \A j \in 1 .. 23 : j \in 1 .. 22 \/ (j - 22 \in 1 .. 1 /\ j = 22 + (j - 22))
    OBVIOUS
  <2> QED
    BY <1>1, <1>6, <2>1, <2>2 DEF Concatenates
<1>8. Edges(L, i) = all
  BY <1>3 DEF all, abcd, abc, ab
<1> QED
  BY <1>7, <1>8 DEF E

(* The number of subgrids. *)
Size(L) == L.n[1] * L.n[2] * L.n[3]

(* The subgrids are numbered from 0. *)
LEMMA SubgridsSize ==
  ASSUME NEW L \in Layouts
  PROVE  /\ Size(L) \in Nat \ {0} /\ Subgrids(L) = 0 .. Size(L) - 1
         /\ IsFiniteSet(Subgrids(L)) /\ Cardinality(Subgrids(L)) = Size(L)
<1>1. Size(L) \in Nat \ {0}
  BY Products DEF Size
<1>2. Subgrids(L) = 0 .. Size(L) - 1
  BY DEF Subgrids, Size
<1> HIDE DEF Size
<1> QED
  BY <1>1, <1>2, FS_Interval

(* The edges of the graph: 23 for every subgrid.                           *)
LEMMA AllEdgesAre ==
  ASSUME NEW L \in Layouts
  PROVE  /\ AllEdges(L) \in Seq(HydroTask(L) \X HydroTask(L))
         /\ Len(AllEdges(L)) = Size(L) * 23
         /\ \A i \in Subgrids(L), j \in 1 .. 23 : AllEdges(L)[i * 23 + j] = EdgeAt(L, i, j)
<1> DEFINE n == Size(L)
           E == HydroTask(L) \X HydroTask(L)
           s == [i \in 1 .. n |-> Edges(L, i - 1)]
<1>1. n \in Nat \ {0} /\ Cardinality(Subgrids(L)) = n /\ Subgrids(L) = 0 .. n - 1
  BY SubgridsSize
<1>2. AllEdges(L) = FlattenSeq(s)
  BY <1>1 DEF AllEdges
<1> HIDE DEF n
<1>3. s \in [1 .. n -> Seq(E)] /\ \A i \in 1 .. n : Len(s[i]) = 23
  <2>1. \A i \in 1 .. n : i - 1 \in Subgrids(L)
    BY <1>1
  <2> HIDE DEF E
  <2> QED
    BY <2>1, EdgesAre DEF E
<1> HIDE DEF s, E
<1>4. /\ FlattenSeq(s) \in Seq(E) /\ Len(FlattenSeq(s)) = n * 23
      /\ \A i \in 1 .. n, j \in 1 .. 23 : FlattenSeq(s)[(i - 1) * 23 + j] = s[i][j]
  <2>1. PICK m \in Nat : m = 23
    OBVIOUS
  <2>2. \A i \in 1 .. n : Len(s[i]) = m
    BY <1>3, <2>1
  <2>3. AreFlattened(FlattenSeq(s), s, n, m, E)
    BY <1>1, <1>3, <2>2, FlattenEqual
  <2> QED
    BY <2>1, <2>3 DEF AreFlattened
<1>5. ASSUME NEW i \in Subgrids(L), NEW j \in 1 .. 23
      PROVE  AllEdges(L)[i * 23 + j] = EdgeAt(L, i, j)
  <2>1. i + 1 \in 1 .. n /\ (i + 1) - 1 = i
    BY <1>1
  <2>2. FlattenSeq(s)[i * 23 + j] = s[i + 1][j]
    BY <1>4, <2>1
  <2>3. s[i + 1] = Edges(L, i)
    BY <2>1 DEF s
  <2> QED
    BY <1>2, <2>2, <2>3, EdgesAre
<1> QED
  BY <1>2, <1>4, <1>5 DEF E, n

(* The places of the edges.                                                *)
LEMMA Places ==
  ASSUME NEW L \in Layouts
  PROVE  /\ \A i \in Subgrids(L), j \in 1 .. 23 : i * 23 + j \in 1 .. Size(L) * 23
         /\ \A k \in 1 .. Size(L) * 23 : \E i \in Subgrids(L), j \in 1 .. 23 : k = i * 23 + j
<1> DEFINE n == Size(L)
<1>1. n \in Nat \ {0} /\ Subgrids(L) = 0 .. n - 1
  BY SubgridsSize
<1> HIDE DEF n
<1>2. \A i \in Subgrids(L), j \in 1 .. 23 : i * 23 + j \in 1 .. n * 23
  BY <1>1
<1>3. ASSUME NEW k \in 1 .. n * 23
      PROVE  \E i \in Subgrids(L), j \in 1 .. 23 : k = i * 23 + j
  <2>1. (k - 1) \div 23 \in 0 .. n - 1 /\ ((k - 1) % 23) + 1 \in 1 .. 23
        /\ k = ((k - 1) \div 23) * 23 + (((k - 1) % 23) + 1)
    BY <1>1
  <2> QED
    BY <1>1, <2>1
<1> QED
  BY <1>2, <1>3 DEF n

-----------------------------------------------------------------------------
(* 3. The children. *)

(* G holds the children after each number of edges.                        *)
Adds(G, E, T, n) ==
  G = [k \in 0 .. n |-> IF k = 0 THEN [x \in T |-> <<>>]
                        ELSE [G[k - 1] EXCEPT ![E[k][1]] = Append(@, E[k][2])]]

(* There are such functions. *)
LEMMA AddsExist ==
  ASSUME NEW E, NEW T, NEW n \in Nat
  PROVE  \E G : Adds(G, E, T, n)
<1> DEFINE B == {m \in Nat : ~ \E G : Adds(G, E, T, m)}
<1> SUFFICES ASSUME B # {} PROVE FALSE
  OBVIOUS
<1>1. PICK m \in B : \A k \in B : m <= k
  <2>1. B \in SUBSET Nat
    OBVIOUS
  <2> HIDE DEF B
  <2> QED
    BY <2>1, LeastNumber
<1>2. m # 0
  <2> DEFINE H == [k \in 0 .. 0 |-> [x \in T |-> <<>>]]
  <2>1. Adds(H, E, T, 0)
    BY DEF Adds
  <2> QED
    BY <2>1, <1>1
<1>3. m \in Nat \ {0} /\ m - 1 \in Nat /\ m - 1 \notin B
  BY <1>1, <1>2
<1>4. PICK G : Adds(G, E, T, m - 1)
  BY <1>3
<1> DEFINE Add(g, k) == [g EXCEPT ![E[k][1]] = Append(@, E[k][2])]
           H == [k \in 0 .. m |-> IF k = m THEN Add(G[m - 1], m) ELSE G[k]]
<1>5. \A k \in 0 .. m - 1 : G[k] = IF k = 0 THEN [x \in T |-> <<>>] ELSE Add(G[k - 1], k)
  <2>1. G = [k \in 0 .. m - 1 |-> IF k = 0 THEN [x \in T |-> <<>>] ELSE Add(G[k - 1], k)]
    BY <1>4 DEF Adds
  <2> HIDE DEF Add, B, H
  <2> QED
    BY <2>1
<1> HIDE DEF Add
<1>6. \A k \in 0 .. m : H[k] = IF k = 0 THEN [x \in T |-> <<>>] ELSE Add(H[k - 1], k)
  <2> TAKE k \in 0 .. m
  <2>1. CASE k = m
    <3>1. m - 1 \in 0 .. m /\ m \in 0 .. m /\ m - 1 # m /\ m # 0
      BY <1>3
    <3>2. H[m] = Add(G[m - 1], m) /\ H[m - 1] = G[m - 1]
      BY <3>1
    <3> HIDE DEF H
    <3> QED
      BY <2>1, <3>1, <3>2
  <2>2. CASE k # m
    <3>1. k \in 0 .. m - 1 /\ (k # 0 => k - 1 \in 0 .. m /\ k - 1 # m)
      BY <1>3, <2>2
    <3>2. H[k] = G[k] /\ (k # 0 => H[k - 1] = G[k - 1])
      BY <2>2, <3>1
    <3> HIDE DEF H
    <3> QED
      BY <1>5, <3>1, <3>2
  <2> QED
    BY <2>1, <2>2
<1>7. H = [k \in 0 .. m |-> H[k]]
  OBVIOUS
<1> HIDE DEF H, B
<1>8. H = [k \in 0 .. m |-> IF k = 0 THEN [x \in T |-> <<>>] ELSE Add(H[k - 1], k)]
  BY <1>6, <1>7
<1>9. Adds(H, E, T, m)
  BY <1>8 DEF Adds, Add
<1> QED
  BY <1>1, <1>9 DEF B

(* The places of a value in a sequence. *)
PlacesOf(s, v, k) == {h \in 1 .. k : s[h] = v}

(* One more place: it counts if the value is there.                        *)
LEMMA OnePlaceMore ==
  ASSUME NEW s, NEW v, NEW k \in Nat \ {0}
  PROVE  /\ IsFiniteSet(PlacesOf(s, v, k)) /\ Cardinality(PlacesOf(s, v, k)) \in Nat
         /\ Cardinality(PlacesOf(s, v, k - 1)) \in Nat
         /\ Cardinality(PlacesOf(s, v, k)) =
              Cardinality(PlacesOf(s, v, k - 1)) + IF s[k] = v THEN 1 ELSE 0
<1>1. IsFiniteSet(1 .. k) /\ IsFiniteSet(1 .. k - 1)
  BY FS_Interval
<1>2. IsFiniteSet(PlacesOf(s, v, k)) /\ IsFiniteSet(PlacesOf(s, v, k - 1))
  BY <1>1, FS_Subset DEF PlacesOf
<1>3. Cardinality(PlacesOf(s, v, k)) \in Nat /\ Cardinality(PlacesOf(s, v, k - 1)) \in Nat
  BY <1>2, FS_CardinalityType
<1>4. CASE s[k] = v
  <2>1. PlacesOf(s, v, k) = PlacesOf(s, v, k - 1) \cup {k}
    BY <1>4 DEF PlacesOf
  <2>2. k \notin PlacesOf(s, v, k - 1)
    BY DEF PlacesOf
  <2>3. Cardinality(PlacesOf(s, v, k)) = Cardinality(PlacesOf(s, v, k - 1)) + 1
    BY <1>2, <2>1, <2>2, FS_AddElement
  <2> QED
    BY <1>2, <1>3, <1>4, <2>3
<1>5. CASE s[k] # v
  <2>1. PlacesOf(s, v, k) = PlacesOf(s, v, k - 1)
    BY <1>5 DEF PlacesOf
  <2> QED
    BY <1>2, <1>3, <1>5, <2>1
<1> QED
  BY <1>4, <1>5

(* The number of occurrences in a sequence with one more element. *)
LEMMA CountAppend ==
  ASSUME NEW T, NEW s \in Seq(T), NEW e \in T, NEW y
  PROVE  /\ Count(s, y) \in Nat
         /\ e = y => Count(Append(s, e), y) = Count(s, y) + 1
         /\ e # y => Count(Append(s, e), y) = Count(s, y)
<1> DEFINE t == Append(s, e)
           k == Len(s) + 1
<1>1. /\ k \in Nat \ {0} /\ DOMAIN t = 1 .. k /\ DOMAIN s = 1 .. k - 1
      /\ t[k] = e /\ \A h \in 1 .. k - 1 : t[h] = s[h]
  OBVIOUS
<1> HIDE DEF t, k
<1>2. Count(t, y) = Cardinality(PlacesOf(t, y, k))
  BY <1>1 DEF Count, PlacesOf
<1>3. Count(s, y) = Cardinality(PlacesOf(t, y, k - 1))
  <2>1. {i \in DOMAIN s : s[i] = y} = PlacesOf(t, y, k - 1)
    BY <1>1 DEF PlacesOf
  <2> QED
    BY <2>1 DEF Count
<1>4. /\ Cardinality(PlacesOf(t, y, k - 1)) \in Nat
      /\ Cardinality(PlacesOf(t, y, k)) =
           Cardinality(PlacesOf(t, y, k - 1)) + IF t[k] = y THEN 1 ELSE 0
  BY <1>1, OnePlaceMore
<1>5. Count(t, y) = Count(s, y) + IF e = y THEN 1 ELSE 0
  BY <1>1, <1>2, <1>3, <1>4
<1> QED
  BY <1>3, <1>4, <1>5 DEF t

(* The parents of the edges. *)
Parents(E) == [h \in DOMAIN E |-> E[h][1]]

(* What children a task has after the first k edges.                       *)
HoldsEdges(c, E, T, k) ==
  /\ c \in [T -> Seq(T)]
  /\ \A x \in T : Len(c[x]) = Cardinality(PlacesOf(Parents(E), x, k))
  /\ \A x, y \in T : Count(c[x], y) = Cardinality(PlacesOf(E, <<x, y>>, k))

(* The children that add_child adds one after the other are those of the   *)
(* edges, in their order: by the least number of edges after which they    *)
(* are not.                                                                *)
LEMMA EdgesAdded ==
  ASSUME NEW T, NEW E \in Seq(T \X T), NEW G, Adds(G, E, T, Len(E))
  PROVE  HoldsEdges(G[Len(E)], E, T, Len(E))
<1> DEFINE n == Len(E)
           B == {k \in 0 .. n : ~ HoldsEdges(G[k], E, T, k)}
<1>0. n \in Nat /\ E \in [1 .. n -> T \X T]
  OBVIOUS
<1> HIDE DEF n
<1>1. \A k \in 0 .. n : G[k] = IF k = 0 THEN [x \in T |-> <<>>]
                               ELSE [G[k - 1] EXCEPT ![E[k][1]] = Append(@, E[k][2])]
  <2>1. G = [k \in 0 .. n |-> IF k = 0 THEN [x \in T |-> <<>>]
                              ELSE [G[k - 1] EXCEPT ![E[k][1]] = Append(@, E[k][2])]]
    BY DEF Adds, n
  <2> QED
    BY <2>1, Zenon
<1>2. B = {}
  <2> SUFFICES ASSUME B # {} PROVE FALSE
    OBVIOUS
  <2>1. PICK k \in B : \A h \in B : k <= h
    <3>1. B \in SUBSET Nat
      BY <1>0
    <3> HIDE DEF B
    <3> QED
      BY <3>1, LeastNumber
  <2>2. CASE k = 0
    <3>1. G[0] = [x \in T |-> <<>>]
      <4>1. 0 \in 0 .. n
        BY <1>0
      <4> QED
        BY <1>1, <4>1, Zenon
    <3>2. \A s, v : Cardinality(PlacesOf(s, v, 0)) = 0
      <4>1. \A s, v : PlacesOf(s, v, 0) = {}
        BY DEF PlacesOf
      <4> QED
        BY <4>1, FS_EmptySet
    <3>3. \A y : Count(<<>>, y) = 0
      <4>1. \A y : {i \in DOMAIN <<>> : <<>>[i] = y} = {}
        OBVIOUS
      <4> QED
        BY <4>1, FS_EmptySet DEF Count
    <3>4. G[0] \in [T -> Seq(T)] /\ \A x \in T : G[0][x] = <<>>
      BY <3>1
    <3>5. HoldsEdges(G[0], E, T, 0)
      BY <3>2, <3>3, <3>4 DEF HoldsEdges
    <3> QED
      BY <2>1, <2>2, <3>5
  <2>3. CASE k # 0
    <3>1. k - 1 \in 0 .. n /\ HoldsEdges(G[k - 1], E, T, k - 1) /\ k \in 1 .. n
      BY <1>0, <2>1, <2>3
    <3> HIDE DEF B
    <3> DEFINE u == E[k][1]
               w == E[k][2]
               c == G[k - 1]
    <3>2. u \in T /\ w \in T /\ E[k] = <<u, w>> /\ Parents(E)[k] = u
      BY <1>0, <3>1 DEF Parents
    <3>3. G[k] = [c EXCEPT ![u] = Append(@, w)]
      <4>1. k \in 0 .. n /\ k # 0
        BY <1>0, <3>1
      <4> QED
        BY <1>1, <4>1, Zenon
    <3>4. /\ c \in [T -> Seq(T)]
          /\ \A x \in T : Len(c[x]) = Cardinality(PlacesOf(Parents(E), x, k - 1))
          /\ \A x, y \in T : Count(c[x], y) = Cardinality(PlacesOf(E, <<x, y>>, k - 1))
      BY <3>1 DEF HoldsEdges
    <3> HIDE DEF u, w, c
    <3>5. /\ G[k] \in [T -> Seq(T)]
          /\ G[k][u] = Append(c[u], w)
          /\ \A x \in T : x # u => G[k][x] = c[x]
      BY <3>2, <3>3, <3>4
    <3>6. ASSUME NEW x \in T PROVE Len(G[k][x]) = Cardinality(PlacesOf(Parents(E), x, k))
      <4>1. /\ Cardinality(PlacesOf(Parents(E), x, k)) =
                 Cardinality(PlacesOf(Parents(E), x, k - 1)) + IF Parents(E)[k] = x THEN 1 ELSE 0
            /\ Cardinality(PlacesOf(Parents(E), x, k - 1)) \in Nat
        <5>1. k \in Nat \ {0}
          BY <3>1
        <5> QED
          BY <5>1, OnePlaceMore
      <4>2. CASE x = u
        <5>1. Len(G[k][x]) = Len(c[u]) + 1
          BY <3>2, <3>4, <3>5, <4>2
        <5> QED
          BY <3>2, <3>4, <4>1, <4>2, <5>1
      <4>3. CASE x # u
        BY <3>2, <3>4, <3>5, <4>1, <4>3
      <4> QED
        BY <4>2, <4>3
    <3>7. ASSUME NEW x \in T, NEW y \in T
          PROVE  Count(G[k][x], y) = Cardinality(PlacesOf(E, <<x, y>>, k))
      <4>1. /\ Cardinality(PlacesOf(E, <<x, y>>, k)) =
                 Cardinality(PlacesOf(E, <<x, y>>, k - 1)) + IF E[k] = <<x, y>> THEN 1 ELSE 0
            /\ Cardinality(PlacesOf(E, <<x, y>>, k - 1)) \in Nat
        <5>1. k \in Nat \ {0}
          BY <3>1
        <5> QED
          BY <5>1, OnePlaceMore
      <4>2. CASE x = u
        <5>1. Count(G[k][x], y) = Count(c[u], y) + IF w = y THEN 1 ELSE 0
          <6>1. c[u] \in Seq(T)
            BY <3>2, <3>4
          <6>2. /\ w = y => Count(Append(c[u], w), y) = Count(c[u], y) + 1
                /\ w # y => Count(Append(c[u], w), y) = Count(c[u], y)
                /\ Count(c[u], y) \in Nat
            BY <3>2, <6>1, CountAppend
          <6>3. G[k][x] = Append(c[u], w)
            BY <3>5, <4>2
          <6>4. CASE w = y
            BY <6>2, <6>3, <6>4
          <6>5. CASE w # y
            BY <6>2, <6>3, <6>5
          <6> QED
            BY <6>4, <6>5
        <5>2. E[k] = <<x, y>> <=> w = y
          BY <3>2, <4>2
        <5>3. Count(c[u], y) = Cardinality(PlacesOf(E, <<x, y>>, k - 1))
          BY <3>4, <4>2
        <5> QED
          BY <4>1, <5>1, <5>2, <5>3
      <4>3. CASE x # u
        <5>1. E[k] # <<x, y>>
          BY <3>2, <4>3
        <5>2. Count(G[k][x], y) = Cardinality(PlacesOf(E, <<x, y>>, k - 1))
          BY <3>4, <3>5, <4>3
        <5> QED
          BY <4>1, <5>1, <5>2
      <4> QED
        BY <4>2, <4>3
    <3>8. HoldsEdges(G[k], E, T, k)
      BY <3>5, <3>6, <3>7 DEF HoldsEdges
    <3> QED
      BY <2>1, <3>8 DEF B
  <2> QED
    BY <2>2, <2>3
<1>3. n \in 0 .. n
  BY <1>0
<1> QED
  BY <1>2, <1>3 DEF n

(* The children of the tasks: for every edge from a task one child.        *)
LEMMA ChildrenAre ==
  ASSUME NEW L \in Layouts
  PROVE  HoldsEdges(ChildrenOf(L), AllEdges(L), HydroTask(L), Size(L) * 23)
<1> DEFINE E == AllEdges(L)
           T == HydroTask(L)
           n == Len(E)
           G == CHOOSE g : g = [k \in 0 .. n |-> IF k = 0 THEN [x \in T |-> <<>>]
                                   ELSE [g[k - 1] EXCEPT ![E[k][1]] = Append(@, E[k][2])]]
<1>1. E \in Seq(T \X T) /\ n \in Nat /\ n = Size(L) * 23
  BY AllEdgesAre
<1>2. ChildrenOf(L) = G[n]
  BY DEF ChildrenOf
<1>3. Adds(G, E, T, n)
  <2>1. PICK g : Adds(g, E, T, n)
    BY <1>1, AddsExist
  <2>2. g = [k \in 0 .. n |-> IF k = 0 THEN [x \in T |-> <<>>]
                              ELSE [g[k - 1] EXCEPT ![E[k][1]] = Append(@, E[k][2])]]
    BY <2>1 DEF Adds
  <2>3. G = [k \in 0 .. n |-> IF k = 0 THEN [x \in T |-> <<>>]
                              ELSE [G[k - 1] EXCEPT ![E[k][1]] = Append(@, E[k][2])]]
    BY <2>2
  <2> HIDE DEF G
  <2> QED
    BY <2>3 DEF Adds
<1> HIDE DEF E, T, G
<1>4. HoldsEdges(G[n], E, T, n)
  BY <1>1, <1>3, EdgesAdded
<1> QED
  BY <1>1, <1>2, <1>4 DEF E, T

-----------------------------------------------------------------------------
(* 4. The phases. *)

(* Every edge is that of a subgrid, and every edge of a subgrid is there.  *)
LEMMA EdgeIsAt ==
  ASSUME NEW L \in Layouts
  PROVE  /\ \A k \in 1 .. Size(L) * 23 :
              \E i \in Subgrids(L), j \in 1 .. 23 :
                 k = i * 23 + j /\ AllEdges(L)[k] = EdgeAt(L, i, j)
         /\ \A i \in Subgrids(L), j \in 1 .. 23 :
              \E k \in 1 .. Size(L) * 23 : k = i * 23 + j /\ AllEdges(L)[k] = EdgeAt(L, i, j)
<1>1. ASSUME NEW k \in 1 .. Size(L) * 23
      PROVE  \E i \in Subgrids(L), j \in 1 .. 23 :
                k = i * 23 + j /\ AllEdges(L)[k] = EdgeAt(L, i, j)
  <2>1. PICK i \in Subgrids(L), j \in 1 .. 23 : k = i * 23 + j
    BY Places
  <2>2. AllEdges(L)[i * 23 + j] = EdgeAt(L, i, j)
    BY AllEdgesAre
  <2> QED
    BY <2>1, <2>2
<1>2. ASSUME NEW i \in Subgrids(L), NEW j \in 1 .. 23
      PROVE  \E k \in 1 .. Size(L) * 23 : k = i * 23 + j /\ AllEdges(L)[k] = EdgeAt(L, i, j)
  <2>1. i * 23 + j \in 1 .. Size(L) * 23
    BY Places
  <2>2. AllEdges(L)[i * 23 + j] = EdgeAt(L, i, j)
    BY AllEdgesAre
  <2> QED
    BY <2>1, <2>2
<1> QED
  BY <1>1, <1>2

(* A task has a child if there is an edge to it. *)
LEMMA ChildByEdge ==
  ASSUME NEW L \in Layouts, NEW x \in HydroTask(L), NEW y \in HydroTask(L)
  PROVE  /\ Count(ChildrenOf(L)[x], y) \in Nat
         /\ y \in ToSet(ChildrenOf(L)[x]) <=> Count(ChildrenOf(L)[x], y) # 0
         /\ y \in ToSet(ChildrenOf(L)[x]) <=>
              \E i \in Subgrids(L), j \in 1 .. 23 : EdgeAt(L, i, j) = <<x, y>>
<1> DEFINE c == ChildrenOf(L)[x]
           P == PlacesOf(AllEdges(L), <<x, y>>, Size(L) * 23)
           S == {i \in DOMAIN c : c[i] = y}
<1>1. c \in Seq(HydroTask(L)) /\ Count(c, y) = Cardinality(P)
  BY ChildrenAre DEF HoldsEdges
<1>2. Size(L) * 23 \in Nat
  BY SubgridsSize
<1>3. IsFiniteSet(P)
  <2>1. IsFiniteSet(1 .. Size(L) * 23)
    BY <1>2, FS_Interval
  <2> QED
    BY <2>1, FS_Subset DEF PlacesOf
<1> HIDE DEF c
<1>4. IsFiniteSet(S)
  <2>1. IsFiniteSet(1 .. Len(c)) /\ DOMAIN c = 1 .. Len(c)
    BY <1>1, FS_Interval
  <2> QED
    BY <2>1, FS_Subset
<1>5. y \in ToSet(c) <=> S # {}
  BY DEF ToSet
<1>6. Count(c, y) = Cardinality(S)
  BY DEF Count
<1>7. P # {} <=> \E i \in Subgrids(L), j \in 1 .. 23 : EdgeAt(L, i, j) = <<x, y>>
  <2>1. P # {} <=> \E k \in 1 .. Size(L) * 23 : AllEdges(L)[k] = <<x, y>>
    BY DEF PlacesOf
  <2> HIDE DEF P
  <2>2. ASSUME NEW k \in 1 .. Size(L) * 23, AllEdges(L)[k] = <<x, y>>
        PROVE  \E i \in Subgrids(L), j \in 1 .. 23 : EdgeAt(L, i, j) = <<x, y>>
    <3>1. PICK i \in Subgrids(L), j \in 1 .. 23 : AllEdges(L)[k] = EdgeAt(L, i, j)
      BY EdgeIsAt
    <3> QED
      BY <2>2, <3>1
  <2>3. ASSUME NEW i \in Subgrids(L), NEW j \in 1 .. 23, EdgeAt(L, i, j) = <<x, y>>
        PROVE  \E k \in 1 .. Size(L) * 23 : AllEdges(L)[k] = <<x, y>>
    <3>1. PICK k \in 1 .. Size(L) * 23 : AllEdges(L)[k] = EdgeAt(L, i, j)
      BY EdgeIsAt
    <3> QED
      BY <2>3, <3>1
  <2> QED
    BY <2>1, <2>2, <2>3
<1> HIDE DEF P, S
<1>8. Cardinality(S) \in Nat /\ (Cardinality(S) = 0 <=> S = {}) /\ (Cardinality(P) = 0 <=> P = {})
  BY <1>3, <1>4, FS_CardinalityType, FS_EmptySet
<1> QED
  BY <1>1, <1>5, <1>6, <1>7, <1>8 DEF c

(* An edge leads to the next phase. *)
LEMMA EdgePhase ==
  ASSUME NEW L \in Layouts, NEW i \in Subgrids(L), NEW j \in 1 .. 23
  PROVE  /\ PhaseOf(EdgeAt(L, i, j)[1][2]) \in 1 .. 6
         /\ PhaseOf(EdgeAt(L, i, j)[2][2]) = PhaseOf(EdgeAt(L, i, j)[1][2]) + 1
<1>1. ASSUME NEW k \in Sweeps
      PROVE  PhaseOf(SweepOf(L, i, k)[2]) = IF k \in Gradient THEN 1 ELSE 4
  <2>1. SweepOf(L, i, k) = <<i, k>> \/ (k \in Negative /\ SweepOf(L, i, k)[2] = k - 1)
    BY SweepIsTask
  <2>2. PhaseOf(k) = IF k \in Gradient THEN 1 ELSE 4
    BY FaceSlots
  <2>3. k \in Negative => PhaseOf(k - 1) = PhaseOf(k)
    BY FaceSlots
  <2>4. SweepOf(L, i, k)[2] = k \/ (k \in Negative /\ SweepOf(L, i, k)[2] = k - 1)
    BY <2>1
  <2> QED
    BY <2>2, <2>3, <2>4
<1>2. /\ PhaseOf(Limiter) = 2 /\ PhaseOf(Predict) = 3 /\ PhaseOf(Conserved) = 5
      /\ PhaseOf(Primitive) = 6
  BY DEF PhaseOf, Gradient, Flux, Limiter, Predict, Conserved, Primitive
<1>3. CASE j \in 1 .. 7
  <2>1. EdgeAt(L, i, j) = <<SweepOf(L, i, j - 1), <<i, Limiter>> >>
    BY <1>3 DEF EdgeAt
  <2>2. j - 1 \in Sweeps /\ j - 1 \in Gradient
    BY <1>3 DEF Sweeps, Gradient
  <2>3. PhaseOf(SweepOf(L, i, j - 1)[2]) = 1
    BY <1>1, <2>2
  <2> QED
    BY <1>2, <2>1, <2>3
<1>4. CASE j = 8
  <2>1. EdgeAt(L, i, j) = << <<i, Limiter>>, <<i, Predict>> >>
    BY <1>4 DEF EdgeAt
  <2> QED
    BY <1>2, <2>1
<1>5. CASE j \in 9 .. 15
  <2>1. EdgeAt(L, i, j) = << <<i, Predict>>, SweepOf(L, i, j)>>
    BY <1>5 DEF EdgeAt
  <2>2. j \in Sweeps /\ j \notin Gradient
    BY <1>5 DEF Sweeps, Flux, Gradient
  <2>3. PhaseOf(SweepOf(L, i, j)[2]) = 4
    BY <1>1, <2>2
  <2> QED
    BY <1>2, <2>1, <2>3
<1>6. CASE j \in 16 .. 22
  <2>1. EdgeAt(L, i, j) = <<SweepOf(L, i, j - 7), <<i, Conserved>> >>
    BY <1>6 DEF EdgeAt
  <2>2. j - 7 \in Sweeps /\ j - 7 \notin Gradient
    BY <1>6 DEF Sweeps, Flux, Gradient
  <2>3. PhaseOf(SweepOf(L, i, j - 7)[2]) = 4
    BY <1>1, <2>2
  <2> QED
    BY <1>2, <2>1, <2>3
<1>7. CASE j = 23
  <2>1. EdgeAt(L, i, j) = << <<i, Conserved>>, <<i, Primitive>> >>
    BY <1>7 DEF EdgeAt
  <2> QED
    BY <1>2, <2>1
<1> QED
  BY <1>3, <1>4, <1>5, <1>6, <1>7

-----------------------------------------------------------------------------
(* The tasks that work on a subgrid. *)

(* The slots of a phase. *)
LEMMA PhaseSlots ==
  ASSUME NEW k \in Slot
  PROVE  /\ PhaseOf(k) \in 1 .. 6
         /\ PhaseOf(k) = 1 <=> k \in Gradient
         /\ PhaseOf(k) = 2 <=> k = Limiter
         /\ PhaseOf(k) = 3 <=> k = Predict
         /\ PhaseOf(k) = 4 <=> k \in Flux
         /\ PhaseOf(k) = 5 <=> k = Conserved
         /\ PhaseOf(k) = 6 <=> k = Primitive
         /\ k \notin Sweeps => k \notin Positive /\ k \notin Negative
  BY DEF PhaseOf, Slot, Gradient, Flux, Limiter, Predict, Conserved, Primitive, Sweeps,
         Positive, Negative

(* A task that works on a subgrid is a sweep of the subgrid, or its own.   *)
LEMMA TouchingTask ==
  ASSUME NEW L \in Layouts, NEW x \in HydroTask(L), NEW s \in Touches(L, x)
  PROVE  /\ s \in Subgrids(L) /\ x[2] \in Slot
         /\ x[2] \notin Sweeps => x = <<s, x[2]>>
         /\ x[2] \in Sweeps =>
              \E k \in Sweeps : PhaseOf(k) = PhaseOf(x[2]) /\ SweepOf(L, s, k) = x
<1>1. x \in Subgrids(L) \X Slot
  BY DEF HydroTask
<1>2. x = <<x[1], x[2]>> /\ x[1] \in Subgrids(L) /\ x[2] \in Slot
  BY <1>1
<1>3. CASE s = x[1]
  <2>1. x[2] \in Sweeps => SweepOf(L, s, x[2]) = x
    BY <1>3, SweepOfOwn
  <2> QED
    BY <1>2, <1>3, <2>1
<1>4. CASE s # x[1]
  <2>1. s = Partner(L, x) /\ Partner(L, x) # Outside
    BY <1>4 DEF Touches
  <2>2. x[2] \in Positive
    BY <2>1 DEF Partner
  <2>3. x[2] \in Sweeps
    BY <1>2, <2>2, PhaseSlots
  <2>4. /\ x[2] + 1 \in Sweeps /\ PhaseOf(x[2] + 1) = PhaseOf(x[2])
        /\ s \in Subgrids(L) /\ SweepOf(L, s, x[2] + 1) = x
    BY <2>1, <2>3, SweepOfPartner
  <2> QED
    BY <1>2, <2>3, <2>4
<1> QED
  BY <1>3, <1>4

(* Of two tasks that work on a subgrid, in phases that follow each other,  *)
(* the second one is a child of the first one.                             *)
LEMMA NextPhaseChild ==
  ASSUME NEW L \in Layouts, NEW x \in HydroTask(L), NEW y \in HydroTask(L),
         NEW s \in Touches(L, x) \cap Touches(L, y), PhaseOf(y[2]) = PhaseOf(x[2]) + 1
  PROVE  y \in ToSet(ChildrenOf(L)[x])
<1>1. s \in Subgrids(L) /\ x[2] \in Slot /\ y[2] \in Slot
  BY TouchingTask
<1>2. /\ x[2] \notin Sweeps => x = <<s, x[2]>>
      /\ y[2] \notin Sweeps => y = <<s, y[2]>>
  BY TouchingTask
<1>3. /\ x[2] \in Sweeps => \E k \in Sweeps : PhaseOf(k) = PhaseOf(x[2]) /\ SweepOf(L, s, k) = x
      /\ y[2] \in Sweeps => \E k \in Sweeps : PhaseOf(k) = PhaseOf(y[2]) /\ SweepOf(L, s, k) = y
  BY TouchingTask
<1>4. \A k \in Sweeps : k \in Slot
  BY FaceSlots
<1>5. /\ Limiter \notin Sweeps /\ Predict \notin Sweeps /\ Conserved \notin Sweeps
      /\ Primitive \notin Sweeps
      /\ \A k \in Gradient : k \in Sweeps /\ k + 1 \in 1 .. 7 /\ (k + 1) - 1 = k
      /\ \A k \in Flux : k \in Sweeps /\ k \in 9 .. 15 /\ k + 7 \in 16 .. 22 /\ (k + 7) - 7 = k
  BY DEF Sweeps, Gradient, Flux, Limiter, Predict, Conserved, Primitive
<1>6. \E j \in 1 .. 23 : EdgeAt(L, s, j) = <<x, y>>
  <2>1. CASE PhaseOf(x[2]) = 1
    <3>1. x[2] \in Gradient /\ y[2] = Limiter
      BY <1>1, <2>1, PhaseSlots
    <3>2. PICK k \in Sweeps : PhaseOf(k) = 1 /\ SweepOf(L, s, k) = x
      BY <1>3, <1>5, <2>1, <3>1
    <3>3. k \in Gradient
      BY <1>4, <3>2, PhaseSlots
    <3>4. y = <<s, Limiter>>
      BY <1>2, <1>5, <3>1
    <3>5. EdgeAt(L, s, k + 1) = <<x, y>>
      BY <1>5, <3>2, <3>3, <3>4 DEF EdgeAt
    <3>6. k + 1 \in 1 .. 23
      BY <1>5, <3>3
    <3> QED
      BY <3>5, <3>6
  <2>2. CASE PhaseOf(x[2]) = 2
    <3>1. x[2] = Limiter /\ y[2] = Predict
      BY <1>1, <2>2, PhaseSlots
    <3>2. x = <<s, Limiter>> /\ y = <<s, Predict>>
      BY <1>2, <1>5, <3>1
    <3>3. EdgeAt(L, s, 8) = <<x, y>>
      BY <3>2 DEF EdgeAt
    <3> QED
      BY <3>3
  <2>3. CASE PhaseOf(x[2]) = 3
    <3>1. x[2] = Predict /\ y[2] \in Flux
      BY <1>1, <2>3, PhaseSlots
    <3>2. PICK k \in Sweeps : PhaseOf(k) = 4 /\ SweepOf(L, s, k) = y
      BY <1>3, <1>5, <2>3, <3>1
    <3>3. k \in Flux
      BY <1>4, <3>2, PhaseSlots
    <3>4. x = <<s, Predict>>
      BY <1>2, <1>5, <3>1
    <3>5. EdgeAt(L, s, k) = <<x, y>>
      BY <1>5, <3>2, <3>3, <3>4 DEF EdgeAt
    <3>6. k \in 1 .. 23
      BY <1>5, <3>3
    <3> QED
      BY <3>5, <3>6
  <2>4. CASE PhaseOf(x[2]) = 4
    <3>1. x[2] \in Flux /\ y[2] = Conserved
      BY <1>1, <2>4, PhaseSlots
    <3>2. PICK k \in Sweeps : PhaseOf(k) = 4 /\ SweepOf(L, s, k) = x
      BY <1>3, <1>5, <2>4, <3>1
    <3>3. k \in Flux
      BY <1>4, <3>2, PhaseSlots
    <3>4. y = <<s, Conserved>>
      BY <1>2, <1>5, <3>1
    <3>5. EdgeAt(L, s, k + 7) = <<x, y>>
      BY <1>5, <3>2, <3>3, <3>4 DEF EdgeAt
    <3>6. k + 7 \in 1 .. 23
      BY <1>5, <3>3
    <3> QED
      BY <3>5, <3>6
  <2>5. CASE PhaseOf(x[2]) = 5
    <3>1. x[2] = Conserved /\ y[2] = Primitive
      BY <1>1, <2>5, PhaseSlots
    <3>2. x = <<s, Conserved>> /\ y = <<s, Primitive>>
      BY <1>2, <1>5, <3>1
    <3>3. EdgeAt(L, s, 23) = <<x, y>>
      BY <3>2 DEF EdgeAt
    <3> QED
      BY <3>3
  <2>6. PhaseOf(x[2]) \in 1 .. 6 /\ PhaseOf(y[2]) \in 1 .. 6
    BY <1>1, PhaseSlots
  <2> QED
    BY <2>1, <2>2, <2>3, <2>4, <2>5, <2>6
<1> QED
  BY <1>1, <1>6, ChildByEdge

(* In every phase there is a task that works on a subgrid.                 *)
LEMMA TaskInPhase ==
  ASSUME NEW L \in Layouts, NEW s \in Subgrids(L), NEW p \in 1 .. 6
  PROVE  \E t \in HydroTask(L) : s \in Touches(L, t) /\ PhaseOf(t[2]) = p
<1>1. \E k \in Slot : k \notin Negative /\ PhaseOf(k) = p
  <2>1. \A k \in {0, 7, 8, 9, 16, 17} : k \in Slot /\ k \notin Negative
    BY DEF Slot, Negative
  <2>2. /\ PhaseOf(0) = 1 /\ PhaseOf(7) = 2 /\ PhaseOf(8) = 3 /\ PhaseOf(9) = 4
        /\ PhaseOf(16) = 5 /\ PhaseOf(17) = 6
    BY DEF PhaseOf, Gradient, Flux, Limiter, Predict, Conserved, Primitive
  <2>3. p = 1 \/ p = 2 \/ p = 3 \/ p = 4 \/ p = 5 \/ p = 6
    OBVIOUS
  <2> QED
    BY <2>1, <2>2, <2>3
<1>2. PICK k \in Slot : k \notin Negative /\ PhaseOf(k) = p
  BY <1>1
<1>3. <<s, k>> \in HydroTask(L)
  BY <1>2, TaskSlots
<1>4. s # Outside
  BY DEF Subgrids, Outside
<1>5. s \in Touches(L, <<s, k>>)
  BY <1>4 DEF Touches
<1> QED
  BY <1>2, <1>3, <1>5

(* The children of a set of tasks, with the tasks themselves.              *)
BelowTasks(c, S) == S \cup UNION {ToSet(c[x]) : x \in S}

(* One more generation reaches the tasks of one more phase.                *)
ReachesPhase(L, x, s, S, n) ==
  \A y \in HydroTask(L) :
     s \in Touches(L, y) /\ PhaseOf(y[2]) \in PhaseOf(x[2]) + 1 .. PhaseOf(x[2]) + n => y \in S

(* If n generations below a task contain every task of the next n phases   *)
(* that works on the subgrid s, n + 1 generations contain those of the     *)
(* next n + 1.                                                             *)
LEMMA ReachesNext ==
  ASSUME NEW L \in Layouts, NEW x \in HydroTask(L), NEW s \in Touches(L, x), NEW S,
         x \in S, NEW n \in Nat, ReachesPhase(L, x, s, S, n)
  PROVE  /\ x \in BelowTasks(ChildrenOf(L), S)
         /\ ReachesPhase(L, x, s, BelowTasks(ChildrenOf(L), S), n + 1)
<1>1. S \subseteq BelowTasks(ChildrenOf(L), S)
  BY DEF BelowTasks
<1>2. s \in Subgrids(L) /\ PhaseOf(x[2]) \in 1 .. 6
  BY TouchingTask, PhaseSlots
<1>3. ASSUME NEW y \in HydroTask(L), s \in Touches(L, y),
             PhaseOf(y[2]) = PhaseOf(x[2]) + n + 1
      PROVE  y \in BelowTasks(ChildrenOf(L), S)
  <2>1. PhaseOf(y[2]) \in 1 .. 6
    BY <1>3, TouchingTask, PhaseSlots
  <2>2. CASE n = 0
    <3>1. PhaseOf(y[2]) = PhaseOf(x[2]) + 1
      BY <1>2, <1>3, <2>2
    <3>2. y \in ToSet(ChildrenOf(L)[x])
      BY <1>3, <3>1, NextPhaseChild
    <3> QED
      BY <3>2 DEF BelowTasks
  <2>3. CASE n # 0
    <3>1. PhaseOf(x[2]) + n \in 1 .. 6
      BY <1>2, <1>3, <2>1
    <3>2. PICK t \in HydroTask(L) : s \in Touches(L, t) /\ PhaseOf(t[2]) = PhaseOf(x[2]) + n
      BY <1>2, <3>1, TaskInPhase
    <3>3. t \in S
      <4>1. PhaseOf(x[2]) + n \in PhaseOf(x[2]) + 1 .. PhaseOf(x[2]) + n
        BY <1>2, <2>3
      <4> QED
        BY <3>2, <4>1 DEF ReachesPhase
    <3>4. y \in ToSet(ChildrenOf(L)[t])
      BY <1>3, <3>2, NextPhaseChild
    <3> QED
      BY <3>3, <3>4 DEF BelowTasks
  <2> QED
    BY <2>2, <2>3
<1>4. ASSUME NEW y \in HydroTask(L), s \in Touches(L, y),
             PhaseOf(y[2]) \in PhaseOf(x[2]) + 1 .. PhaseOf(x[2]) + n
      PROVE  y \in BelowTasks(ChildrenOf(L), S)
  BY <1>1, <1>4 DEF ReachesPhase
<1>5. ReachesPhase(L, x, s, BelowTasks(ChildrenOf(L), S), n + 1)
  <2> SUFFICES ASSUME NEW y \in HydroTask(L), s \in Touches(L, y),
                      PhaseOf(y[2]) \in PhaseOf(x[2]) + 1 .. PhaseOf(x[2]) + (n + 1)
               PROVE  y \in BelowTasks(ChildrenOf(L), S)
    BY DEF ReachesPhase
  <2>1. PhaseOf(y[2]) \in PhaseOf(x[2]) + 1 .. PhaseOf(x[2]) + n
        \/ PhaseOf(y[2]) = PhaseOf(x[2]) + n + 1
    BY <1>2
  <2> QED
    BY <1>3, <1>4, <2>1
<1> QED
  BY <1>1, <1>5

(* What the five generations of Reaches are.                               *)
LEMMA PhasesReached ==
  ASSUME NEW L \in Layouts, NEW x \in HydroTask(L), NEW y \in HydroTask(L),
         Touches(L, x) \cap Touches(L, y) # {}, PhaseOf(x[2]) < PhaseOf(y[2])
  PROVE  LET Below(S) == BelowTasks(ChildrenOf(L), S)
         IN  y \in Below(Below(Below(Below(Below({x})))))
<1> DEFINE Below(S) == BelowTasks(ChildrenOf(L), S)
           S1 == Below({x})
           S2 == Below(S1)
           S3 == Below(S2)
           S4 == Below(S3)
           S5 == Below(S4)
<1>1. PICK s \in Touches(L, x) : s \in Touches(L, y)
  OBVIOUS
<1>2. ReachesPhase(L, x, s, {x}, 0) /\ x \in {x}
  <2>1. PhaseOf(x[2]) \in 1 .. 6
    BY TouchingTask, PhaseSlots
  <2> QED
    BY <2>1 DEF ReachesPhase
<1> HIDE DEF Below
<1>3. \A S, n : x \in S /\ n \in Nat /\ ReachesPhase(L, x, s, S, n) =>
                  x \in Below(S) /\ ReachesPhase(L, x, s, Below(S), n + 1)
  BY ReachesNext DEF Below
<1>4. x \in S1 /\ ReachesPhase(L, x, s, S1, 0 + 1)
  BY <1>2, <1>3
<1> HIDE DEF S1
<1>5. x \in S2 /\ ReachesPhase(L, x, s, S2, 1 + 1)
  BY <1>3, <1>4
<1> HIDE DEF S2
<1>6. x \in S3 /\ ReachesPhase(L, x, s, S3, 2 + 1)
  BY <1>3, <1>5
<1> HIDE DEF S3
<1>7. x \in S4 /\ ReachesPhase(L, x, s, S4, 3 + 1)
  BY <1>3, <1>6
<1> HIDE DEF S4
<1>8. ReachesPhase(L, x, s, S5, 4 + 1)
  BY <1>3, <1>7
<1> HIDE DEF S5
<1>9. PhaseOf(y[2]) \in PhaseOf(x[2]) + 1 .. PhaseOf(x[2]) + (4 + 1)
  <2>1. PhaseOf(x[2]) \in 1 .. 6 /\ PhaseOf(y[2]) \in 1 .. 6
    BY <1>1, TouchingTask, PhaseSlots
  <2> QED
    BY <2>1
<1>10. y \in S5
  BY <1>1, <1>8, <1>9 DEF ReachesPhase
<1> QED
  BY <1>10 DEF S5, S4, S3, S2, S1, Below

(* The graph is fixed, and what is executed are tasks of it.               *)
GraphOK == layout \in Layouts /\ children = ChildrenOf(layout)

(* The graph is made once and no step changes it. *)
LEMMA GraphInvariant == Spec => []GraphOK
<1>1. Init => GraphOK
  BY DEF Init, GraphOK
<1>2. GraphOK /\ [Next]_vars => GraphOK'
  BY DEF GraphOK, Next, vars, StartStep, Begin, End, Stop, Spin
<1> QED
  BY <1>1, <1>2, PTL DEF Spec

(* The tasks of the graph are those of the layout. *)
LEMMA TasksAre ==
  ASSUME GraphOK PROVE Tasks = HydroTask(layout)
<1>1. children \in [HydroTask(layout) -> Seq(HydroTask(layout))]
  BY ChildrenAre DEF GraphOK, HoldsEdges
<1> QED
  BY <1>1 DEF Tasks

(* The graph orders any two tasks that work on a common subgrid in         *)
(* different phases, in every layout, periodic or not: what a subgrid is   *)
(* subject to does not depend on the order in which the threads execute    *)
(* the tasks.                                                              *)
THEOREM GraphOrdersPhases == Spec => []PhasesOrdered
<1>1. GraphOK => PhasesOrdered
  <2> SUFFICES ASSUME GraphOK, NEW x \in Tasks, NEW y \in Tasks,
                      Touches(layout, x) \cap Touches(layout, y) # {},
                      PhaseOf(x[2]) < PhaseOf(y[2])
               PROVE  y \in Reaches[x]
    BY DEF PhasesOrdered
  <2>1. layout \in Layouts /\ x \in HydroTask(layout) /\ y \in HydroTask(layout)
    BY TasksAre DEF GraphOK
  <2> DEFINE Down(S) == BelowTasks(ChildrenOf(layout), S)
  <2>2. y \in Down(Down(Down(Down(Down({x})))))
    BY <2>1, PhasesReached
  <2>3. Reaches[x] = Down(Down(Down(Down(Down({x})))))
    BY DEF Reaches, BelowTasks, GraphOK
  <2> QED
    BY <2>2, <2>3
<1> QED
  BY <1>1, GraphInvariant, PTL

-----------------------------------------------------------------------------
(* 5. The execution. *)

(* The number of edges to a task. *)

(* The places of the edges to a task. *)
EdgesTo(L, y) == {k \in 1 .. Size(L) * 23 : AllEdges(L)[k][2] = y}

(* The edges to the sweep with the slot k of the subgrid i.                *)
LEMMA EdgesToFlux ==
  ASSUME NEW L \in Layouts, NEW i \in Subgrids(L), NEW k \in Flux, <<i, k>> \in HydroTask(L),
         NEW q \in Subgrids(L), NEW j \in 9 .. 15
  PROVE  SweepOf(L, q, j) = <<i, k>> <=>
            \/ q = i /\ j = k
            \/ Partner(L, <<i, k>>) # Outside /\ q = Partner(L, <<i, k>>) /\ j = k + 1
<1>0. /\ j \in Sweeps /\ j \in Slot /\ k \in Sweeps /\ k \in Int
  BY DEF Sweeps, Flux, Slot
<1>1. ASSUME SweepOf(L, q, j) = <<i, k>>
      PROVE  \/ q = i /\ j = k
             \/ Partner(L, <<i, k>>) # Outside /\ q = Partner(L, <<i, k>>) /\ j = k + 1
  <2>1. \/ <<q, j>> = <<i, k>>
        \/ j \in Negative /\ k = j - 1 /\ Partner(L, <<i, k>>) = q
    BY <1>0, <1>1, SweepIsTask
  <2>2. q # Outside
    BY DEF Subgrids, Outside
  <2> QED
    BY <1>0, <2>1, <2>2
<1>2. SweepOf(L, i, k) = <<i, k>>
  BY <1>0, SweepOfOwn
<1>3. Partner(L, <<i, k>>) # Outside => SweepOf(L, Partner(L, <<i, k>>), k + 1) = <<i, k>>
  BY <1>0, SweepOfPartner
<1> QED
  BY <1>1, <1>2, <1>3

(* Where the second task of an edge can be.                                *)
LEMMA EdgeEnd ==
  ASSUME NEW L \in Layouts, NEW q \in Subgrids(L), NEW j \in 1 .. 23
  PROVE  /\ j \in 1 .. 7 => EdgeAt(L, q, j)[2] = <<q, Limiter>>
         /\ j = 8 => EdgeAt(L, q, j)[2] = <<q, Predict>>
         /\ j \in 9 .. 15 => EdgeAt(L, q, j)[2] = SweepOf(L, q, j) /\ EdgeAt(L, q, j)[2][2] \in Flux
         /\ j \in 16 .. 22 => EdgeAt(L, q, j)[2] = <<q, Conserved>>
         /\ j = 23 => EdgeAt(L, q, j)[2] = <<q, Primitive>>
<1>1. ASSUME j \in 9 .. 15 PROVE SweepOf(L, q, j)[2] \in Flux
  <2>1. j \in Sweeps
    BY <1>1 DEF Sweeps, Flux
  <2>2. SweepOf(L, q, j) = <<q, j>> \/ (j \in Negative /\ SweepOf(L, q, j)[2] = j - 1)
    BY <2>1, SweepIsTask
  <2>3. j \in Flux /\ (j \in Negative => j - 1 \in Flux)
    BY <1>1 DEF Flux, Negative
  <2> QED
    BY <2>2, <2>3
<1>2. /\ j \in 1 .. 7 => EdgeAt(L, q, j)[2] = <<q, Limiter>>
      /\ j = 8 => EdgeAt(L, q, j)[2] = <<q, Predict>>
      /\ j \in 9 .. 15 => EdgeAt(L, q, j)[2] = SweepOf(L, q, j)
  BY DEF EdgeAt
<1>3. /\ j \in 16 .. 22 => EdgeAt(L, q, j)[2] = <<q, Conserved>>
      /\ j = 23 => EdgeAt(L, q, j)[2] = <<q, Primitive>>
  BY DEF EdgeAt
<1> QED
  BY <1>1, <1>2, <1>3

(* The place of an edge, and what edge is there. *)
LEMMA PlaceTo ==
  ASSUME NEW L \in Layouts, NEW y, NEW k \in EdgesTo(L, y)
  PROVE  \E q \in Subgrids(L), j \in 1 .. 23 : k = q * 23 + j /\ EdgeAt(L, q, j)[2] = y
<1>1. k \in 1 .. Size(L) * 23 /\ AllEdges(L)[k][2] = y
  BY DEF EdgesTo
<1>2. PICK q \in Subgrids(L), j \in 1 .. 23 : k = q * 23 + j /\ AllEdges(L)[k] = EdgeAt(L, q, j)
  BY <1>1, EdgeIsAt
<1> QED
  BY <1>1, <1>2

(* The place of an edge is among those to its child. *)
LEMMA PlaceOf ==
  ASSUME NEW L \in Layouts, NEW q \in Subgrids(L), NEW j \in 1 .. 23, NEW y,
         EdgeAt(L, q, j)[2] = y
  PROVE  q * 23 + j \in EdgesTo(L, y)
<1>1. q * 23 + j \in 1 .. Size(L) * 23 /\ AllEdges(L)[q * 23 + j] = EdgeAt(L, q, j)
  BY Places, AllEdgesAre
<1> QED
  BY <1>1 DEF EdgesTo

(* reset_hydro_tasks counts the edges to every task.                       *)
LEMMA EdgesCounted ==
  ASSUME NEW L \in Layouts, NEW y \in HydroTask(L)
  PROVE  Cardinality(EdgesTo(L, y)) = NumberOfParents(L, y)
<1> DEFINE i == y[1]
           k == y[2]
<1>1. y = <<i, k>> /\ i \in Subgrids(L) /\ k \in Slot
  <2>1. y \in Subgrids(L) \X Slot
    BY DEF HydroTask
  <2> QED
    BY <2>1
<1>2. i \in Nat /\ \A q \in Subgrids(L) : q \in Nat
  BY <1>1, SubgridsSize
<1> HIDE DEF i, k
<1>3. /\ Limiter # Predict /\ Limiter # Conserved /\ Limiter # Primitive /\ Predict # Conserved
      /\ Predict # Primitive /\ Conserved # Primitive
      /\ Limiter \notin Flux /\ Predict \notin Flux /\ Conserved \notin Flux
      /\ Primitive \notin Flux
      /\ Limiter \notin Gradient /\ Predict \notin Gradient /\ Conserved \notin Gradient
      /\ Primitive \notin Gradient /\ \A f \in Flux : f \notin Gradient
  BY DEF Gradient, Flux, Limiter, Predict, Conserved, Primitive
<1>4. CASE k \in Gradient
  <2>1. EdgesTo(L, y) = {}
    <3> SUFFICES ASSUME NEW h \in EdgesTo(L, y) PROVE FALSE
      OBVIOUS
    <3>1. PICK q \in Subgrids(L), j \in 1 .. 23 : h = q * 23 + j /\ EdgeAt(L, q, j)[2] = y
      BY PlaceTo
    <3>2. j \in 1 .. 7 \/ j = 8 \/ j \in 9 .. 15 \/ j \in 16 .. 22 \/ j = 23
      OBVIOUS
    <3>3. EdgeAt(L, q, j)[2][2] \in {Limiter, Predict, Conserved, Primitive} \cup Flux
      BY <3>2, EdgeEnd
    <3> QED
      BY <1>1, <1>3, <1>4, <3>1, <3>3
  <2>2. NumberOfParents(L, y) = 0
    BY <1>1, <1>3, <1>4 DEF NumberOfParents
  <2> QED
    BY <2>1, <2>2, FS_EmptySet
<1>5. CASE k = Limiter
  <2>1. ASSUME NEW h \in EdgesTo(L, y) PROVE h \in i * 23 + 1 .. i * 23 + 7
    <3>1. PICK q \in Subgrids(L), j \in 1 .. 23 : h = q * 23 + j /\ EdgeAt(L, q, j)[2] = y
      BY PlaceTo
    <3>2. j \in 1 .. 7 /\ EdgeAt(L, q, j)[2] = <<q, Limiter>>
      BY <1>1, <1>3, <1>5, <3>1, EdgeEnd
    <3> QED
      BY <1>1, <1>2, <3>1, <3>2
  <2>2. ASSUME NEW h \in i * 23 + 1 .. i * 23 + 7 PROVE h \in EdgesTo(L, y)
    <3>1. PICK j \in 1 .. 7 : h = i * 23 + j
      <4>1. h - i * 23 \in 1 .. 7 /\ h = i * 23 + (h - i * 23)
        BY <1>2
      <4> QED
        BY <4>1
    <3>2. EdgeAt(L, i, j)[2] = y
      BY <1>1, <1>5, EdgeEnd
    <3> QED
      BY <1>1, <3>1, <3>2, PlaceOf
  <2>3. EdgesTo(L, y) = i * 23 + 1 .. i * 23 + 7
    BY <2>1, <2>2
  <2>4. Cardinality(i * 23 + 1 .. i * 23 + 7) = 7
    <3>1. i * 23 + 1 \in Int /\ i * 23 + 7 \in Int
      BY <1>2
    <3>2. Cardinality(i * 23 + 1 .. i * 23 + 7) =
            IF i * 23 + 1 > i * 23 + 7 THEN 0 ELSE (i * 23 + 7) - (i * 23 + 1) + 1
      BY <3>1, FS_Interval
    <3> QED
      BY <1>2, <3>2
  <2>5. NumberOfParents(L, y) = 7
    BY <1>1, <1>3, <1>5 DEF NumberOfParents
  <2> QED
    BY <2>3, <2>4, <2>5
<1>6. CASE k = Conserved
  <2>1. ASSUME NEW h \in EdgesTo(L, y) PROVE h \in i * 23 + 16 .. i * 23 + 22
    <3>1. PICK q \in Subgrids(L), j \in 1 .. 23 : h = q * 23 + j /\ EdgeAt(L, q, j)[2] = y
      BY PlaceTo
    <3>2. j \in 16 .. 22 /\ EdgeAt(L, q, j)[2] = <<q, Conserved>>
      BY <1>1, <1>3, <1>6, <3>1, EdgeEnd
    <3> QED
      BY <1>1, <1>2, <3>1, <3>2
  <2>2. ASSUME NEW h \in i * 23 + 16 .. i * 23 + 22 PROVE h \in EdgesTo(L, y)
    <3>1. PICK j \in 16 .. 22 : h = i * 23 + j
      <4>1. h - i * 23 \in 16 .. 22 /\ h = i * 23 + (h - i * 23)
        BY <1>2
      <4> QED
        BY <4>1
    <3>2. EdgeAt(L, i, j)[2] = y
      BY <1>1, <1>6, EdgeEnd
    <3> QED
      BY <1>1, <3>1, <3>2, PlaceOf
  <2>3. EdgesTo(L, y) = i * 23 + 16 .. i * 23 + 22
    BY <2>1, <2>2
  <2>4. Cardinality(i * 23 + 16 .. i * 23 + 22) = 7
    <3>1. i * 23 + 16 \in Int /\ i * 23 + 22 \in Int
      BY <1>2
    <3>2. Cardinality(i * 23 + 16 .. i * 23 + 22) =
            IF i * 23 + 16 > i * 23 + 22 THEN 0 ELSE (i * 23 + 22) - (i * 23 + 16) + 1
      BY <3>1, FS_Interval
    <3> QED
      BY <1>2, <3>2
  <2>5. NumberOfParents(L, y) = 7
    BY <1>1, <1>3, <1>6 DEF NumberOfParents
  <2> QED
    BY <2>3, <2>4, <2>5
<1>7. CASE k = Predict \/ k = Primitive
  <2> DEFINE j == IF k = Predict THEN 8 ELSE 23
  <2>0. j \in 1 .. 23
    OBVIOUS
  <2>1. ASSUME NEW h \in EdgesTo(L, y) PROVE h = i * 23 + j
    <3>1. PICK q \in Subgrids(L), m \in 1 .. 23 : h = q * 23 + m /\ EdgeAt(L, q, m)[2] = y
      BY PlaceTo
    <3>2. m \in 1 .. 7 \/ m = 8 \/ m \in 9 .. 15 \/ m \in 16 .. 22 \/ m = 23
      OBVIOUS
    <3>3. CASE k = Predict
      <4>1. m = 8 /\ EdgeAt(L, q, m)[2] = <<q, Predict>>
        BY <1>1, <1>3, <3>1, <3>2, <3>3, EdgeEnd
      <4> QED
        BY <1>1, <3>1, <3>3, <4>1
    <3>4. CASE k = Primitive
      <4>1. m = 23 /\ EdgeAt(L, q, m)[2] = <<q, Primitive>>
        BY <1>1, <1>3, <3>1, <3>2, <3>4, EdgeEnd
      <4> QED
        BY <1>1, <1>3, <3>1, <3>4, <4>1
    <3> QED
      BY <1>7, <3>3, <3>4
  <2>2. EdgeAt(L, i, j)[2] = y
    BY <1>1, <1>7, <2>0, EdgeEnd
  <2>3. i * 23 + j \in EdgesTo(L, y)
    BY <1>1, <2>0, <2>2, PlaceOf
  <2>4. EdgesTo(L, y) = {i * 23 + j}
    BY <2>1, <2>3
  <2>5. NumberOfParents(L, y) = 1
    BY <1>1, <1>3, <1>7 DEF NumberOfParents
  <2> QED
    BY <2>4, <2>5, FS_Singleton
<1>8. CASE k \in Flux
  <2> DEFINE p == Partner(L, y)
  <2>0. k \in 9 .. 15 /\ k \in 1 .. 23
    BY <1>8 DEF Flux
  <2>1. ASSUME NEW h \in EdgesTo(L, y)
        PROVE  h = i * 23 + k \/ (p # Outside /\ h = p * 23 + (k + 1))
    <3>1. PICK q \in Subgrids(L), j \in 1 .. 23 : h = q * 23 + j /\ EdgeAt(L, q, j)[2] = y
      BY PlaceTo
    <3>2. j \in 9 .. 15 /\ SweepOf(L, q, j) = y
      <4>1. j \in 1 .. 7 \/ j = 8 \/ j \in 9 .. 15 \/ j \in 16 .. 22 \/ j = 23
        OBVIOUS
      <4>2. EdgeAt(L, q, j)[2][2] = k
        BY <1>1, <3>1
      <4>3. j \in 9 .. 15
        BY <1>3, <1>8, <4>1, <4>2, EdgeEnd
      <4> QED
        BY <3>1, <4>3, EdgeEnd
    <3>3. \/ q = i /\ j = k
          \/ p # Outside /\ q = p /\ j = k + 1
      BY <1>1, <1>8, <3>2, EdgesToFlux
    <3> QED
      BY <3>1, <3>3
  <2>2. i * 23 + k \in EdgesTo(L, y)
    <3>1. SweepOf(L, i, k) = y
      BY <1>1, <1>8, <2>0, EdgesToFlux
    <3>2. EdgeAt(L, i, k)[2] = y
      BY <1>1, <2>0, <3>1, EdgeEnd
    <3> QED
      BY <1>1, <2>0, <3>2, PlaceOf
  <2>3. CASE p = Outside
    <3>1. EdgesTo(L, y) = {i * 23 + k}
      BY <2>1, <2>2, <2>3
    <3>2. NumberOfParents(L, y) = 1
      BY <1>1, <1>3, <1>8, <2>3 DEF NumberOfParents
    <3> QED
      BY <3>1, <3>2, FS_Singleton
  <2>4. CASE p # Outside
    <3>1. k \in Positive /\ p \in Subgrids(L) /\ k + 1 \in 9 .. 15 /\ SweepOf(L, p, k + 1) = y
      <4>1. k \in Sweeps
        BY <1>8 DEF Sweeps
      <4>2. k \in Positive /\ p \in Subgrids(L) /\ SweepOf(L, p, k + 1) = y
        BY <1>1, <2>4, <4>1, SweepOfPartner
      <4>3. k + 1 \in 9 .. 15
        BY <2>0, <4>2 DEF Positive
      <4> QED
        BY <4>2, <4>3
    <3>2. p * 23 + (k + 1) \in EdgesTo(L, y)
      <4>1. k + 1 \in 1 .. 23
        BY <3>1
      <4>2. EdgeAt(L, p, k + 1)[2] = y
        BY <3>1, <4>1, EdgeEnd
      <4> QED
        BY <3>1, <4>1, <4>2, PlaceOf
    <3>3. EdgesTo(L, y) = {i * 23 + k, p * 23 + (k + 1)}
      BY <2>1, <2>2, <2>4, <3>2
    <3>4. i * 23 + k # p * 23 + (k + 1)
      <4>1. p \in Nat
        BY <1>2, <3>1
      <4> HIDE DEF p
      <4> QED
        BY <1>2, <2>0, <3>1, <4>1
    <3>5. NumberOfParents(L, y) = 2
      BY <1>1, <1>3, <1>8, <2>4, <3>1 DEF NumberOfParents
    <3> DEFINE u == i * 23 + k
               v == p * 23 + (k + 1)
    <3>6. Cardinality({u, v}) = 2
      <4>1. u # v
        BY <3>4
      <4> HIDE DEF u, v
      <4>2. Cardinality({u}) = 1 /\ IsFiniteSet({u}) /\ v \notin {u} /\ {u, v} = {u} \cup {v}
        BY <4>1, FS_Singleton
      <4>3. Cardinality({u} \cup {v}) = Cardinality({u}) + 1
        BY <4>2, FS_AddElement
      <4> QED
        BY <4>2, <4>3
    <3> QED
      BY <3>3, <3>5, <3>6
  <2> QED
    BY <2>3, <2>4
<1>9. k \in Gradient \/ k = Limiter \/ k = Conserved \/ k = Predict \/ k = Primitive \/ k \in Flux
  BY <1>1 DEF Slot, Gradient, Flux, Limiter, Predict, Conserved, Primitive
<1> QED
  BY <1>4, <1>5, <1>6, <1>7, <1>8, <1>9

(* The edges from tasks that are not finished. *)
OpenEdges(y) == {k \in EdgesTo(layout, y) : AllEdges(layout)[k][1] \notin finished}

(* A task waits for its unfinished parents; when it has none left it was   *)
(* enqueued, once.                                                         *)
ParentsCounted ==
  step > 0 =>
    /\ parents \in [Tasks -> Nat]
    /\ \A y \in Tasks : parents[y] = Cardinality(OpenEdges(y))
    /\ \A y \in Tasks : parents[y] = 0 <=> y \in available \cup running \cup finished

(* A task of the step is waiting, in a queue, executed or done, never two *)
(* of them.                                                                *)
EachOnce ==
  /\ available \subseteq Tasks /\ running \subseteq Tasks /\ finished \subseteq Tasks
  /\ available \cap running = {} /\ available \cap finished = {} /\ running \cap finished = {}
  /\ step \in Nat
  /\ step = 0 => running = {} /\ available = {}

(* What the steps keep. *)
StepOK == GraphOK /\ EachOnce /\ ParentsCounted

(* The edges to a task are finitely many. *)
LEMMA EdgesFinite ==
  ASSUME NEW L \in Layouts, NEW y, NEW S, S \subseteq EdgesTo(L, y)
  PROVE  IsFiniteSet(S) /\ Cardinality(S) \in Nat /\ (Cardinality(S) = 0 <=> S = {})
<1>1. Size(L) * 23 \in Nat
  BY SubgridsSize
<1>2. IsFiniteSet(1 .. Size(L) * 23)
  BY <1>1, FS_Interval
<1>3. S \subseteq 1 .. Size(L) * 23
  BY DEF EdgesTo
<1>4. IsFiniteSet(S)
  BY <1>2, <1>3, FS_Subset
<1> QED
  BY <1>4, FS_CardinalityType, FS_EmptySet

(* A task is the child of another one as many times as there are edges.    *)
LEMMA ChildCount ==
  ASSUME NEW L \in Layouts, NEW x \in HydroTask(L), NEW y \in HydroTask(L)
  PROVE  Count(ChildrenOf(L)[x], y) =
           Cardinality({k \in EdgesTo(L, y) : AllEdges(L)[k][1] = x})
<1>1. Count(ChildrenOf(L)[x], y) = Cardinality(PlacesOf(AllEdges(L), <<x, y>>, Size(L) * 23))
  BY ChildrenAre DEF HoldsEdges
<1>2. PlacesOf(AllEdges(L), <<x, y>>, Size(L) * 23) =
        {k \in EdgesTo(L, y) : AllEdges(L)[k][1] = x}
  <2>1. \A k \in 1 .. Size(L) * 23 : AllEdges(L)[k] = <<AllEdges(L)[k][1], AllEdges(L)[k][2]>>
    <3>1. /\ AllEdges(L) \in Seq(HydroTask(L) \X HydroTask(L))
          /\ Len(AllEdges(L)) = Size(L) * 23
      BY AllEdgesAre
    <3>2. \A k \in 1 .. Size(L) * 23 : AllEdges(L)[k] \in HydroTask(L) \X HydroTask(L)
      BY <3>1
    <3> QED
      BY <3>2
  <2> QED
    BY <2>1 DEF PlacesOf, EdgesTo
<1> QED
  BY <1>1, <1>2

(* A step begins with all tasks waiting for all their parents.             *)
LEMMA StepStarted ==
  ASSUME StepOK, StartStep
  PROVE  EachOnce' /\ ParentsCounted'
<1>1. /\ layout \in Layouts /\ Tasks = HydroTask(layout) /\ Tasks' = Tasks
      /\ layout' = layout /\ step' \in Nat \ {0} /\ finished' = {} /\ running' = {}
      /\ parents' = [x \in Tasks |-> NumberOfParents(layout, x)]
      /\ available' = {x \in Tasks : parents'[x] = 0}
  BY TasksAre DEF StepOK, GraphOK, EachOnce, StartStep, NoTasksLeft, Tasks
<1>2. EachOnce'
  BY <1>1 DEF EachOnce
<1>3. ASSUME NEW y \in Tasks
      PROVE  parents'[y] = Cardinality(OpenEdges(y)') /\ parents'[y] \in Nat
  <2>1. OpenEdges(y)' = EdgesTo(layout, y)
    BY <1>1 DEF OpenEdges
  <2>2. Cardinality(EdgesTo(layout, y)) = NumberOfParents(layout, y)
    BY <1>1, EdgesCounted
  <2>3. Cardinality(EdgesTo(layout, y)) \in Nat
    BY <1>1, EdgesFinite
  <2> QED
    BY <1>1, <2>1, <2>2, <2>3
<1>4. parents' \in [Tasks -> Nat]
  BY <1>1, <1>3
<1>5. \A y \in Tasks : parents'[y] = 0 <=> y \in available' \cup running' \cup finished'
  BY <1>1
<1> QED
  BY <1>1, <1>2, <1>3, <1>4, <1>5 DEF ParentsCounted

(* The counters after the execution of a task.                             *)
LEMMA ParentsAfter ==
  ASSUME StepOK, NEW x \in Tasks, End(x), NEW y \in Tasks
  PROVE  /\ Count(children[x], y) \in Nat /\ parents[y] \in Nat
         /\ parents[y] = Cardinality(OpenEdges(y))
         /\ parents'[y] = parents[y] - Count(children[x], y)
         /\ parents'[y] = Cardinality(OpenEdges(y)') /\ parents'[y] \in Nat
<1>1. /\ layout \in Layouts /\ Tasks = HydroTask(layout) /\ children = ChildrenOf(layout)
      /\ layout' = layout
  BY TasksAre DEF StepOK, GraphOK, End
<1>2. x \in running /\ x \notin finished /\ step > 0 /\ finished' = finished \cup {x}
  BY DEF StepOK, EachOnce, End
<1>3. parents \in [Tasks -> Nat] /\ parents[y] = Cardinality(OpenEdges(y))
  BY <1>2 DEF StepOK, ParentsCounted
<1>4. parents'[y] = parents[y] - Count(children[x], y)
  BY DEF End
<1> DEFINE M == {k \in EdgesTo(layout, y) : AllEdges(layout)[k][1] = x}
           N == OpenEdges(y)
           R == OpenEdges(y)'
<1>5. Count(children[x], y) = Cardinality(M)
  BY <1>1, ChildCount
<1>6. N = R \cup M /\ R \cap M = {}
  BY <1>1, <1>2 DEF OpenEdges
<1>7. IsFiniteSet(M) /\ IsFiniteSet(R) /\ Cardinality(M) \in Nat /\ Cardinality(R) \in Nat
  <2>1. M \subseteq EdgesTo(layout, y) /\ R \subseteq EdgesTo(layout, y)
    BY <1>1 DEF OpenEdges
  <2> QED
    BY <1>1, <2>1, EdgesFinite
<1> HIDE DEF M, N, R
<1>8. Cardinality(N) = Cardinality(R) + Cardinality(M)
  <2>1. Cardinality(R \cup M) = Cardinality(R) + Cardinality(M) - Cardinality(R \cap M)
    BY <1>7, FS_Union
  <2>2. Cardinality(R \cap M) = 0
    BY <1>6, FS_EmptySet
  <2> QED
    BY <1>6, <1>7, <2>1, <2>2
<1> QED
  BY <1>3, <1>4, <1>5, <1>7, <1>8 DEF N, R

(* The end of a task: the children whose last parent it was become         *)
(* available, and none that was before.                                    *)
LEMMA TaskEnded ==
  ASSUME StepOK, NEW x \in Tasks, End(x)
  PROVE  EachOnce' /\ ParentsCounted'
<1>1. /\ layout \in Layouts /\ Tasks = HydroTask(layout) /\ children = ChildrenOf(layout)
      /\ Tasks' = Tasks /\ step' = step
  BY TasksAre DEF StepOK, GraphOK, End, Tasks
<1>2. /\ x \in running /\ running' = running \ {x} /\ finished' = finished \cup {x}
      /\ parents' = [y \in Tasks |-> parents[y] - Count(children[x], y)]
      /\ available' = available \cup {y \in ToSet(children[x]) : parents'[y] = 0}
  BY DEF End
<1>3. /\ available \subseteq Tasks /\ running \subseteq Tasks /\ finished \subseteq Tasks
      /\ available \cap running = {} /\ available \cap finished = {} /\ running \cap finished = {}
      /\ step \in Nat /\ step > 0
  BY <1>2 DEF StepOK, EachOnce
<1>4. \A y \in Tasks : parents[y] = 0 <=> y \in available \cup running \cup finished
  BY <1>3 DEF StepOK, ParentsCounted
<1>5. \A y \in Tasks :
         /\ Count(children[x], y) \in Nat /\ parents[y] \in Nat
         /\ parents'[y] = parents[y] - Count(children[x], y)
         /\ parents'[y] = Cardinality(OpenEdges(y)') /\ parents'[y] \in Nat
  BY ParentsAfter
<1>6. \A y \in Tasks : y \in ToSet(children[x]) <=> Count(children[x], y) # 0
  BY <1>1, ChildByEdge
<1>7. ToSet(children[x]) \subseteq Tasks
  <2>1. children[x] \in Seq(Tasks)
    BY <1>1, ChildrenAre DEF HoldsEdges
  <2> QED
    BY <2>1 DEF ToSet
<1>8. \A y \in Tasks : y \in ToSet(children[x]) /\ parents'[y] = 0 =>
                         y \notin available \cup running \cup finished
  BY <1>4, <1>5, <1>6
<1>9. EachOnce'
  BY <1>1, <1>2, <1>3, <1>7, <1>8 DEF EachOnce
<1>10. ASSUME NEW y \in Tasks
       PROVE  parents'[y] = 0 <=> y \in available' \cup running' \cup finished'
  <2>1. CASE parents[y] = 0
    <3>1. parents'[y] = 0
      BY <1>5, <2>1
    <3>2. y \in available' \cup running' \cup finished'
      BY <1>2, <1>4, <2>1
    <3> QED
      BY <3>1, <3>2
  <2>2. CASE parents[y] # 0
    <3>1. y \notin available \cup running \cup finished
      BY <1>4, <2>2
    <3>2. y \in available' \cup running' \cup finished' <=>
            y \in ToSet(children[x]) /\ parents'[y] = 0
      BY <1>2, <3>1
    <3>3. parents'[y] = 0 => Count(children[x], y) # 0
      BY <1>5, <2>2
    <3> QED
      BY <1>6, <3>2, <3>3
  <2> QED
    BY <2>1, <2>2
<1>11. parents' \in [Tasks -> Nat]
  BY <1>2, <1>5
<1> QED
  BY <1>1, <1>3, <1>5, <1>9, <1>10, <1>11 DEF ParentsCounted

(* Every step keeps the counters.                                          *)
LEMMA StepInvariant == Spec => []StepOK
<1>1. Init => StepOK
  <2> SUFFICES ASSUME Init PROVE StepOK
    OBVIOUS
  <2>1. GraphOK
    BY DEF Init, GraphOK
  <2>2. step = 0 /\ available = {} /\ running = {} /\ finished = {}
    BY DEF Init
  <2> QED
    BY <2>1, <2>2 DEF StepOK, EachOnce, ParentsCounted
<1>2. StepOK /\ [Next]_vars => StepOK'
  <2> SUFFICES ASSUME StepOK, [Next]_vars PROVE StepOK'
    OBVIOUS
  <2>1. GraphOK'
    BY DEF StepOK, GraphOK, Next, vars, StartStep, Begin, End, Stop, Spin
  <2>2. CASE StartStep
    BY <2>1, <2>2, StepStarted DEF StepOK
  <2>3. ASSUME NEW x \in Tasks, Begin(x) PROVE StepOK'
    <3>1. /\ x \in available /\ available' = available \ {x} /\ running' = running \cup {x}
          /\ layout' = layout /\ children' = children /\ step' = step /\ parents' = parents
          /\ finished' = finished /\ Tasks' = Tasks
      BY <2>3 DEF Begin, Tasks
    <3>2. EachOnce'
      BY <3>1 DEF StepOK, EachOnce
    <3>3. \A y : OpenEdges(y)' = OpenEdges(y)
      BY <3>1 DEF OpenEdges
    <3>4. available' \cup running' \cup finished' = available \cup running \cup finished
      BY <3>1
    <3>5. ParentsCounted'
      BY <3>1, <3>3, <3>4 DEF StepOK, ParentsCounted
    <3> QED
      BY <2>1, <3>2, <3>5 DEF StepOK
  <2>4. ASSUME NEW x \in Tasks, End(x) PROVE StepOK'
    BY <2>1, <2>4, TaskEnded DEF StepOK
  <2>5. CASE UNCHANGED vars
    <3>1. Tasks' = Tasks /\ \A y : OpenEdges(y)' = OpenEdges(y)
      BY <2>5 DEF vars, Tasks, OpenEdges
    <3>2. EachOnce' /\ ParentsCounted'
      BY <2>5, <3>1 DEF vars, StepOK, EachOnce, ParentsCounted
    <3> QED
      BY <2>1, <3>2 DEF StepOK
  <2> QED
    BY <2>2, <2>3, <2>4, <2>5 DEF Next, Stop, Spin
<1> QED
  BY <1>1, <1>2, PTL DEF Spec

(* When there are no tasks left none was left out: of the tasks that were  *)
(* not executed one in the first phase of them waits for a parent, which   *)
(* is in an earlier phase.                                                 *)
THEOREM AllTasksExecuted == Spec => []NoneLeftOut
<1>1. StepOK => NoneLeftOut
  <2> SUFFICES ASSUME StepOK, step > 0, NoTasksLeft PROVE finished = Tasks
    BY DEF NoneLeftOut
  <2>1. layout \in Layouts /\ Tasks = HydroTask(layout) /\ finished \subseteq Tasks
    BY TasksAre DEF StepOK, GraphOK, EachOnce
  <2>2. \A y \in Tasks : Cardinality(OpenEdges(y)) = 0 <=> y \in finished
    BY DEF StepOK, ParentsCounted, NoTasksLeft
  <2>3. \A y \in Tasks : PhaseOf(y[2]) \in 1 .. 6
    <3>1. \A y \in Tasks : y[2] \in Slot
      BY <2>1 DEF HydroTask
    <3> QED
      BY <3>1, PhaseSlots
  <2> SUFFICES ASSUME NEW z \in Tasks, z \notin finished PROVE FALSE
    BY <2>1
  <2> DEFINE B == {PhaseOf(y[2]) : y \in Tasks \ finished}
  <2>4. PICK p \in B : \A q \in B : p <= q
    <3>1. B \in SUBSET Nat /\ PhaseOf(z[2]) \in B
      BY <2>3
    <3> HIDE DEF B
    <3> QED
      BY <3>1, LeastNumber
  <2>5. PICK y \in Tasks \ finished : PhaseOf(y[2]) = p
    BY <2>4
  <2>6. OpenEdges(y) # {}
    <3>1. OpenEdges(y) \subseteq EdgesTo(layout, y)
      BY DEF OpenEdges
    <3> QED
      BY <2>1, <2>2, <2>5, <3>1, EdgesFinite
  <2>7. PICK k \in EdgesTo(layout, y) : AllEdges(layout)[k][1] \notin finished
    BY <2>6 DEF OpenEdges
  <2>8. PICK i \in Subgrids(layout), j \in 1 .. 23 : AllEdges(layout)[k] = EdgeAt(layout, i, j)
    BY <2>1, <2>7, EdgeIsAt DEF EdgesTo
  <2> DEFINE x == EdgeAt(layout, i, j)[1]
  <2>9. x \in Tasks \ finished /\ PhaseOf(y[2]) = PhaseOf(x[2]) + 1
    <3>1. EdgeAt(layout, i, j) \in HydroTask(layout) \X HydroTask(layout)
      BY <2>1, EdgeTasks
    <3>2. EdgeAt(layout, i, j)[2] = y
      BY <2>7, <2>8 DEF EdgesTo
    <3>3. PhaseOf(EdgeAt(layout, i, j)[2][2]) = PhaseOf(EdgeAt(layout, i, j)[1][2]) + 1
      BY <2>1, EdgePhase
    <3> QED
      BY <2>1, <2>7, <2>8, <3>1, <3>2, <3>3
  <2>10. PhaseOf(x[2]) \in B /\ PhaseOf(x[2]) \in Nat
    BY <2>3, <2>9
  <2> HIDE DEF B, x
  <2> QED
    BY <2>4, <2>5, <2>9, <2>10
<1> QED
  BY <1>1, StepInvariant, PTL

(* The locks of a task are those of the subgrids it works on: the own one, *)
(* and the one on the other side of the face.                              *)
LEMMA LocksOfSubgrids ==
  ASSUME NEW L, NEW x, x[1] # Outside
  PROVE  /\ ToSet(Dependencies(L, x)) = Touches(L, x)
         /\ \A s \in Touches(L, x) : \E i \in DOMAIN Dependencies(L, x) : Dependencies(L, x)[i] = s
<1>1. CASE Partner(L, x) = Outside
  <2>1. Touches(L, x) = {x[1]} /\ Dependencies(L, x) = <<x[1]>>
    BY <1>1 DEF Touches, Dependencies
  <2> QED
    BY <2>1 DEF ToSet
<1>2. CASE Partner(L, x) # Outside
  <2>1. Touches(L, x) = {x[1], Partner(L, x)}
    BY <1>2 DEF Touches
  <2>2. \/ Dependencies(L, x) = <<x[1], Partner(L, x)>>
        \/ Dependencies(L, x) = <<Partner(L, x), x[1]>>
    BY <1>2 DEF Dependencies
  <2> QED
    BY <2>1, <2>2 DEF ToSet
<1> QED
  BY <1>1, <1>2

(* The own subgrid of a task is a subgrid.                                 *)
LEMMA OwnSubgrid ==
  ASSUME NEW L \in Layouts, NEW x \in HydroTask(L) PROVE x[1] # Outside
  BY DEF HydroTask, Subgrids, Outside

(* A task that begins got all its locks, and every running task has all of *)
(* its own; so no two of them work on the same subgrid.                    *)
THEOREM SubgridsExclusive == Spec => []Exclusive
<1>1. Init => Exclusive
  BY DEF Init, Exclusive
<1>2. StepOK /\ Exclusive /\ [Next]_vars => Exclusive'
  <2> SUFFICES ASSUME StepOK, Exclusive, [Next]_vars PROVE Exclusive'
    OBVIOUS
  <2>1. CASE StartStep
    BY <2>1 DEF StartStep, Exclusive
  <2>2. ASSUME NEW x \in Tasks, Begin(x) PROVE Exclusive'
    <3>1. layout' = layout /\ running' = running \cup {x} /\ CanLock(x)
      BY <2>2 DEF Begin
    <3>2. \A y \in Tasks : y[1] # Outside
      BY OwnSubgrid, TasksAre DEF StepOK, GraphOK
    <3>3. ASSUME NEW y \in running PROVE Touches(layout, y) \cap Touches(layout, x) = {}
      <4>1. ToSet(Dependencies(layout, y)) = Touches(layout, y)
        BY <3>2, <3>3, LocksOfSubgrids DEF StepOK, EachOnce
      <4>2. Touches(layout, y) \subseteq LockedSubgrids
        BY <3>3, <4>1 DEF LockedSubgrids
      <4>3. \A s \in Touches(layout, x) :
              \E i \in DOMAIN Dependencies(layout, x) : Dependencies(layout, x)[i] = s
        BY <3>2, LocksOfSubgrids
      <4>4. \A s \in Touches(layout, x) : s \notin LockedSubgrids
        BY <3>1, <4>3 DEF CanLock
      <4> QED
        BY <4>2, <4>4
    <3> QED
      BY <3>1, <3>3 DEF Exclusive
  <2>3. ASSUME NEW x \in Tasks, End(x) PROVE Exclusive'
    BY <2>3 DEF End, Exclusive
  <2>4. CASE UNCHANGED vars
    BY <2>4 DEF vars, Exclusive
  <2> QED
    BY <2>1, <2>2, <2>3, <2>4 DEF Next, Stop, Spin
<1> QED
  BY <1>1, <1>2, StepInvariant, PTL DEF Spec

-----------------------------------------------------------------------------
(* 6. The cells and the interfaces. *)

(* The cells of a subgrid. *)

(* The lengths of a subgrid and the strides of its cell index. *)
LEMMA CellsType ==
  /\ Cells[1] \in Nat \ {0} /\ Cells[2] \in Nat \ {0} /\ Cells[3] \in Nat \ {0}
  /\ Stride[1] \in Nat \ {0} /\ Stride[2] \in Nat \ {0} /\ Stride[3] = 1
  /\ Stride[1] = Cells[2] * Cells[3] /\ Stride[2] = Cells[3]
<1>1. Cells[1] \in Nat \ {0} /\ Cells[2] \in Nat \ {0} /\ Cells[3] \in Nat \ {0}
  BY CellsAssumption
<1>2. Cells[2] * Cells[3] \in Nat \ {0}
  BY <1>1
<1>3. /\ Stride[1] = Cells[2] * Cells[3] /\ Stride[2] = Cells[3] /\ Stride[3] = 1
  BY DEF Stride, CellsPerLayer
<1> QED
  BY <1>1, <1>2, <1>3

(* The coordinates of a cell. *)
LEMMA CellIs ==
  ASSUME NEW p
  PROVE  p \in LocalCells <=>
            /\ p = <<p[1], p[2], p[3]>> /\ p[1] \in 0 .. Cells[1] - 1
            /\ p[2] \in 0 .. Cells[2] - 1 /\ p[3] \in 0 .. Cells[3] - 1
  BY DEF LocalCells

(* No two cells have the same place in the array. *)
LEMMA CellIndexInjective ==
  ASSUME NEW p \in LocalCells, NEW q \in LocalCells, CellIndex(p) = CellIndex(q)
  PROVE  p = q
<1> DEFINE m == Cells[2] * Cells[3]
           r == p[2] * Cells[3] + p[3]
           s == q[2] * Cells[3] + q[3]
<1>1. /\ p = <<p[1], p[2], p[3]>> /\ p[1] \in Nat /\ p[2] \in 0 .. Cells[2] - 1
      /\ p[3] \in 0 .. Cells[3] - 1
      /\ q = <<q[1], q[2], q[3]>> /\ q[1] \in Nat /\ q[2] \in 0 .. Cells[2] - 1
      /\ q[3] \in 0 .. Cells[3] - 1
  BY CellIs, CellsType
<1>2. m \in Nat \ {0} /\ Cells[2] \in Nat \ {0} /\ Cells[3] \in Nat \ {0}
  BY CellsType
<1>3. r \in 0 .. m - 1 /\ s \in 0 .. m - 1
  <2>1. r \in Nat /\ s \in Nat
    BY <1>1, <1>2
  <2>2. r < m /\ s < m
    <3>1. p[2] \in Nat /\ q[2] \in Nat /\ p[2] < Cells[2] /\ q[2] < Cells[2] /\ Cells[2] \in Nat
      BY <1>1, <1>2
    <3> QED
      BY <1>1, <1>2, <3>1, BelowProduct
  <2> QED
    BY <1>2, <2>1, <2>2
<1>4. CellIndex(p) = p[1] * m + r /\ CellIndex(q) = q[1] * m + s
  <2>1. /\ CellIndex(p) = p[1] * Stride[1] + p[2] * Stride[2] + p[3] * Stride[3]
        /\ CellIndex(q) = q[1] * Stride[1] + q[2] * Stride[2] + q[3] * Stride[3]
    BY DEF CellIndex
  <2>2. /\ p[1] * m \in Nat /\ p[2] * Cells[3] \in Nat /\ p[3] \in Nat
        /\ q[1] * m \in Nat /\ q[2] * Cells[3] \in Nat /\ q[3] \in Nat
    BY <1>1, <1>2
  <2>3. /\ p[1] * Stride[1] = p[1] * m /\ p[2] * Stride[2] = p[2] * Cells[3]
        /\ q[1] * Stride[1] = q[1] * m /\ q[2] * Stride[2] = q[2] * Cells[3]
    BY CellsType
  <2>4. p[3] * Stride[3] = p[3] /\ q[3] * Stride[3] = q[3]
    BY <2>2, CellsType
  <2> DEFINE A == p[1] * m
             B == q[1] * m
             C == p[2] * Cells[3]
             D == q[2] * Cells[3]
  <2>5. /\ A \in Nat /\ B \in Nat /\ C \in Nat /\ D \in Nat /\ p[3] \in Nat /\ q[3] \in Nat
        /\ CellIndex(p) = A + C + p[3] /\ CellIndex(q) = B + D + q[3]
        /\ r = C + p[3] /\ s = D + q[3]
    <3>1. CellIndex(p) = A + C + p[3] /\ CellIndex(q) = B + D + q[3]
      BY <2>1, <2>3, <2>4, Zenon
    <3> QED
      BY <2>2, <3>1
  <2> HIDE DEF A, B, C, D, m, r, s
  <2>6. CellIndex(p) = A + r /\ CellIndex(q) = B + s
    <3>1. \A u, v, w \in Nat : u + v + w = u + (v + w)
      OBVIOUS
    <3>2. A + C + p[3] = A + (C + p[3]) /\ B + D + q[3] = B + (D + q[3])
      BY <2>5, <3>1, Zenon
    <3> QED
      BY <2>5, <3>2, Zenon
  <2> QED
    BY <2>6 DEF A, B
<1> HIDE DEF m, r, s
<1>5. p[1] = q[1] /\ r = s
  <2>1. (p[1] * m + r) \div m = p[1] /\ (p[1] * m + r) % m = r
    BY <1>1, <1>2, <1>3, Division
  <2>2. (q[1] * m + s) \div m = q[1] /\ (q[1] * m + s) % m = s
    BY <1>1, <1>2, <1>3, Division
  <2> QED
    BY <1>4, <2>1, <2>2
<1>6. p[2] = q[2] /\ p[3] = q[3]
  <2>1. p[2] \in Nat /\ q[2] \in Nat
    BY <1>1, <1>2
  <2>2. r \div Cells[3] = p[2] /\ r % Cells[3] = p[3]
    BY <1>1, <1>2, <2>1, Division DEF r
  <2>3. s \div Cells[3] = q[2] /\ s % Cells[3] = q[3]
    BY <1>1, <1>2, <2>1, Division DEF s
  <2> QED
    BY <1>5, <2>2, <2>3
<1> QED
  BY <1>1, <1>5, <1>6

(* The place of a cell in the layer of cells at a face: its column and row. *)
At(p, a) == <<p[IF a = 1 THEN 2 ELSE 1], p[IF a = 3 THEN 2 ELSE 3]>>

(* The loops over a face visit the cells of its layer.                     *)
LEMMA FaceCells ==
  ASSUME NEW a \in Axis, NEW p \in LocalCells
  PROVE  /\ p[a] \in 0 .. Cells[a] - 1 /\ Cells[a] \in Nat \ {0} /\ Stride[a] \in Nat
         /\ At(p, a) \in FaceLoop(a)
         /\ Offset(a, At(p, a)) \in Nat
         /\ CellIndex(p) = p[a] * Stride[a] + Offset(a, At(p, a))
         /\ \A e \in 0 .. Cells[a] - 1 :
              /\ [p EXCEPT ![a] = e] \in LocalCells /\ [p EXCEPT ![a] = e][a] = e
              /\ At([p EXCEPT ![a] = e], a) = At(p, a)
<1>1. /\ p = <<p[1], p[2], p[3]>> /\ p[1] \in 0 .. Cells[1] - 1
      /\ p[2] \in 0 .. Cells[2] - 1 /\ p[3] \in 0 .. Cells[3] - 1
  BY CellIs
<1>2. a = 1 \/ a = 2 \/ a = 3
  BY DEF Axis
<1>3. p[a] \in 0 .. Cells[a] - 1 /\ Cells[a] \in Nat \ {0} /\ Stride[a] \in Nat
  BY <1>1, <1>2, CellsType
<1>4. At(p, a) \in FaceLoop(a)
  BY <1>1, <1>2 DEF At, FaceLoop, Face
<1>5. Offset(a, At(p, a)) = At(p, a)[1] * Stride[IF a = 1 THEN 2 ELSE 1]
                            + At(p, a)[2] * Stride[IF a = 3 THEN 2 ELSE 3]
  BY <1>2 DEF Offset, Face
<1>6. /\ p[1] * Stride[1] \in Nat /\ p[2] * Stride[2] \in Nat /\ p[3] * Stride[3] \in Nat
  BY <1>1, CellsType
<1>7. CellIndex(p) = p[1] * Stride[1] + p[2] * Stride[2] + p[3] * Stride[3]
  BY DEF CellIndex
<1>8. /\ Offset(a, At(p, a)) \in Nat
      /\ CellIndex(p) = p[a] * Stride[a] + Offset(a, At(p, a))
  <2>1. CASE a = 1
    <3>1. Offset(a, At(p, a)) = p[2] * Stride[2] + p[3] * Stride[3]
      BY <1>5, <2>1 DEF At
    <3> QED
      BY <1>6, <1>7, <2>1, <3>1
  <2>2. CASE a = 2
    <3>1. Offset(a, At(p, a)) = p[1] * Stride[1] + p[3] * Stride[3]
      BY <1>5, <2>2 DEF At
    <3> QED
      BY <1>6, <1>7, <2>2, <3>1
  <2>3. CASE a = 3
    <3>1. Offset(a, At(p, a)) = p[1] * Stride[1] + p[2] * Stride[2]
      BY <1>5, <2>3 DEF At
    <3> QED
      BY <1>6, <1>7, <2>3, <3>1
  <2> QED
    BY <1>2, <2>1, <2>2, <2>3
<1>9. ASSUME NEW e \in 0 .. Cells[a] - 1
      PROVE  /\ [p EXCEPT ![a] = e] \in LocalCells /\ [p EXCEPT ![a] = e][a] = e
             /\ At([p EXCEPT ![a] = e], a) = At(p, a)
  <2>1. CASE a = 1
    <3>1. [p EXCEPT ![a] = e] = <<e, p[2], p[3]>>
      BY <1>1, <2>1
    <3>2. <<e, p[2], p[3]>> \in LocalCells
      BY <1>1, <2>1 DEF LocalCells
    <3>3. At(p, a) = <<p[2], p[3]>> /\ At(<<e, p[2], p[3]>>, a) = <<p[2], p[3]>>
      BY <2>1 DEF At
    <3> QED
      BY <2>1, <3>1, <3>2, <3>3
  <2>2. CASE a = 2
    <3>1. [p EXCEPT ![a] = e] = <<p[1], e, p[3]>>
      BY <1>1, <2>2
    <3>2. <<p[1], e, p[3]>> \in LocalCells
      BY <1>1, <2>2 DEF LocalCells
    <3>3. At(p, a) = <<p[1], p[3]>> /\ At(<<p[1], e, p[3]>>, a) = <<p[1], p[3]>>
      BY <2>2 DEF At
    <3> QED
      BY <2>2, <3>1, <3>2, <3>3
  <2>3. CASE a = 3
    <3>1. [p EXCEPT ![a] = e] = <<p[1], p[2], e>>
      BY <1>1, <2>3
    <3>2. <<p[1], p[2], e>> \in LocalCells
      BY <1>1, <2>3 DEF LocalCells
    <3>3. At(p, a) = <<p[1], p[2]>> /\ At(<<p[1], p[2], e>>, a) = <<p[1], p[2]>>
      BY <2>3 DEF At
    <3> QED
      BY <2>3, <3>1, <3>2, <3>3
  <2> QED
    BY <1>2, <2>1, <2>2, <2>3
<1> QED
  BY <1>3, <1>4, <1>8, <1>9

(* Every position in the loop over a face is that of a cell of the layer   *)
(* next to it.                                                             *)
LEMMA FaceCellAt ==
  ASSUME NEW a \in Axis, NEW q \in FaceLoop(a), NEW e \in 0 .. Cells[a] - 1
  PROVE  \E p \in LocalCells : p[a] = e /\ At(p, a) = q
<1>1. a = 1 \/ a = 2 \/ a = 3
  BY DEF Axis
<1>2. CASE a = 1
  <2>1. q = <<q[1], q[2]>> /\ q[1] \in 0 .. Cells[2] - 1 /\ q[2] \in 0 .. Cells[3] - 1
    BY <1>2 DEF FaceLoop, Face
  <2>2. <<e, q[1], q[2]>> \in LocalCells
    BY <1>2, <2>1 DEF LocalCells
  <2>3. At(<<e, q[1], q[2]>>, a) = q /\ <<e, q[1], q[2]>>[a] = e
    BY <1>2, <2>1 DEF At
  <2> QED
    BY <2>2, <2>3
<1>3. CASE a = 2
  <2>1. q = <<q[1], q[2]>> /\ q[1] \in 0 .. Cells[1] - 1 /\ q[2] \in 0 .. Cells[3] - 1
    BY <1>3 DEF FaceLoop, Face
  <2>2. <<q[1], e, q[2]>> \in LocalCells
    BY <1>3, <2>1 DEF LocalCells
  <2>3. At(<<q[1], e, q[2]>>, a) = q /\ <<q[1], e, q[2]>>[a] = e
    BY <1>3, <2>1 DEF At
  <2> QED
    BY <2>2, <2>3
<1>4. CASE a = 3
  <2>1. q = <<q[1], q[2]>> /\ q[1] \in 0 .. Cells[1] - 1 /\ q[2] \in 0 .. Cells[2] - 1
    BY <1>4 DEF FaceLoop, Face
  <2>2. <<q[1], q[2], e>> \in LocalCells
    BY <1>4, <2>1 DEF LocalCells
  <2>3. At(<<q[1], q[2], e>>, a) = q /\ <<q[1], q[2], e>>[a] = e
    BY <1>4, <2>1 DEF At
  <2> QED
    BY <2>2, <2>3
<1> QED
  BY <1>1, <1>2, <1>3, <1>4

(* The interfaces, by the cell on one side of them.                        *)
Keys(L) ==
  {k \in [i : Subgrids(L), p : LocalCells, a : Axis, s : {-1, 1}] :
     k.s = -1 => k.p[k.a] = 0 /\ Neighbour(L, k.i, k.a, -1) = Outside}

(* What is across the interface on a side of a cell.                       *)
Across(L, i, p, a, s) ==
  LET c == p[a] + s
      j == IF c \in 0 .. Cells[a] - 1 THEN i ELSE Neighbour(L, i, a, s)
  IN  IF j = Outside THEN Boundary ELSE <<j, CellIndex([p EXCEPT ![a] = c % Cells[a]])>>

InterfaceAt(L, k) ==
  [axis |-> k.a, side |-> k.s, left |-> <<k.i, CellIndex(k.p)>>,
   right |-> Across(L, k.i, k.p, k.a, k.s)]

(* A cell has the boundary of the box on its lower side when it is in the  *)
(* first layer of a subgrid that has no neighbour there.                   *)
LEMMA AcrossBoundary ==
  ASSUME NEW L \in Layouts, NEW i \in Subgrids(L), NEW p \in LocalCells, NEW a \in Axis
  PROVE  /\ Across(L, i, p, a, -1) = Boundary <=>
              p[a] = 0 /\ Neighbour(L, i, a, -1) = Outside
         /\ i # Outside
<1>1. i # Outside
  BY DEF Subgrids, Outside
<1>2. p[a] \in 0 .. Cells[a] - 1 /\ Cells[a] \in Nat \ {0}
  BY FaceCells
<1>3. p[a] + (-1) \in 0 .. Cells[a] - 1 <=> p[a] # 0
  BY <1>2
<1> QED
  BY <1>1, <1>3 DEF Across, Boundary

(* The interfaces are those on the upper side of every cell, and those     *)
(* with the boundary on the lower side.                                    *)
LEMMA InterfacesAre ==
  ASSUME NEW L \in Layouts
  PROVE  Interfaces(L) = {InterfaceAt(L, k) : k \in Keys(L)}
<1> DEFINE P == {[axis |-> a, side |-> 1, left |-> <<i, CellIndex(p)>>,
                  right |-> Across(L, i, p, a, 1)] :
                 i \in Subgrids(L), p \in LocalCells, a \in Axis}
           N == {[axis |-> t[3], side |-> -1, left |-> <<t[1], CellIndex(t[2])>>,
                  right |-> Boundary] :
                 t \in {u \in Subgrids(L) \X LocalCells \X Axis :
                          Across(L, u[1], u[2], u[3], -1) = Boundary}}
<1>1. Interfaces(L) = P \cup N
  BY DEF Interfaces, Across
<1>2. ASSUME NEW v \in P PROVE v \in {InterfaceAt(L, k) : k \in Keys(L)}
  <2>1. PICK i \in Subgrids(L), p \in LocalCells, a \in Axis :
               v = [axis |-> a, side |-> 1, left |-> <<i, CellIndex(p)>>,
                    right |-> Across(L, i, p, a, 1)]
    BY <1>2
  <2> DEFINE k == [i |-> i, p |-> p, a |-> a, s |-> 1]
  <2>2. k \in [i : Subgrids(L), p : LocalCells, a : Axis, s : {-1, 1}] /\ k.s # -1
    OBVIOUS
  <2>3. k \in Keys(L)
    <3> HIDE DEF k
    <3> QED
      BY <2>2 DEF Keys
  <2>4. v = InterfaceAt(L, k)
    BY <2>1 DEF InterfaceAt
  <2> HIDE DEF k
  <2> QED
    BY <2>3, <2>4
<1>3. ASSUME NEW v \in N PROVE v \in {InterfaceAt(L, k) : k \in Keys(L)}
  <2>1. PICK t \in Subgrids(L) \X LocalCells \X Axis :
          /\ Across(L, t[1], t[2], t[3], -1) = Boundary
          /\ v = [axis |-> t[3], side |-> -1, left |-> <<t[1], CellIndex(t[2])>>,
                  right |-> Boundary]
    BY <1>3
  <2>2. PICK k : k = [i |-> t[1], p |-> t[2], a |-> t[3], s |-> -1]
    BY Zenon
  <2>3. t[1] \in Subgrids(L) /\ t[2] \in LocalCells /\ t[3] \in Axis
    BY <2>1
  <2>4. k \in Keys(L)
    <3>1. t[2][t[3]] = 0 /\ Neighbour(L, t[1], t[3], -1) = Outside
      BY <2>1, <2>3, AcrossBoundary
    <3> QED
      BY <2>2, <2>3, <3>1 DEF Keys
  <2>5. v = InterfaceAt(L, k)
    BY <2>1, <2>2 DEF InterfaceAt
  <2> QED
    BY <2>4, <2>5
<1>4. ASSUME NEW k \in Keys(L) PROVE InterfaceAt(L, k) \in P \cup N
  <2>1. k.i \in Subgrids(L) /\ k.p \in LocalCells /\ k.a \in Axis /\ k.s \in {-1, 1}
    BY <1>4 DEF Keys
  <2>2. CASE k.s = 1
    <3>1. InterfaceAt(L, k) = [axis |-> k.a, side |-> 1, left |-> <<k.i, CellIndex(k.p)>>,
                               right |-> Across(L, k.i, k.p, k.a, 1)]
      BY <2>2 DEF InterfaceAt
    <3> HIDE DEF N
    <3>2. InterfaceAt(L, k) \in P
      BY <2>1, <3>1
    <3> QED
      BY <3>2
  <2>3. CASE k.s = -1
    <3>1. Across(L, k.i, k.p, k.a, -1) = Boundary
      <4>1. k.p[k.a] = 0 /\ Neighbour(L, k.i, k.a, -1) = Outside
        BY <1>4, <2>3 DEF Keys
      <4> QED
        BY <2>1, <4>1, AcrossBoundary
    <3> DEFINE t == <<k.i, k.p, k.a>>
    <3>2. t \in Subgrids(L) \X LocalCells \X Axis /\ t[1] = k.i /\ t[2] = k.p /\ t[3] = k.a
      BY <2>1
    <3>3. InterfaceAt(L, k) = [axis |-> t[3], side |-> -1, left |-> <<t[1], CellIndex(t[2])>>,
                               right |-> Boundary]
      BY <2>3, <3>1 DEF InterfaceAt
    <3>4. Across(L, t[1], t[2], t[3], -1) = Boundary
      BY <3>1, <3>2
    <3> HIDE DEF t
    <3>5. t \in {u \in Subgrids(L) \X LocalCells \X Axis :
                    Across(L, u[1], u[2], u[3], -1) = Boundary}
      BY <3>2, <3>4
    <3>6. InterfaceAt(L, k) \in N
      BY <3>3, <3>5, Zenon
    <3> QED
      BY <3>6
  <2> QED
    BY <2>1, <2>2, <2>3
<1> HIDE DEF P, N
<1> QED
  BY <1>1, <1>2, <1>3, <1>4

(* Different cells or sides have different interfaces.                     *)
LEMMA InterfacesDiffer ==
  ASSUME NEW L \in Layouts, NEW k \in Keys(L), NEW m \in Keys(L),
         InterfaceAt(L, k) = InterfaceAt(L, m)
  PROVE  k = m
<1>1. /\ k \in [i : Subgrids(L), p : LocalCells, a : Axis, s : {-1, 1}]
      /\ m \in [i : Subgrids(L), p : LocalCells, a : Axis, s : {-1, 1}]
  BY DEF Keys
<1>2. /\ k.a = m.a /\ k.s = m.s /\ <<k.i, CellIndex(k.p)>> = <<m.i, CellIndex(m.p)>>
  BY DEF InterfaceAt
<1>3. k.i = m.i /\ CellIndex(k.p) = CellIndex(m.p)
  BY <1>2
<1>4. k.p = m.p
  BY <1>1, <1>3, CellIndexInjective
<1> QED
  BY <1>1, <1>2, <1>3, <1>4

(* The values of a function with a finite domain. *)
LEMMA FiniteImage ==
  ASSUME NEW S, IsFiniteSet(S), NEW f
  PROVE  IsFiniteSet({f[x] : x \in S})
<1> DEFINE T == {f[x] : x \in S}
           g == [x \in S |-> f[x]]
<1>1. g \in Surjection(S, T)
  BY DEF Surjection
<1> HIDE DEF g, T
<1>2. IsFiniteSet(T)
  BY <1>1, FS_Surjection
<1> QED
  BY <1>2 DEF T

(* There are finitely many interfaces. *)
LEMMA InterfacesFinite ==
  ASSUME NEW L \in Layouts
  PROVE  IsFiniteSet(Interfaces(L))
<1>1. IsFiniteSet(Keys(L))
  <2>1. IsFiniteSet(LocalCells)
    <3> DEFINE A == 0 .. Cells[1] - 1
               B == 0 .. Cells[2] - 1
               C == 0 .. Cells[3] - 1
    <3>1. IsFiniteSet(A) /\ IsFiniteSet(B) /\ IsFiniteSet(C)
      <4>1. \A a, b \in Int : IsFiniteSet(a .. b)
        BY FS_Interval
      <4>2. Cells[1] - 1 \in Int /\ Cells[2] - 1 \in Int /\ Cells[3] - 1 \in Int /\ 0 \in Int
        BY CellsType
      <4> QED
        BY <4>1, <4>2, Zenon
    <3>2. IsFiniteSet(A \X B)
      BY <3>1, FS_Product
    <3>3. IsFiniteSet((A \X B) \X C)
      BY <3>1, <3>2, FS_Product
    <3>4. LocalCells = {<<t[1][1], t[1][2], t[2]>> : t \in (A \X B) \X C}
      <4>1. ASSUME NEW p \in LocalCells
            PROVE  p \in {<<t[1][1], t[1][2], t[2]>> : t \in (A \X B) \X C}
        <5>1. PICK x \in A, y \in B, z \in C : p = <<x, y, z>>
          BY <4>1 DEF LocalCells
        <5>2. PICK t : t = << <<x, y>>, z>>
          BY Zenon
        <5>3. t \in (A \X B) \X C /\ p = <<t[1][1], t[1][2], t[2]>>
          BY <5>1, <5>2
        <5> QED
          BY <5>3
      <4>2. ASSUME NEW t \in (A \X B) \X C PROVE <<t[1][1], t[1][2], t[2]>> \in LocalCells
        <5>1. t[1][1] \in A /\ t[1][2] \in B /\ t[2] \in C
          OBVIOUS
        <5> QED
          BY <5>1 DEF LocalCells
      <4> QED
        BY <4>1, <4>2
    <3> DEFINE f == [t \in (A \X B) \X C |-> <<t[1][1], t[1][2], t[2]>>]
    <3>5. LocalCells = {f[t] : t \in (A \X B) \X C}
      BY <3>4
    <3> HIDE DEF A, B, C, f
    <3> QED
      BY <3>3, <3>5, FiniteImage
  <2>2. IsFiniteSet(Subgrids(L))
    BY SubgridsSize
  <2>3. IsFiniteSet(Axis) /\ IsFiniteSet({-1, 1})
    <3>1. IsFiniteSet(Axis)
      <4>1. 1 \in Int /\ 3 \in Int
        OBVIOUS
      <4> QED
        BY <4>1, FS_Interval, Zenon DEF Axis
    <3>2. IsFiniteSet({-1}) /\ {-1, 1} = {-1} \cup {1}
      BY FS_Singleton
    <3>3. IsFiniteSet({-1} \cup {1})
      BY <3>2, FS_AddElement
    <3> QED
      BY <3>1, <3>2, <3>3
  <2> DEFINE Q == (Subgrids(L) \X LocalCells) \X (Axis \X {-1, 1})
  <2>4. IsFiniteSet(Subgrids(L) \X LocalCells) /\ IsFiniteSet(Axis \X {-1, 1})
    BY <2>1, <2>2, <2>3, FS_Product
  <2>5. IsFiniteSet(Q)
    BY <2>4, FS_Product
  <2> DEFINE R == {[i |-> q[1][1], p |-> q[1][2], a |-> q[2][1], s |-> q[2][2]] : q \in Q}
  <2>6. IsFiniteSet(R)
    <3> DEFINE f == [q \in Q |-> [i |-> q[1][1], p |-> q[1][2], a |-> q[2][1], s |-> q[2][2]]]
    <3>1. R = {f[q] : q \in Q}
      <4> HIDE DEF Q
      <4> QED
        OBVIOUS
    <3> HIDE DEF Q, R, f
    <3> QED
      BY <2>5, <3>1, FiniteImage
  <2>7. Keys(L) \subseteq R
    <3> SUFFICES ASSUME NEW k \in Keys(L) PROVE k \in R
      OBVIOUS
    <3>1. k \in [i : Subgrids(L), p : LocalCells, a : Axis, s : {-1, 1}]
      BY DEF Keys
    <3>2. PICK q : q = << <<k.i, k.p>>, <<k.a, k.s>> >>
      BY Zenon
    <3>3. q \in Q
      BY <3>1, <3>2
    <3>4. k = [i |-> q[1][1], p |-> q[1][2], a |-> q[2][1], s |-> q[2][2]]
      BY <3>1, <3>2
    <3> HIDE DEF Q
    <3> QED
      BY <3>3, <3>4
  <2> HIDE DEF R
  <2> QED
    BY <2>6, <2>7, FS_Subset
<1>2. IsFiniteSet({InterfaceAt(L, k) : k \in Keys(L)})
  <2> DEFINE f == [k \in Keys(L) |-> InterfaceAt(L, k)]
  <2>1. {InterfaceAt(L, k) : k \in Keys(L)} = {f[k] : k \in Keys(L)}
    OBVIOUS
  <2> HIDE DEF f
  <2> QED
    BY <1>1, <2>1, FiniteImage
<1> QED
  BY <1>2, InterfacesAre

-----------------------------------------------------------------------------
(* 7. The visits. *)

(* The sweeps whose slots begin at c: the gradients at 0, the fluxes at 9. *)
Sweep(L, x, c) ==
  LET a    == AxisOf(x[2])
      side == SideOf(x[2])
      ngb  == Neighbour(L, x[1], a, side)
  IN  IF x[2] = c THEN InnerVisits(x)
      ELSE IF ngb = Outside THEN GhostVisits(x, a, side)
      ELSE OuterVisits(x, ngb, a, side)

Visits(L, c) == UNION {Sweep(L, x, c) : x \in {y \in HydroTask(L) : y[2] \in c .. c + 6}}

(* The slot of the sweep over an interface, and the visit.                 *)
IsInner(k) == k.s = 1 /\ k.p[k.a] < Cells[k.a] - 1

SlotAt(c, k) == IF IsInner(k) THEN c ELSE IF k.s = 1 THEN c + 2 * k.a - 1 ELSE c + 2 * k.a

VisitAt(L, c, k) ==
  [task |-> <<k.i, SlotAt(c, k)>>, at |-> IF IsInner(k) THEN k.p ELSE At(k.p, k.a),
   axis |-> k.a, side |-> k.s, left |-> <<k.i, CellIndex(k.p)>>,
   right |-> Across(L, k.i, k.p, k.a, k.s)]

(* The slots of the two faces along an axis. *)
LEMMA SlotsOfAxis ==
  ASSUME NEW c \in {0, 9}, NEW a \in Axis
  PROVE  /\ c \in Slot /\ c \notin Positive /\ c \notin Negative
         /\ c + 2 * a - 1 \in Slot /\ c + 2 * a - 1 \in Positive /\ c + 2 * a - 1 \notin Negative
         /\ AxisOf(c + 2 * a - 1) = a /\ c + 2 * a - 1 \in c .. c + 6 /\ c + 2 * a - 1 # c
         /\ c + 2 * a \in Slot /\ c + 2 * a \in Negative /\ c + 2 * a \notin Positive
         /\ AxisOf(c + 2 * a) = a /\ c + 2 * a \in c .. c + 6 /\ c + 2 * a # c
<1>1. a = 1 \/ a = 2 \/ a = 3
  BY DEF Axis
<1>2. c = 0 \/ c = 9
  OBVIOUS
<1> QED
  BY <1>1, <1>2 DEF Slot, Positive, Negative, AxisOf

(* The axis and the direction of the sweep in a slot. *)
LEMMA AxisOfSlot ==
  ASSUME NEW c \in {0, 9}, NEW k \in c .. c + 6, k # c
  PROVE  /\ AxisOf(k) \in Axis
         /\ k \in Positive => k = c + 2 * AxisOf(k) - 1 /\ SideOf(k) = 1
         /\ k \notin Positive => k \in Negative /\ k = c + 2 * AxisOf(k) /\ SideOf(k) = -1
<1>1. c = 0 \/ c = 9
  OBVIOUS
<1>2. k \in {1, 2, 3, 4, 5, 6} \/ k \in {10, 11, 12, 13, 14, 15}
  BY <1>1
<1>3. (k > 6 <=> c = 9) /\ (k <= 6 <=> c = 0)
  BY <1>1
<1> QED
  BY <1>1, <1>2, <1>3 DEF Positive, Negative, AxisOf, Axis, SideOf

(* What is across an interface inside a subgrid, and at a face of it.      *)
LEMMA AcrossIs ==
  ASSUME NEW L \in Layouts, NEW i \in Subgrids(L), NEW p \in LocalCells, NEW a \in Axis
  PROVE  /\ p[a] < Cells[a] - 1 =>
              Across(L, i, p, a, 1) = <<i, CellIndex([p EXCEPT ![a] = @ + 1])>>
         /\ p[a] = Cells[a] - 1 =>
              Across(L, i, p, a, 1) =
                IF Neighbour(L, i, a, 1) = Outside THEN Boundary
                ELSE <<Neighbour(L, i, a, 1), Offset(a, At(p, a))>>
<1>1. p[a] \in 0 .. Cells[a] - 1 /\ Cells[a] \in Nat \ {0} /\ Stride[a] \in Nat
  BY FaceCells
<1>2. i # Outside
  BY DEF Subgrids, Outside
<1>3. ASSUME p[a] < Cells[a] - 1
      PROVE  Across(L, i, p, a, 1) = <<i, CellIndex([p EXCEPT ![a] = @ + 1])>>
  <2>1. p[a] + 1 \in 0 .. Cells[a] - 1
    BY <1>1, <1>3
  <2>2. (p[a] + 1) % Cells[a] = p[a] + 1
    BY <1>1, <2>1
  <2>3. Across(L, i, p, a, 1) = <<i, CellIndex([p EXCEPT ![a] = (p[a] + 1) % Cells[a]])>>
    BY <1>2, <2>1 DEF Across
  <2> QED
    BY <2>2, <2>3
<1>4. ASSUME p[a] = Cells[a] - 1
      PROVE  Across(L, i, p, a, 1) =
                IF Neighbour(L, i, a, 1) = Outside THEN Boundary
                ELSE <<Neighbour(L, i, a, 1), Offset(a, At(p, a))>>
  <2>1. p[a] + 1 = Cells[a] /\ p[a] + 1 \notin 0 .. Cells[a] - 1
    BY <1>1, <1>4
  <2>2. Cells[a] % Cells[a] = 0 /\ 0 \in 0 .. Cells[a] - 1
    BY <1>1
  <2>3. CellIndex([p EXCEPT ![a] = 0]) = Offset(a, At(p, a))
    <3> DEFINE q == [p EXCEPT ![a] = 0]
    <3>1. q \in LocalCells /\ q[a] = 0 /\ At(q, a) = At(p, a)
      <4>1. \A e \in 0 .. Cells[a] - 1 :
              /\ [p EXCEPT ![a] = e] \in LocalCells /\ [p EXCEPT ![a] = e][a] = e
              /\ At([p EXCEPT ![a] = e], a) = At(p, a)
        BY FaceCells
      <4> QED
        BY <2>2, <4>1, Zenon
    <3> HIDE DEF q
    <3>2. CellIndex(q) = q[a] * Stride[a] + Offset(a, At(q, a)) /\ Offset(a, At(q, a)) \in Nat
      BY <3>1, FaceCells
    <3>3. CellIndex(q) = Offset(a, At(p, a))
      BY <1>1, <3>1, <3>2
    <3> QED
      BY <3>3 DEF q
  <2>4. Across(L, i, p, a, 1) =
          IF Neighbour(L, i, a, 1) = Outside THEN Boundary
          ELSE <<Neighbour(L, i, a, 1), CellIndex([p EXCEPT ![a] = (p[a] + 1) % Cells[a]])>>
    BY <2>1 DEF Across
  <2> QED
    BY <2>1, <2>2, <2>3, <2>4
<1> QED
  BY <1>3, <1>4

(* A cell at a face, by its place in the layer.                            *)
LEMMA FaceCellIndex ==
  ASSUME NEW a \in Axis, NEW p \in LocalCells
  PROVE  /\ p[a] = Cells[a] - 1 => CellIndex(p) = Face(a).start + Offset(a, At(p, a))
         /\ p[a] = 0 => CellIndex(p) = 0 + Offset(a, At(p, a))
         /\ Offset(a, At(p, a)) \in Nat
<1>1. /\ CellIndex(p) = p[a] * Stride[a] + Offset(a, At(p, a)) /\ Stride[a] \in Nat
      /\ Offset(a, At(p, a)) \in Nat
  BY FaceCells
<1>2. Face(a).start = (Cells[a] - 1) * Stride[a]
  BY DEF Face
<1>3. 0 * Stride[a] = 0
  BY <1>1
<1> QED
  BY <1>1, <1>2, <1>3

-----------------------------------------------------------------------------
(* Every interface is visited. *)

(* Every interface is visited by the sweep that is meant to do it. *)
LEMMA InterfaceVisited ==
  ASSUME NEW L \in Layouts, NEW c \in {0, 9}, NEW k \in Keys(L)
  PROVE  VisitAt(L, c, k) \in Visits(L, c)
<1>1. /\ k \in [i : Subgrids(L), p : LocalCells, a : Axis, s : {-1, 1}]
      /\ k.s = -1 => k.p[k.a] = 0 /\ Neighbour(L, k.i, k.a, -1) = Outside
  BY DEF Keys
<1> DEFINE i == k.i
           p == k.p
           a == k.a
           n == SlotAt(c, k)
           x == <<i, n>>
           v == VisitAt(L, c, k)
<1>2. i \in Subgrids(L) /\ p \in LocalCells /\ a \in Axis /\ k.s \in {-1, 1}
  BY <1>1
<1>3. p[a] \in 0 .. Cells[a] - 1 /\ Cells[a] \in Nat \ {0} /\ At(p, a) \in FaceLoop(a)
  BY <1>2, FaceCells
<1> SUFFICES x \in HydroTask(L) /\ n \in c .. c + 6 /\ v \in Sweep(L, x, c)
  BY DEF Visits
<1>4. CASE IsInner(k)
  <2>1. n = c /\ k.s = 1 /\ p[a] < Cells[a] - 1
    BY <1>4 DEF SlotAt, IsInner
  <2>2. x \in HydroTask(L) /\ n \in c .. c + 6
    <3>1. c \in Slot /\ c \notin Negative /\ c \in c .. c + 6
      BY <1>2, SlotsOfAxis
    <3> QED
      BY <1>2, <2>1, <3>1, TaskSlots
  <2>3. Sweep(L, x, c) = InnerVisits(x)
    BY <2>1 DEF Sweep
  <2>4. v = [task |-> x, at |-> p, axis |-> a, side |-> 1,
             left |-> <<x[1], CellIndex(p)>>,
             right |-> <<x[1], CellIndex([p EXCEPT ![a] = @ + 1])>>]
    <3>1. Across(L, i, p, a, 1) = <<i, CellIndex([p EXCEPT ![a] = @ + 1])>>
      BY <1>2, <2>1, AcrossIs
    <3> QED
      BY <1>4, <2>1, <3>1 DEF VisitAt
  <2>5. v \in InnerVisits(x)
    <3> HIDE DEF v, x
    <3>1. p \in {q \in LocalCells : q[a] < Cells[a] - 1}
      BY <1>2, <2>1
    <3> DEFINE S(b) == {[task |-> x, at |-> q, axis |-> b, side |-> 1,
                         left |-> <<x[1], CellIndex(q)>>,
                         right |-> <<x[1], CellIndex([q EXCEPT ![b] = @ + 1])>>] :
                        q \in {r \in LocalCells : r[b] < Cells[b] - 1}}
    <3>2. InnerVisits(x) = UNION {S(b) : b \in Axis}
      BY DEF InnerVisits
    <3>3. v \in S(a)
      BY <2>4, <3>1
    <3> HIDE DEF S, p, a
    <3> QED
      BY <1>2, <3>2, <3>3
  <2> QED
    BY <2>2, <2>3, <2>5
<1>5. CASE ~ IsInner(k) /\ k.s = 1
  <2>1. n = c + 2 * a - 1 /\ p[a] = Cells[a] - 1
    BY <1>3, <1>5 DEF SlotAt, IsInner
  <2>2. /\ n \in Slot /\ n \in Positive /\ n \notin Negative /\ AxisOf(n) = a
        /\ n \in c .. c + 6 /\ n # c
    BY <1>2, <2>1, SlotsOfAxis
  <2> HIDE DEF n
  <2>3. x \in HydroTask(L)
    BY <1>2, <2>2, TaskSlots
  <2>4. /\ CellIndex(p) = Face(a).start + Offset(a, At(p, a))
        /\ Across(L, i, p, a, 1) =
             IF Neighbour(L, i, a, 1) = Outside THEN Boundary
             ELSE <<Neighbour(L, i, a, 1), Offset(a, At(p, a))>>
    BY <1>2, <2>1, FaceCellIndex, AcrossIs
  <2>5. SideOf(n) = 1 /\ x[1] = i /\ x[2] = n
    BY <2>2 DEF SideOf
  <2>6. v = [task |-> x, at |-> At(p, a), axis |-> a, side |-> 1,
             left |-> <<i, CellIndex(p)>>, right |-> Across(L, i, p, a, 1)]
    BY <1>5 DEF VisitAt, n
  <2> HIDE DEF x, v, i, p, a
  <2>7. CASE Neighbour(L, i, a, 1) = Outside
    <3>1. Sweep(L, x, c) = GhostVisits(x, a, 1)
      BY <2>2, <2>5, <2>7 DEF Sweep
    <3>2. v \in GhostVisits(x, a, 1)
      BY <1>3, <2>4, <2>5, <2>6, <2>7 DEF GhostVisits
    <3> QED
      BY <2>2, <2>3, <3>1, <3>2
  <2>8. CASE Neighbour(L, i, a, 1) # Outside
    <3>1. Sweep(L, x, c) = OuterVisits(x, Neighbour(L, i, a, 1), a, 1)
      BY <2>2, <2>5, <2>8 DEF Sweep
    <3>2. v \in OuterVisits(x, Neighbour(L, i, a, 1), a, 1)
      BY <1>3, <2>4, <2>5, <2>6, <2>8 DEF OuterVisits
    <3> QED
      BY <2>2, <2>3, <3>1, <3>2
  <2> QED
    BY <2>7, <2>8
<1>6. CASE k.s = -1
  <2>1. /\ n = c + 2 * a /\ p[a] = 0 /\ Neighbour(L, i, a, -1) = Outside
        /\ ~ IsInner(k)
    BY <1>1, <1>6 DEF SlotAt, IsInner
  <2>2. n \in Slot /\ n \notin Positive /\ AxisOf(n) = a /\ n \in c .. c + 6 /\ n # c
    BY <1>2, <2>1, SlotsOfAxis
  <2> HIDE DEF n
  <2>3. x \in HydroTask(L)
    BY <1>2, <2>1, <2>2, TaskSlots
  <2>4. CellIndex(p) = 0 + Offset(a, At(p, a)) /\ Across(L, i, p, a, -1) = Boundary
    BY <1>2, <2>1, FaceCellIndex, AcrossBoundary
  <2>5. SideOf(n) = -1 /\ x[1] = i /\ x[2] = n /\ -1 # 1
    BY <2>2 DEF SideOf
  <2>6. v = [task |-> x, at |-> At(p, a), axis |-> a, side |-> -1,
             left |-> <<i, CellIndex(p)>>, right |-> Across(L, i, p, a, -1)]
    BY <1>6, <2>1 DEF VisitAt, n
  <2> HIDE DEF x, v, i, p, a
  <2>7. Sweep(L, x, c) = GhostVisits(x, a, -1)
    BY <2>1, <2>2, <2>5 DEF Sweep
  <2>8. v \in GhostVisits(x, a, -1)
    BY <1>3, <2>4, <2>5, <2>6 DEF GhostVisits
  <2> QED
    BY <2>2, <2>3, <2>7, <2>8
<1> QED
  BY <1>2, <1>4, <1>5, <1>6

(* And nothing else is.                                                    *)
LEMMA VisitIsInterface ==
  ASSUME NEW L \in Layouts, NEW c \in {0, 9}, NEW v \in Visits(L, c)
  PROVE  \E k \in Keys(L) : v = VisitAt(L, c, k)
<1>1. PICK x \in HydroTask(L) : x[2] \in c .. c + 6 /\ v \in Sweep(L, x, c)
  BY DEF Visits
<1> DEFINE i == x[1]
           n == x[2]
<1>2. x = <<i, n>> /\ i \in Subgrids(L) /\ n \in Slot
  <2>1. x \in Subgrids(L) \X Slot
    BY DEF HydroTask
  <2> QED
    BY <2>1
<1>3. n \in Negative => Neighbour(L, i, AxisOf(n), -1) = Outside
  BY DEF HydroTask
<1> HIDE DEF i, n
<1>4. CASE n = c
  <2>1. v \in InnerVisits(x)
    BY <1>1, <1>4 DEF Sweep, n
  <2>2. PICK a \in Axis, p \in LocalCells :
          /\ p[a] < Cells[a] - 1
          /\ v = [task |-> x, at |-> p, axis |-> a, side |-> 1,
                  left |-> <<x[1], CellIndex(p)>>,
                  right |-> <<x[1], CellIndex([p EXCEPT ![a] = @ + 1])>>]
    BY <2>1 DEF InnerVisits
  <2> DEFINE k == [i |-> i, p |-> p, a |-> a, s |-> 1]
  <2>3. /\ k \in [i : Subgrids(L), p : LocalCells, a : Axis, s : {-1, 1}]
        /\ k.i = i /\ k.p = p /\ k.a = a /\ k.s = 1 /\ k.s # -1
    BY <1>2
  <2> HIDE DEF k
  <2>4. k \in Keys(L)
    BY <2>3 DEF Keys
  <2>5. IsInner(k) /\ SlotAt(c, k) = c
    BY <2>2, <2>3 DEF IsInner, SlotAt
  <2>6. Across(L, i, p, a, 1) = <<i, CellIndex([p EXCEPT ![a] = @ + 1])>>
    BY <1>2, <2>2, AcrossIs
  <2>7. VisitAt(L, c, k) =
          [task |-> <<i, c>>, at |-> p, axis |-> a, side |-> 1,
           left |-> <<i, CellIndex(p)>>, right |-> Across(L, i, p, a, 1)]
    BY <2>3, <2>5 DEF VisitAt
  <2>8. x = <<i, c>> /\ x[1] = i
    BY <1>2, <1>4
  <2>9. v = VisitAt(L, c, k)
    BY <2>2, <2>6, <2>7, <2>8
  <2> QED
    BY <2>4, <2>9
<1>5. CASE n # c /\ n \in Positive
  <2> DEFINE a == AxisOf(n)
             j == Neighbour(L, i, a, 1)
  <2>1. a \in Axis /\ n = c + 2 * a - 1 /\ SideOf(n) = 1
    BY <1>1, <1>5, AxisOfSlot DEF n
  <2> HIDE DEF a
  <2>2. v \in IF j = Outside THEN GhostVisits(x, a, 1) ELSE OuterVisits(x, j, a, 1)
    BY <1>1, <1>5, <2>1 DEF Sweep, n, a, i
  <2>3. \E q \in FaceLoop(a) :
          v = [task |-> x, at |-> q, axis |-> a, side |-> 1,
               left |-> <<i, Face(a).start + Offset(a, q)>>,
               right |-> IF j = Outside THEN Boundary ELSE <<j, Offset(a, q)>>]
    <3>1. CASE j = Outside
      <4>1. v \in GhostVisits(x, a, 1)
        BY <2>2, <3>1
      <4>2. PICK q \in FaceLoop(a) :
              v = [task |-> x, at |-> q, axis |-> a, side |-> 1,
                   left |-> <<x[1], (IF 1 = 1 THEN Face(a).start ELSE 0) + Offset(a, q)>>,
                   right |-> Boundary]
        BY <4>1 DEF GhostVisits
      <4> QED
        BY <3>1, <4>2 DEF i
    <3>2. CASE j # Outside
      <4>1. v \in OuterVisits(x, j, a, 1)
        BY <2>2, <3>2
      <4>2. PICK q \in FaceLoop(a) :
              v = [task |-> x, at |-> q, axis |-> a, side |-> 1,
                   left |-> <<x[1], Face(a).start + Offset(a, q)>>,
                   right |-> <<j, Offset(a, q)>>]
        <5> HIDE DEF j
        <5> QED
          BY <4>1 DEF OuterVisits
      <4> QED
        BY <3>2, <4>2 DEF i
    <3> QED
      BY <3>1, <3>2
  <2>4. PICK q \in FaceLoop(a) :
          v = [task |-> x, at |-> q, axis |-> a, side |-> 1,
               left |-> <<i, Face(a).start + Offset(a, q)>>,
               right |-> IF j = Outside THEN Boundary ELSE <<j, Offset(a, q)>>]
    BY <2>3
  <2>5. Cells[a] \in Nat \ {0} /\ Cells[a] - 1 \in 0 .. Cells[a] - 1
    BY <2>1, CellsType DEF Axis
  <2>6. PICK p \in LocalCells : p[a] = Cells[a] - 1 /\ At(p, a) = q
    BY <2>1, <2>5, FaceCellAt
  <2> DEFINE k == [i |-> i, p |-> p, a |-> a, s |-> 1]
  <2>7. /\ k \in [i : Subgrids(L), p : LocalCells, a : Axis, s : {-1, 1}]
        /\ k.i = i /\ k.p = p /\ k.a = a /\ k.s = 1 /\ k.s # -1
    BY <1>2, <2>1
  <2> HIDE DEF k
  <2>8. k \in Keys(L)
    BY <2>7 DEF Keys
  <2>9. ~ IsInner(k) /\ SlotAt(c, k) = n
    BY <2>1, <2>5, <2>6, <2>7 DEF IsInner, SlotAt
  <2>10. CellIndex(p) = Face(a).start + Offset(a, q)
    BY <2>1, <2>6, FaceCellIndex
  <2>11. Across(L, i, p, a, 1) = IF j = Outside THEN Boundary ELSE <<j, Offset(a, q)>>
    BY <1>2, <2>1, <2>6, AcrossIs
  <2>12. VisitAt(L, c, k) =
           [task |-> <<i, n>>, at |-> At(p, a), axis |-> a, side |-> 1,
            left |-> <<i, CellIndex(p)>>, right |-> Across(L, i, p, a, 1)]
    BY <2>7, <2>9 DEF VisitAt
  <2> HIDE DEF j
  <2>13. v = VisitAt(L, c, k)
    BY <1>2, <2>4, <2>6, <2>10, <2>11, <2>12
  <2> QED
    BY <2>8, <2>13
<1>6. CASE n # c /\ n \notin Positive
  <2> DEFINE a == AxisOf(n)
  <2>1. a \in Axis /\ n \in Negative /\ n = c + 2 * a /\ SideOf(n) = -1
    BY <1>1, <1>6, AxisOfSlot DEF n
  <2>2. Neighbour(L, i, a, -1) = Outside
    BY <1>3, <2>1
  <2> HIDE DEF a
  <2>3. v \in GhostVisits(x, a, -1)
    BY <1>1, <1>6, <2>1, <2>2 DEF Sweep, n, a, i
  <2>4. PICK q \in FaceLoop(a) :
          v = [task |-> x, at |-> q, axis |-> a, side |-> -1,
               left |-> <<i, 0 + Offset(a, q)>>, right |-> Boundary]
    BY <2>3 DEF GhostVisits, i
  <2>5. Cells[a] \in Nat \ {0} /\ 0 \in 0 .. Cells[a] - 1
    BY <2>1, CellsType DEF Axis
  <2>6. PICK p \in LocalCells : p[a] = 0 /\ At(p, a) = q
    BY <2>1, <2>5, FaceCellAt
  <2> DEFINE k == [i |-> i, p |-> p, a |-> a, s |-> -1]
  <2>7. /\ k \in [i : Subgrids(L), p : LocalCells, a : Axis, s : {-1, 1}]
        /\ k.i = i /\ k.p = p /\ k.a = a /\ k.s = -1 /\ k.s # 1
    BY <1>2, <2>1
  <2> HIDE DEF k
  <2>8. k \in Keys(L)
    BY <2>2, <2>6, <2>7 DEF Keys
  <2>9. ~ IsInner(k) /\ SlotAt(c, k) = n
    BY <2>1, <2>7 DEF IsInner, SlotAt
  <2>10. CellIndex(p) = 0 + Offset(a, q)
    BY <2>1, <2>6, FaceCellIndex
  <2>11. Across(L, i, p, a, -1) = Boundary
    BY <1>2, <2>1, <2>2, <2>6, AcrossBoundary
  <2>12. VisitAt(L, c, k) =
           [task |-> <<i, n>>, at |-> At(p, a), axis |-> a, side |-> -1,
            left |-> <<i, CellIndex(p)>>, right |-> Across(L, i, p, a, -1)]
    BY <2>7, <2>9 DEF VisitAt
  <2>13. v = VisitAt(L, c, k)
    BY <1>2, <2>4, <2>6, <2>10, <2>11, <2>12
  <2> QED
    BY <2>8, <2>13
<1> QED
  BY <1>4, <1>5, <1>6

(* The visits and the interfaces are in correspondence.                    *)
LEMMA VisitsMatch ==
  ASSUME NEW L \in Layouts, NEW c \in {0, 9}
  PROVE  /\ {InterfaceOf(v) : v \in Visits(L, c)} = Interfaces(L)
         /\ Cardinality(Visits(L, c)) = Cardinality(Interfaces(L))
<1> DEFINE V == Visits(L, c)
           F == Interfaces(L)
<1>1. \A k \in Keys(L) : InterfaceOf(VisitAt(L, c, k)) = InterfaceAt(L, k)
  BY DEF InterfaceOf, VisitAt, InterfaceAt
<1>2. F = {InterfaceAt(L, k) : k \in Keys(L)}
  BY InterfacesAre
<1>3. \A v \in V : \E k \in Keys(L) : v = VisitAt(L, c, k)
  BY VisitIsInterface
<1>4. \A k \in Keys(L) : VisitAt(L, c, k) \in V
  BY InterfaceVisited
<1> HIDE DEF V, F
<1>5. \A v \in V : InterfaceOf(v) \in F
  BY <1>1, <1>2, <1>3
<1>6. \A e \in F : \E v \in V : e = InterfaceOf(v)
  BY <1>1, <1>2, <1>4
<1>7. ASSUME NEW v \in V, NEW w \in V, InterfaceOf(v) = InterfaceOf(w) PROVE v = w
  <2>1. PICK k \in Keys(L) : v = VisitAt(L, c, k)
    BY <1>3
  <2>2. PICK m \in Keys(L) : w = VisitAt(L, c, m)
    BY <1>3
  <2>3. InterfaceAt(L, k) = InterfaceAt(L, m)
    BY <1>1, <1>7, <2>1, <2>2
  <2>4. k = m
    BY <2>3, InterfacesDiffer
  <2> QED
    BY <2>1, <2>2, <2>4
<1> DEFINE f == [v \in V |-> InterfaceOf(v)]
<1>8. f \in Bijection(V, F)
  <2>1. f \in [V -> F]
    BY <1>5
  <2>2. \A e \in F : \E v \in V : f[v] = e
    BY <1>6
  <2>3. \A v, w \in V : f[v] = f[w] => v = w
    BY <1>7
  <2> HIDE DEF f
  <2> QED
    BY <2>1, <2>2, <2>3 DEF Bijection, Injection, Surjection, IsInjective
<1>9. IsFiniteSet(F)
  BY InterfacesFinite DEF F
<1> HIDE DEF f
<1>10. Cardinality(V) = Cardinality(F)
  <2>1. f \in Injection(V, F) /\ f \in Surjection(V, F)
    BY <1>8 DEF Bijection
  <2> QED
    BY <1>9, <2>1, FS_Injection
<1>11. {InterfaceOf(v) : v \in V} = F
  BY <1>5, <1>6
<1> QED
  BY <1>10, <1>11 DEF V, F

(* In every step the gradient sweeps visit each interface between two      *)
(* cells, or between a cell and the boundary, exactly once, and so do the  *)
(* flux sweeps: whatever the number of subgrids and of cells along each    *)
(* axis, and whichever axes are periodic.                                  *)
THEOREM InterfacesOnce == Spec => []EachInterfaceOnce
<1>1. GraphOK => EachInterfaceOnce
  <2> SUFFICES ASSUME GraphOK PROVE EachInterfaceOnce
    OBVIOUS
  <2> DEFINE g == UNION {GradientSweep(layout, x) : x \in {y \in Tasks : y[2] \in Gradient}}
             f == UNION {FluxSweep(layout, x) : x \in {y \in Tasks : y[2] \in Flux}}
  <2>1. layout \in Layouts /\ Tasks = HydroTask(layout)
    BY TasksAre DEF GraphOK
  <2>2. g = Visits(layout, 0)
    <3>1. Gradient = 0 .. 0 + 6
      BY DEF Gradient
    <3> QED
      BY <2>1, <3>1 DEF Visits, Sweep, GradientSweep
  <2>3. f = Visits(layout, 9)
    <3>1. Flux = 9 .. 9 + 6
      BY DEF Flux
    <3> QED
      BY <2>1, <3>1 DEF Visits, Sweep, FluxSweep
  <2> HIDE DEF g, f
  <2>4. \A visits \in {g, f} :
          /\ {InterfaceOf(v) : v \in visits} = Interfaces(layout)
          /\ Cardinality(visits) = Cardinality(Interfaces(layout))
    <3>1. 0 \in {0, 9} /\ 9 \in {0, 9}
      OBVIOUS
    <3> QED
      BY <2>1, <2>2, <2>3, <3>1, VisitsMatch
  <2> QED
    BY <2>4 DEF EachInterfaceOnce, g, f
<1> QED
  BY <1>1, GraphInvariant, PTL

-----------------------------------------------------------------------------
(* 8. The graph and the scheduler. *)

(* What the graph is for the scheduler that executes it.                   *)

(* A set with at most n elements. *)
HasAtMost(S, n) == IsFiniteSet(S) /\ Cardinality(S) <= n

(* One more element makes a set larger by one at most. *)
LEMMA OneMore ==
  ASSUME NEW S, NEW n \in Nat \ {0}, HasAtMost(S, n - 1), NEW z
  PROVE  HasAtMost(S \cup {z}, n)
<1>1. Cardinality(S) \in Nat /\ IsFiniteSet(S) /\ Cardinality(S) <= n - 1
  BY FS_CardinalityType DEF HasAtMost
<1>2. CASE z \in S
  <2>1. S \cup {z} = S
    BY <1>2
  <2>2. Cardinality(S) <= n
    BY <1>1
  <2> QED
    BY <1>1, <2>1, <2>2, Zenon DEF HasAtMost
<1>3. CASE z \notin S
  <2>1. IsFiniteSet(S \cup {z}) /\ Cardinality(S \cup {z}) = Cardinality(S) + 1
    BY <1>1, <1>3, FS_AddElement
  <2>2. Cardinality(S) + 1 <= n
    BY <1>1
  <2> QED
    BY <2>1, <2>2, Zenon DEF HasAtMost
<1> QED
  BY <1>2, <1>3

(* A task unlocks at most seven others. *)
LEMMA SevenChildren ==
  ASSUME NEW L \in Layouts, NEW x \in HydroTask(L)
  PROVE  Len(ChildrenOf(L)[x]) <= 7
<1> DEFINE i == x[1]
           k == x[2]
           P == PlacesOf(Parents(AllEdges(L)), x, Size(L) * 23)
<1>1. x = <<i, k>> /\ i \in Subgrids(L) /\ k \in Slot
  <2>1. x \in Subgrids(L) \X Slot
    BY DEF HydroTask
  <2> QED
    BY <2>1
<1>2. i \in Nat /\ k \in Int /\ \A q \in Subgrids(L) : q \in Nat
  BY <1>1, SubgridsSize DEF Slot
<1>3. Len(ChildrenOf(L)[x]) = Cardinality(P)
  BY ChildrenAre DEF HoldsEdges
<1>4. ASSUME NEW h \in P
      PROVE  \E q \in Subgrids(L), j \in 1 .. 23 : h = q * 23 + j /\ EdgeAt(L, q, j)[1] = x
  <2>1. h \in 1 .. Size(L) * 23 /\ Parents(AllEdges(L))[h] = x
    BY DEF PlacesOf
  <2>2. h \in DOMAIN AllEdges(L)
    <3>1. AllEdges(L) \in Seq(HydroTask(L) \X HydroTask(L)) /\ Len(AllEdges(L)) = Size(L) * 23
      BY AllEdgesAre
    <3>2. DOMAIN AllEdges(L) = 1 .. Size(L) * 23
      BY <3>1
    <3> QED
      BY <2>1, <3>2
  <2>3. AllEdges(L)[h][1] = x
    BY <2>1, <2>2 DEF Parents
  <2>4. PICK q \in Subgrids(L), j \in 1 .. 23 : h = q * 23 + j /\ AllEdges(L)[h] = EdgeAt(L, q, j)
    BY <2>1, EdgeIsAt
  <2> QED
    BY <2>3, <2>4
<1> HIDE DEF i, k, P
<1>5. ASSUME NEW q \in Subgrids(L), NEW j \in 1 .. 23, EdgeAt(L, q, j)[1] = x
      PROVE  \/ k = Predict /\ q * 23 + j \in i * 23 + 9 .. i * 23 + 15
             \/ k # Predict /\ q * 23 + j \in
                  {i * 23 + 8, i * 23 + 23, i * 23 + (k + 1), Partner(L, x) * 23 + (k + 2),
                   i * 23 + (k + 7), Partner(L, x) * 23 + (k + 8)}
  <2>1. ASSUME NEW m \in Sweeps, SweepOf(L, q, m) = x
        PROVE  /\ k \in Sweeps
               /\ (q = i /\ m = k) \/ (q = Partner(L, x) /\ m = k + 1)
    <3>1. \/ <<q, m>> = x
          \/ m \in Negative /\ x[2] = m - 1 /\ Partner(L, x) = q
      BY <2>1, SweepIsTask
    <3>2. m \in Int /\ (m \in Negative => m - 1 \in Sweeps)
      BY FaceSlots DEF Slot
    <3> QED
      BY <1>1, <3>1, <3>2
  <2>2. Predict \notin Sweeps /\ Predict # Limiter /\ Predict # Conserved
    BY DEF Sweeps, Gradient, Flux, Predict, Limiter, Conserved
  <2>3. CASE j \in 1 .. 7
    <3>1. SweepOf(L, q, j - 1) = x /\ j - 1 \in Sweeps
      BY <1>5, <2>3 DEF EdgeAt, Sweeps, Gradient
    <3>2. k # Predict /\ ((q = i /\ j - 1 = k) \/ (q = Partner(L, x) /\ j - 1 = k + 1))
      BY <2>1, <2>2, <3>1
    <3>3. (q = i /\ j = k + 1) \/ (q = Partner(L, x) /\ j = k + 2)
      BY <1>2, <3>2
    <3> QED
      BY <3>2, <3>3
  <2>4. CASE j = 8
    <3>1. <<q, Limiter>> = x
      BY <1>5, <2>4 DEF EdgeAt
    <3> QED
      BY <1>1, <2>2, <2>4, <3>1
  <2>5. CASE j \in 9 .. 15
    <3>1. <<q, Predict>> = x
      BY <1>5, <2>5 DEF EdgeAt
    <3>2. q = i /\ k = Predict
      BY <1>1, <3>1
    <3> QED
      BY <1>2, <2>5, <3>2
  <2>6. CASE j \in 16 .. 22
    <3>1. SweepOf(L, q, j - 7) = x /\ j - 7 \in Sweeps
      BY <1>5, <2>6 DEF EdgeAt, Sweeps, Flux
    <3>2. k # Predict /\ ((q = i /\ j - 7 = k) \/ (q = Partner(L, x) /\ j - 7 = k + 1))
      BY <2>1, <2>2, <3>1
    <3>3. (q = i /\ j = k + 7) \/ (q = Partner(L, x) /\ j = k + 8)
      BY <1>2, <3>2
    <3> QED
      BY <3>2, <3>3
  <2>7. CASE j = 23
    <3>1. <<q, Conserved>> = x
      BY <1>5, <2>7 DEF EdgeAt
    <3> QED
      BY <1>1, <2>2, <2>7, <3>1
  <2> QED
    BY <2>3, <2>4, <2>5, <2>6, <2>7
<1>6. CASE k = Predict
  <2>1. P \subseteq i * 23 + 9 .. i * 23 + 15
    BY <1>4, <1>5, <1>6
  <2>2. i * 23 + 9 \in Int /\ i * 23 + 15 \in Int
    BY <1>2
  <2>3. /\ IsFiniteSet(i * 23 + 9 .. i * 23 + 15)
        /\ Cardinality(i * 23 + 9 .. i * 23 + 15) =
             IF i * 23 + 9 > i * 23 + 15 THEN 0 ELSE (i * 23 + 15) - (i * 23 + 9) + 1
    BY <2>2, FS_Interval
  <2>4. Cardinality(P) <= Cardinality(i * 23 + 9 .. i * 23 + 15)
    BY <2>1, <2>3, FS_Subset
  <2>5. Cardinality(i * 23 + 9 .. i * 23 + 15) = 7
    BY <1>2, <2>3
  <2> QED
    BY <1>3, <2>4, <2>5
<1>7. CASE k # Predict
  <2> DEFINE a == i * 23 + 8
             b == i * 23 + 23
             c == i * 23 + (k + 1)
             d == Partner(L, x) * 23 + (k + 2)
             e == i * 23 + (k + 7)
             f == Partner(L, x) * 23 + (k + 8)
  <2>1. P \subseteq {a, b, c, d, e, f}
    BY <1>4, <1>5, <1>7
  <2> HIDE DEF a, b, c, d, e, f
  <2>2. IsFiniteSet({a, b, c, d, e, f}) /\ Cardinality({a, b, c, d, e, f}) <= 6
    <3> DEFINE A == {a}
               B == A \cup {b}
               C == B \cup {c}
               D == C \cup {d}
               E == D \cup {e}
               F == E \cup {f}
    <3>1. HasAtMost(A, 1)
      <4>1. IsFiniteSet({a}) /\ Cardinality({a}) = 1
        BY FS_Singleton
      <4>2. 1 <= 1
        OBVIOUS
      <4> QED
        BY <4>1, <4>2 DEF HasAtMost
    <3>2. HasAtMost(B, 2)
      <4> HIDE DEF A
      <4>1. 2 \in Nat \ {0} /\ HasAtMost(A, 2 - 1)
        BY <3>1
      <4> QED
        BY <4>1, OneMore
    <3>3. HasAtMost(C, 3)
      <4> HIDE DEF B
      <4>1. 3 \in Nat \ {0} /\ HasAtMost(B, 3 - 1)
        BY <3>2
      <4> QED
        BY <4>1, OneMore
    <3>4. HasAtMost(D, 4)
      <4> HIDE DEF C
      <4>1. 4 \in Nat \ {0} /\ HasAtMost(C, 4 - 1)
        BY <3>3
      <4> QED
        BY <4>1, OneMore
    <3>5. HasAtMost(E, 5)
      <4> HIDE DEF D
      <4>1. 5 \in Nat \ {0} /\ HasAtMost(D, 5 - 1)
        BY <3>4
      <4> QED
        BY <4>1, OneMore
    <3>6. HasAtMost(F, 6)
      <4> HIDE DEF E
      <4>1. 6 \in Nat \ {0} /\ HasAtMost(E, 6 - 1)
        BY <3>5
      <4> QED
        BY <4>1, OneMore
    <3>7. F = {a, b, c, d, e, f}
      OBVIOUS
    <3> QED
      BY <3>6, <3>7 DEF HasAtMost
  <2>3. Cardinality(P) \in Nat /\ Cardinality(P) <= Cardinality({a, b, c, d, e, f})
        /\ Cardinality({a, b, c, d, e, f}) \in Nat
    BY <2>1, <2>2, FS_Subset, FS_CardinalityType
  <2> QED
    BY <1>3, <2>2, <2>3
<1> QED
  BY <1>6, <1>7

(* The graph of every layout is one that TaskScheduler assumes: at most    *)
(* two locks and seven children, and no cycle.                             *)
THEOREM GraphFitsScheduler ==
  ASSUME NEW L \in Layouts
  PROVE  /\ IsFiniteSet(HydroTask(L))
         /\ \A x \in HydroTask(L) :
              /\ Dependencies(L, x) \in Seq(Subgrids(L)) /\ Len(Dependencies(L, x)) <= 2
              /\ x[1] \in Subgrids(L)
         /\ ChildrenOf(L) \in [HydroTask(L) -> Seq(HydroTask(L))]
         /\ \A x \in HydroTask(L) : Len(ChildrenOf(L)[x]) <= 7
         /\ \A S \in SUBSET HydroTask(L) :
              S # {} => \E x \in S : \A y \in S : x \notin ToSet(ChildrenOf(L)[y])
<1>1. IsFiniteSet(HydroTask(L))
  <2>1. IsFiniteSet(Subgrids(L)) /\ IsFiniteSet(Slot)
    <3>1. \A a, b \in Int : IsFiniteSet(a .. b)
      BY FS_Interval
    <3>2. 0 \in Int /\ 17 \in Int
      OBVIOUS
    <3>3. IsFiniteSet(Slot)
      BY <3>1, <3>2, Zenon DEF Slot
    <3>4. IsFiniteSet(Subgrids(L))
      BY SubgridsSize
    <3> QED
      BY <3>3, <3>4
  <2>2. IsFiniteSet(Subgrids(L) \X Slot)
    BY <2>1, FS_Product
  <2>3. HydroTask(L) \subseteq Subgrids(L) \X Slot
    BY DEF HydroTask
  <2> QED
    BY <2>2, <2>3, FS_Subset
<1>2. ASSUME NEW x \in HydroTask(L)
      PROVE  /\ Dependencies(L, x) \in Seq(Subgrids(L)) /\ Len(Dependencies(L, x)) <= 2
             /\ x[1] \in Subgrids(L)
  <2>1. x[1] \in Subgrids(L) /\ x[2] \in Slot
    <3>1. x \in Subgrids(L) \X Slot
      BY DEF HydroTask
    <3> QED
      BY <3>1
  <2>2. Partner(L, x) = Outside \/ Partner(L, x) \in Subgrids(L)
    <3>1. Partner(L, x) # Outside => x[2] \in Positive
      BY DEF Partner
    <3>2. x[2] \in Positive => x[2] \in Sweeps
      BY <2>1, PhaseSlots
    <3> QED
      BY <3>1, <3>2, SweepOfPartner
  <2> DEFINE i == x[1]
             p == Partner(L, x)
  <2>3. Dependencies(L, x) = <<i>> \/ (p # Outside /\ Dependencies(L, x) \in {<<i, p>>, <<p, i>>})
    BY DEF Dependencies
  <2> HIDE DEF i, p
  <2>4. i \in Subgrids(L) /\ (p # Outside => p \in Subgrids(L))
    BY <2>1, <2>2 DEF i, p
  <2>5. Dependencies(L, x) \in Seq(Subgrids(L)) /\ Len(Dependencies(L, x)) <= 2
    <3> DEFINE T == Subgrids(L)
    <3>1. i \in T /\ (p # Outside => p \in T)
      BY <2>4
    <3> HIDE DEF T
    <3>2. \A a, b \in T : /\ <<a>> \in Seq(T) /\ Len(<<a>>) = 1
                         /\ <<a, b>> \in Seq(T) /\ Len(<<a, b>>) = 2
      OBVIOUS
    <3>3. Dependencies(L, x) \in Seq(T) /\ (Len(Dependencies(L, x)) = 1 \/ Len(Dependencies(L, x)) = 2)
      BY <2>3, <3>1, <3>2
    <3>4. Len(Dependencies(L, x)) <= 2
      <4>1. 1 <= 2 /\ 2 <= 2
        OBVIOUS
      <4> QED
        BY <3>3, <4>1, Zenon
    <3> QED
      BY <3>3, <3>4 DEF T
  <2> QED
    BY <2>1, <2>5
<1>3. ChildrenOf(L) \in [HydroTask(L) -> Seq(HydroTask(L))]
  BY ChildrenAre DEF HoldsEdges
<1>4. ASSUME NEW S \in SUBSET HydroTask(L), S # {}
      PROVE  \E x \in S : \A y \in S : x \notin ToSet(ChildrenOf(L)[y])
  <2>1. \A x \in HydroTask(L) : PhaseOf(x[2]) \in 1 .. 6
    <3>1. \A x \in HydroTask(L) : x[2] \in Slot
      BY DEF HydroTask
    <3> QED
      BY <3>1, PhaseSlots
  <2> DEFINE B == {PhaseOf(x[2]) : x \in S}
  <2>2. PICK n \in B : \A m \in B : n <= m
    <3>1. B \in SUBSET Nat /\ B # {}
      BY <1>4, <2>1
    <3> HIDE DEF B
    <3> QED
      BY <3>1, LeastNumber
  <2>3. PICK x \in S : PhaseOf(x[2]) = n
    BY <2>2
  <2>4. ASSUME NEW y \in S, x \in ToSet(ChildrenOf(L)[y]) PROVE FALSE
    <3>1. PICK i \in Subgrids(L), j \in 1 .. 23 : EdgeAt(L, i, j) = <<y, x>>
      BY <2>4, ChildByEdge
    <3>2. PhaseOf(EdgeAt(L, i, j)[2][2]) = PhaseOf(EdgeAt(L, i, j)[1][2]) + 1
      BY EdgePhase
    <3>3. PhaseOf(x[2]) = PhaseOf(y[2]) + 1
      BY <3>1, <3>2
    <3>4. PhaseOf(y[2]) \in Int /\ PhaseOf(x[2]) <= PhaseOf(y[2])
      BY <2>1, <2>2, <2>3
    <3> QED
      BY <3>3, <3>4
  <2> QED
    BY <2>4
<1> QED
  BY <1>1, <1>2, <1>3, <1>4, SevenChildren
=============================================================================
