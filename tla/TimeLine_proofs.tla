---------------------------- MODULE TimeLine_proofs ----------------------------
(***************************************************************************)
(* Proofs about TimeLine, for every size of the time line, every sequence  *)
(* of requests and every number of crashes.                                *)
(***************************************************************************)
EXTENDS TimeLine, WellFoundedInduction, TLAPS

(* The loop goes on only with a step that was accepted, and a dump has the *)
(* time that was covered and the step that is pending: it is written at    *)
(* the end of the body, after the next step was computed.                  *)
Pending ==
  /\ hasNext \/ pc = "advance" => ~ early
  /\ disk # <<>> =>
       /\ disk.hasNext => ~ disk.early
       /\ ~ disk.early => disk.covered + disk.actual = disk.current

Inv == Accounted /\ Pending

(* Nothing is covered before the first step. *)
LEMMA AccountedInit == Init => Inv
  BY DEF Init, Inv, Accounted, Pending

(* A step that is computed is added to the current time at once, and to    *)
(* the covered time when it is executed; a dump saves both.                *)
LEMMA AccountedNext == Inv /\ [Next]_vars => Inv'
<1> SUFFICES ASSUME Inv, [Next]_vars PROVE Inv'
  OBVIOUS
<1> USE DEF Inv, Accounted, Pending
<1>1. ASSUME NEW t \in Requests, Advance(t) PROVE Inv'
  <2> DEFINE step == IF RoundDown(maximum, t) = 0 THEN 0
                     ELSE Fit(RoundDown(maximum, t), Size - current)
  <2>1. /\ pc = "advance" /\ pc' \in {"loop", "dump"}
        /\ covered' = covered /\ disk' = disk
        /\ \/ hasNext' = FALSE /\ early' = TRUE
           \/ current' = current + step /\ actual' = step /\ early' = early
    BY <1>1 DEF Advance
  <2> HIDE DEF step
  <2>2. Accounted'
    BY <2>1
  <2>3. ~ early /\ (hasNext' => early' = early)
    BY <1>1 DEF Advance
  <2> QED
    BY <2>1, <2>2, <2>3
<1>2. CASE Dump
  BY <1>2 DEF Dump, Saved, state
<1>3. CASE Step
  BY <1>3 DEF Step
<1>4. CASE End
  BY <1>4 DEF End, state
<1>5. CASE Restart
  BY <1>5 DEF Restart, StoredStep
<1>6. CASE UNCHANGED vars
  BY <1>6 DEF vars
<1> QED
  BY <1>1, <1>2, <1>3, <1>4, <1>5, <1>6 DEF Next

(* No time is covered twice or left out, whatever is requested and however *)
(* often the simulation is restarted from a dump.                          *)
THEOREM TimeAccounted == Spec => []Accounted
<1>1. Inv => Accounted
  BY DEF Inv
<1> QED
  BY <1>1, AccountedInit, AccountedNext, PTL DEF Spec

-----------------------------------------------------------------------------
(* Numbers and powers of two.                                              *)
(* An induction over a number is an argument about the least one for       *)
(* which a fact fails.                                                     *)

(* A nonempty set of natural numbers has a least element. *)
LEMMA LeastNumber ==
  ASSUME NEW B \in SUBSET Nat, B # {}
  PROVE  \E n \in B : \A m \in B : n <= m
<1>1. PICK n \in B : \A m \in B : ~ (<<m, n>> \in OpToRel(<, Nat))
  BY NatLessThanWellFounded, WFMin
<1>2. \A m \in B : <<m, n>> \in OpToRel(<, Nat) <=> m < n
  <2>1. \A m \in B : m \in Nat /\ n \in Nat
    OBVIOUS
  <2> QED
    BY <2>1, Zenon DEF OpToRel
<1>3. \A m \in B : ~ (m < n)
  BY <1>1, <1>2, Zenon
<1> QED
  BY <1>3

(* A nonempty set of natural numbers below a bound has a maximum. *)
LEMMA MaximumIs ==
  ASSUME NEW S \in SUBSET Nat, S # {}, NEW n \in Nat, \A x \in S : x <= n
  PROVE  Max(S) \in S /\ \A x \in S : x <= Max(S)
<1> DEFINE B == {b \in Nat : \A x \in S : x <= b}
<1>1. PICK m \in B : \A b \in B : m <= b
  <2>1. B \in SUBSET Nat /\ n \in B
    OBVIOUS
  <2> HIDE DEF B
  <2> QED
    BY <2>1, LeastNumber
<1>2. m \in Nat /\ \A x \in S : x <= m
  BY <1>1
<1>3. m \in S
  <2> SUFFICES ASSUME m \notin S PROVE FALSE
    OBVIOUS
  <2>1. \A x \in S : x \in Nat /\ x < m
    BY <1>2
  <2>2. m - 1 \in Nat
    <3>1. PICK x \in S : TRUE
      OBVIOUS
    <3> QED
      BY <1>2, <2>1, <3>1
  <2>4. \A x \in S : x <= m - 1
    BY <1>2, <2>1
  <2>3. m - 1 \in B
    BY <2>2, <2>4
  <2> HIDE DEF B
  <2> QED
    BY <1>1, <1>2, <2>3
<1>4. \A x \in S : m >= x
  BY <1>2
<1>5. \E x \in S : \A y \in S : x >= y
  BY <1>3, <1>4
<1>6. Max(S) \in S /\ \A y \in S : Max(S) >= y
  BY <1>5, Zenon DEF Max
<1> QED
  BY <1>6

-----------------------------------------------------------------------------
(* G holds the powers of two up to the n-th. *)
Doubles(G, n) == G = [k \in 0 .. n |-> IF k = 0 THEN 1 ELSE 2 * G[k - 1]]

(* There are such functions. *)
LEMMA DoublesExist ==
  ASSUME NEW n \in Nat
  PROVE  \E G : Doubles(G, n)
<1> DEFINE B == {m \in Nat : ~ \E G : Doubles(G, m)}
<1> SUFFICES ASSUME B # {} PROVE FALSE
  OBVIOUS
<1>1. PICK m \in B : \A k \in B : m <= k
  <2>1. B \in SUBSET Nat
    OBVIOUS
  <2> HIDE DEF B
  <2> QED
    BY <2>1, LeastNumber
<1>2. m # 0
  <2>1. Doubles([k \in 0 .. 0 |-> 1], 0)
    BY DEF Doubles
  <2> QED
    BY <2>1, <1>1
<1>3. m \in Nat \ {0} /\ m - 1 \in Nat /\ m - 1 \notin B
  BY <1>1, <1>2
<1>4. PICK G : Doubles(G, m - 1)
  BY <1>3
<1> DEFINE H == [k \in 0 .. m |-> IF k = m THEN 2 * G[m - 1] ELSE G[k]]
<1>5. \A k \in 0 .. m - 1 : G[k] = IF k = 0 THEN 1 ELSE 2 * G[k - 1]
  BY <1>4 DEF Doubles
<1>6. \A k \in 0 .. m : H[k] = IF k = 0 THEN 1 ELSE 2 * H[k - 1]
  <2> TAKE k \in 0 .. m
  <2>1. CASE k = m
    BY <1>3, <2>1
  <2>2. CASE k # m
    <3>1. k \in 0 .. m - 1 /\ (k # 0 => k - 1 \in 0 .. m - 1 /\ k - 1 # m)
      BY <1>3, <2>2
    <3> QED
      BY <1>3, <1>5, <2>2, <3>1
  <2> QED
    BY <2>1, <2>2
<1>7. H = [k \in 0 .. m |-> IF k = 0 THEN 1 ELSE 2 * H[k - 1]]
  <2>1. H = [k \in 0 .. m |-> H[k]]
    OBVIOUS
  <2> HIDE DEF H
  <2> QED
    BY <1>6, <2>1
<1>8. Doubles(H, m)
  BY <1>7 DEF Doubles
<1> QED
  BY <1>1, <1>8

(* Every power is twice the one before it. *)
LEMMA Powers ==
  /\ Pow2[0] = 1
  /\ \A k \in 0 .. Bits : Pow2[k + 1] = 2 * Pow2[k]
  /\ \A k \in 0 .. Bits + 1 : Pow2[k] \in Nat \ {0}
<1>1. Bits \in Nat /\ Bits + 1 \in Nat
  BY TimeAssumption
<1>2. Pow2 = [k \in 0 .. Bits + 1 |-> IF k = 0 THEN 1 ELSE 2 * Pow2[k - 1]]
  <2>1. \E G : G = [k \in 0 .. Bits + 1 |-> IF k = 0 THEN 1 ELSE 2 * G[k - 1]]
    BY <1>1, DoublesExist DEF Doubles
  <2> QED
    BY <2>1, Zenon DEF Pow2
<1> HIDE DEF Pow2
<1>3. \A k \in 0 .. Bits + 1 : Pow2[k] = IF k = 0 THEN 1 ELSE 2 * Pow2[k - 1]
  BY <1>2, Zenon
<1>4. Pow2[0] = 1
  BY <1>1, <1>3
<1>5. ASSUME NEW k \in 0 .. Bits PROVE Pow2[k + 1] = 2 * Pow2[k]
  <2>1. k + 1 \in 0 .. Bits + 1 /\ k + 1 # 0 /\ k + 1 - 1 = k
    BY <1>1
  <2> QED
    BY <1>3, <2>1
<1> DEFINE B == {k \in Nat : k \in 0 .. Bits + 1 /\ Pow2[k] \notin Nat \ {0}}
<1>6. B = {}
  <2> SUFFICES ASSUME B # {} PROVE FALSE
    OBVIOUS
  <2>1. PICK m \in B : \A k \in B : m <= k
    <3>1. B \in SUBSET Nat
      OBVIOUS
    <3> HIDE DEF B
    <3> QED
      BY <3>1, LeastNumber
  <2>2. m # 0
    BY <1>4, <2>1
  <2>3. m - 1 \in Nat /\ m - 1 \in 0 .. Bits /\ m - 1 + 1 = m /\ m - 1 \in 0 .. Bits + 1
    BY <1>1, <2>1, <2>2
  <2>4. m - 1 \notin B
    <3> HIDE DEF B
    <3> QED
      BY <2>1, <2>3
  <2>5. Pow2[m - 1] \in Nat \ {0} /\ Pow2[m] = 2 * Pow2[m - 1]
    BY <1>5, <2>3, <2>4
  <2> QED
    BY <2>1, <2>5
<1> QED
  BY <1>1, <1>4, <1>5, <1>6

(* Adding exponents multiplies powers: by the least second exponent for    *)
(* which it does not.                                                      *)
LEMMA PowersMultiply ==
  ASSUME NEW a \in Nat, NEW b \in Nat, a + b <= Bits + 1
  PROVE  Pow2[a + b] = Pow2[a] * Pow2[b]
<1>1. Bits \in Nat
  BY TimeAssumption
<1> HIDE DEF Pow2
<1> DEFINE B == {c \in Nat : a + c <= Bits + 1 /\ Pow2[a + c] # Pow2[a] * Pow2[c]}
<1> SUFFICES ASSUME B # {} PROVE FALSE
  OBVIOUS
<1>2. PICK m \in B : \A k \in B : m <= k
  <2>1. B \in SUBSET Nat
    OBVIOUS
  <2> HIDE DEF B
  <2> QED
    BY <2>1, LeastNumber
<1>3. Pow2[a] \in Nat
  BY <1>1, Powers
<1>4. m # 0
  BY <1>2, <1>3, Powers
<1>5. /\ m - 1 \in Nat /\ a + (m - 1) <= Bits + 1 /\ m - 1 \in 0 .. Bits /\ m - 1 + 1 = m
      /\ a + (m - 1) \in 0 .. Bits /\ a + (m - 1) + 1 = a + m /\ m - 1 \in 0 .. Bits + 1
  BY <1>1, <1>2, <1>4
<1>6. m - 1 \notin B
  <2> HIDE DEF B
  <2> QED
    BY <1>2, <1>5
<1>7. Pow2[a + (m - 1)] = Pow2[a] * Pow2[m - 1]
  BY <1>5, <1>6
<1>8. Pow2[a + m] = 2 * Pow2[a + (m - 1)] /\ Pow2[m] = 2 * Pow2[m - 1]
  BY <1>5, Powers
<1>9. Pow2[m - 1] \in Nat
  BY <1>5, Powers
<1>10. 2 * (Pow2[a] * Pow2[m - 1]) = Pow2[a] * (2 * Pow2[m - 1])
  BY <1>3, <1>9
<1> QED
  BY <1>2, <1>7, <1>8, <1>10

(* A number times another one: what is left, and how often it goes in.     *)
LEMMA Multiple ==
  ASSUME NEW q \in Nat, NEW m \in Nat \ {0}
  PROVE  (q * m) % m = 0 /\ (q * m) \div m = q
<1>1. \A r \in 0 .. m - 1 : (q * m + r) \div m = q /\ (q * m + r) % m = r
  OBVIOUS
<1>2. 0 \in 0 .. m - 1 /\ q * m + 0 = q * m
  OBVIOUS
<1> QED
  BY <1>1, <1>2

(* A number that divides is a factor. *)
LEMMA Factor ==
  ASSUME NEW n \in Nat, NEW m \in Nat \ {0}, n % m = 0
  PROVE  n \div m \in Nat /\ n = (n \div m) * m
  OBVIOUS

(* A smaller power divides a larger one. *)
LEMMA PowerDivides ==
  ASSUME NEW a \in 0 .. Bits + 1, NEW b \in a .. Bits + 1
  PROVE  /\ Pow2[b] = Pow2[b - a] * Pow2[a] /\ b - a \in 0 .. Bits + 1
         /\ Pow2[b] % Pow2[a] = 0 /\ Pow2[b] \div Pow2[a] = Pow2[b - a]
         /\ Pow2[a] <= Pow2[b]
<1>1. /\ Bits \in Nat /\ b - a \in Nat /\ a \in Nat /\ (b - a) + a = b /\ b <= Bits + 1
      /\ b - a \in 0 .. Bits + 1
  BY TimeAssumption
<1> HIDE DEF Pow2
<1>2. Pow2[b] = Pow2[b - a] * Pow2[a]
  BY <1>1, PowersMultiply
<1>3. Pow2[b - a] \in Nat \ {0} /\ Pow2[a] \in Nat \ {0}
  BY <1>1, Powers
<1>4. \A m \in Nat, n \in Nat \ {0} : n <= n * m \/ m = 0
  OBVIOUS
<1>5. Pow2[a] <= Pow2[b - a] * Pow2[a]
  BY <1>3
<1> QED
  BY <1>1, <1>2, <1>3, <1>5, Multiple

(* A larger exponent makes a larger power. *)
LEMMA PowersOrdered ==
  ASSUME NEW a \in 0 .. Bits + 1, NEW b \in 0 .. Bits + 1, a < b
  PROVE  Pow2[a] < Pow2[b]
<1>1. a \in 0 .. Bits /\ a + 1 \in 0 .. Bits + 1 /\ b \in a + 1 .. Bits + 1
  BY TimeAssumption
<1> HIDE DEF Pow2
<1>2. Pow2[a + 1] <= Pow2[b]
  BY <1>1, PowerDivides
<1>3. /\ Pow2[a + 1] = 2 * Pow2[a] /\ Pow2[a] \in Nat \ {0} /\ Pow2[a + 1] \in Nat
      /\ Pow2[b] \in Nat
  BY <1>1, Powers
<1> QED
  BY <1>2, <1>3

(* Halving a power of two gives the smaller powers, and 0 in the end.      *)
LEMMA HalvingsAre ==
  ASSUME NEW k \in 0 .. Bits
  PROVE  Halvings(Pow2[k]) = {0} \cup {Pow2[l] : l \in 0 .. k}
<1>0. Bits \in Nat /\ Pow2[k] \in Nat \ {0} /\ k \in 0 .. Bits + 1
  BY TimeAssumption, Powers
<1> HIDE DEF Pow2
<1>1. ASSUME NEW m \in 0 .. Bits + 1
      PROVE  /\ m <= k => k - m \in 0 .. k /\ Pow2[k] \div Pow2[m] = Pow2[k - m]
             /\ m > k => Pow2[k] \div Pow2[m] = 0
  <2>1. CASE m <= k
    <3>1. k \in m .. Bits + 1 /\ k - m \in 0 .. k
      BY <1>0, <2>1
    <3> QED
      BY <2>1, <3>1, PowerDivides
  <2>2. CASE m > k
    <3>1. Pow2[k] < Pow2[m] /\ Pow2[m] \in Nat \ {0}
      BY <1>0, <2>2, PowersOrdered, Powers
    <3>2. \A p \in Nat, q \in Nat \ {0} : p < q => p \div q = 0
      OBVIOUS
    <3> QED
      BY <1>0, <2>2, <3>1, <3>2
  <2> QED
    BY <2>1, <2>2
<1>2. ASSUME NEW x \in Halvings(Pow2[k]) PROVE x \in {0} \cup {Pow2[l] : l \in 0 .. k}
  <2>1. PICK m \in 0 .. Bits + 1 : x = Pow2[k] \div Pow2[m]
    BY DEF Halvings
  <2>2. CASE m <= k
    BY <1>1, <2>1, <2>2
  <2>3. CASE m > k
    BY <1>1, <2>1, <2>3
  <2> QED
    BY <2>1, <2>2, <2>3
<1>3. 0 \in Halvings(Pow2[k])
  <2>1. Bits + 1 \in 0 .. Bits + 1 /\ Bits + 1 > k
    BY <1>0
  <2>2. Pow2[k] \div Pow2[Bits + 1] = 0
    BY <1>1, <2>1
  <2> QED
    BY <2>1, <2>2 DEF Halvings
<1>4. ASSUME NEW l \in 0 .. k PROVE Pow2[l] \in Halvings(Pow2[k])
  <2>1. k - l \in 0 .. Bits + 1 /\ k - l <= k /\ k - (k - l) = l
    BY <1>0
  <2>2. Pow2[k] \div Pow2[k - l] = Pow2[l]
    BY <1>1, <2>1
  <2> QED
    BY <2>1, <2>2 DEF Halvings
<1> QED
  BY <1>2, <1>3, <1>4

(* Rounding a request down gives a power of two that is not above it, or 0. *)
LEMMA RoundDownIs ==
  ASSUME NEW k \in 0 .. Bits, NEW t \in Nat
  PROVE  /\ RoundDown(Pow2[k], t) \in {0} \cup {Pow2[l] : l \in 0 .. k}
         /\ 2 * RoundDown(Pow2[k], t) <= t
<1> HIDE DEF Pow2
<1> DEFINE S == {x \in Halvings(Pow2[k]) : 2 * x <= t}
<1>1. \A x \in Halvings(Pow2[k]) : x \in Nat
  <2>1. \A l \in 0 .. k : Pow2[l] \in Nat
    BY TimeAssumption, Powers
  <2> QED
    BY <2>1, HalvingsAre
<1>2. S \in SUBSET Nat /\ 0 \in S
  BY <1>1, HalvingsAre
<1>3. \A x \in S : x <= t
  BY <1>1
<1>4. Max(S) \in S
  <2> HIDE DEF S
  <2> QED
    BY <1>2, <1>3, MaximumIs
<1>5. RoundDown(Pow2[k], t) = Max(S)
  BY DEF RoundDown
<1> QED
  BY <1>4, <1>5, HalvingsAre

(* Halving a power until it fits gives a power that divides what is left.  *)
LEMMA FitIs ==
  ASSUME NEW k \in 0 .. Bits, NEW left \in Nat
  PROVE  /\ Fit(Pow2[k], left) \in {Pow2[l] : l \in 0 .. k}
         /\ left % Fit(Pow2[k], left) = 0
<1> HIDE DEF Pow2
<1> DEFINE S == {x \in Halvings(Pow2[k]) : x > 0 /\ left % x = 0}
<1>1. \A l \in 0 .. k : l \in 0 .. Bits + 1 /\ k \in l .. Bits + 1 /\ Pow2[l] \in Nat \ {0}
  BY TimeAssumption, Powers
<1>2. \A x \in S : \E l \in 0 .. k : x = Pow2[l]
  <2>1. \A x \in Halvings(Pow2[k]) : x # 0 => \E l \in 0 .. k : x = Pow2[l]
    BY HalvingsAre
  <2> QED
    BY <2>1
<1>3. S \in SUBSET Nat
  BY <1>1, <1>2
<1>4. 1 \in S
  <2>1. 0 \in 0 .. k /\ Pow2[0] = 1
    BY Powers
  <2>2. left % 1 = 0
    OBVIOUS
  <2> QED
    BY <2>1, <2>2, HalvingsAre
<1>5. Pow2[k] \in Nat /\ \A x \in S : x <= Pow2[k]
  <2>1. \A l \in 0 .. k : Pow2[l] <= Pow2[k]
    BY <1>1, PowerDivides
  <2>2. k \in 0 .. k
    OBVIOUS
  <2> QED
    BY <1>1, <1>2, <2>1, <2>2
<1>6. Max(S) \in S
  <2> HIDE DEF S
  <2> QED
    BY <1>3, <1>4, <1>5, MaximumIs
<1>7. Fit(Pow2[k], left) = Max(S)
  BY DEF Fit
<1> QED
  BY <1>2, <1>6, <1>7

-----------------------------------------------------------------------------
(* A time line with the smallest and the largest step m and M, at the time *)
(* c, of which a was the last step, on the grid of the steps.              *)
OnGrid(m, M, c, h, a, e) ==
  /\ \E i \in 0 .. Bits, j \in 0 .. Bits : i <= j /\ m = Pow2[i] /\ M = Pow2[j]
  /\ c \in 0 .. Size /\ c % m = 0
  /\ h => c < Size
  /\ a \in Nat
  /\ ~ e /\ a > 0 => (Size - c) % a = 0

(* The time line and the one in the dump are on the grid, and there is     *)
(* something left when the next step is computed.                          *)
GridOK ==
  /\ OnGrid(minimum, maximum, current, hasNext, actual, early)
  /\ pc = "advance" => current < Size
  /\ disk # <<>> =>
       OnGrid(disk.minimum, disk.maximum, disk.current, disk.hasNext, disk.actual, disk.early)

(* The constructor rounds the bounds of the steps to powers of two, the    *)
(* larger one not below the smaller one.                                   *)
LEMMA GridInit == Init => GridOK
<1> SUFFICES ASSUME Init PROVE GridOK
  OBVIOUS
<1> HIDE DEF Pow2
<1>0. /\ Bits \in Nat /\ Bits \in 0 .. Bits /\ Size = Pow2[Bits]
      /\ \A k \in 0 .. Bits : k \in 0 .. Bits + 1 /\ Pow2[k] \in Nat \ {0}
  BY TimeAssumption, Powers DEF Size
<1>1. PICK t \in Minima : minimum = MinimumStep(t)
  BY DEF Init
<1>2. PICK u \in Maxima : maximum = MaximumStep(u, minimum)
  BY DEF Init
<1>3. t \in Nat /\ u \in Nat
  BY TimeAssumption
<1>4. \A v \in Nat : RoundDown(Size, v) \in {0} \cup {Pow2[l] : l \in 0 .. Bits}
  BY <1>0, RoundDownIs
<1>5. \A x, y \in Nat : Max({x, y}) \in {x, y} /\ Max({x, y}) >= x
  <2> TAKE x, y \in Nat
  <2>1. PICK n \in Nat : x <= n /\ y <= n
    <3>1. x + y \in Nat /\ x <= x + y /\ y <= x + y
      OBVIOUS
    <3> QED
      BY <3>1
  <2>2. {x, y} \in SUBSET Nat /\ {x, y} # {} /\ \A z \in {x, y} : z <= n
    BY <2>1
  <2> QED
    BY <2>1, <2>2, MaximumIs
<1>6. PICK i \in 0 .. Bits : minimum = Pow2[i]
  <2>1. 1 = Pow2[0] /\ 0 \in 0 .. Bits
    BY <1>0, Powers
  <2>2. CASE t > 0
    <3>1. minimum = Max({1, RoundDown(Size, t)})
      BY <1>1, <2>2 DEF MinimumStep
    <3>2. RoundDown(Size, t) \in {0} \cup {Pow2[l] : l \in 0 .. Bits} /\ RoundDown(Size, t) \in Nat
      BY <1>0, <1>3, <1>4
    <3>3. minimum \in {1, RoundDown(Size, t)} /\ minimum >= 1
      BY <1>5, <3>1, <3>2
    <3> QED
      BY <2>1, <3>2, <3>3
  <2>3. CASE ~ (t > 0)
    BY <1>1, <2>1, <2>3 DEF MinimumStep
  <2> QED
    BY <2>2, <2>3
<1>7. PICK j \in 0 .. Bits : maximum = Pow2[j] /\ Pow2[i] <= Pow2[j]
  <2>1. CASE u > 0
    <3>1. maximum = Max({minimum, RoundDown(Size, u)})
      BY <1>2, <2>1 DEF MaximumStep
    <3>2. RoundDown(Size, u) \in {0} \cup {Pow2[l] : l \in 0 .. Bits} /\ RoundDown(Size, u) \in Nat
      BY <1>0, <1>3, <1>4
    <3>3. maximum \in {minimum, RoundDown(Size, u)} /\ maximum >= minimum /\ minimum \in Nat \ {0}
      BY <1>0, <1>5, <1>6, <3>1, <3>2
    <3>4. maximum \in {Pow2[l] : l \in 0 .. Bits}
      BY <1>6, <3>2, <3>3
    <3> QED
      BY <1>0, <1>6, <3>3, <3>4
  <2>2. CASE ~ (u > 0)
    <3>1. maximum = Pow2[Bits]
      BY <1>0, <1>2, <2>2 DEF MaximumStep
    <3>2. i \in 0 .. Bits + 1 /\ Bits \in i .. Bits + 1
      BY <1>0
    <3> QED
      BY <1>0, <3>1, <3>2, PowerDivides
  <2> QED
    BY <2>1, <2>2
<1>8. i <= j
  <2>1. ASSUME j < i PROVE FALSE
    BY <1>0, <1>7, <2>1, PowersOrdered
  <2> QED
    BY <2>1
<1>9. /\ current = 0 /\ hasNext = FALSE /\ actual = 0 /\ early = FALSE /\ disk = <<>>
      /\ pc = "advance"
  BY DEF Init
<1>10. 0 \in 0 .. Size /\ 0 < Size /\ 0 % minimum = 0
  BY <1>0, <1>6
<1>11. OnGrid(minimum, maximum, current, hasNext, actual, early)
  BY <1>6, <1>7, <1>8, <1>9, <1>10 DEF OnGrid
<1> QED
  BY <1>9, <1>10, <1>11 DEF GridOK

(* A step that divides what is left, and is not below the smallest one,    *)
(* leads to a time on the grid that is not behind the end.                 *)
LEMMA StepOnGrid ==
  ASSUME NEW i \in 0 .. Bits, NEW l \in i .. Bits, NEW c \in 0 .. Size, c < Size,
         c % Pow2[i] = 0, (Size - c) % Pow2[l] = 0
  PROVE  /\ c + Pow2[l] \in 0 .. Size /\ (c + Pow2[l]) % Pow2[i] = 0
         /\ (Size - (c + Pow2[l])) % Pow2[l] = 0
<1> HIDE DEF Pow2
<1> DEFINE p == Pow2[i]
           q == Pow2[l]
           r == Size - c
<1>1. /\ Bits \in Nat /\ l \in 0 .. Bits /\ i \in 0 .. Bits + 1 /\ l \in i .. Bits + 1
      /\ l - i \in 0 .. Bits + 1 /\ l \in 0 .. Bits + 1 /\ Bits \in 0 .. Bits + 1
  BY TimeAssumption
<1>2. p \in Nat \ {0} /\ q \in Nat \ {0} /\ Size \in Nat /\ Pow2[l - i] \in Nat
  BY <1>1, Powers DEF Size
<1>3. q = Pow2[l - i] * p
  BY <1>1, PowerDivides
<1>4. c \in Nat /\ r \in Nat /\ r > 0 /\ c % p = 0 /\ r % q = 0
  BY <1>2
<1> DEFINE x == c \div p
           y == r \div q
           z == Pow2[l - i]
<1>5. x \in Nat /\ c = x * p /\ y \in Nat /\ r = y * q
  <2> HIDE DEF p, q, r
  <2> QED
    BY <1>2, <1>4, Factor
<1>6. z \in Nat /\ q = z * p
  BY <1>2, <1>3
<1> HIDE DEF x, y, z, p, q
<1>7. y # 0 /\ y - 1 \in Nat
  <2>1. 0 * q = 0
    BY <1>2
  <2>2. y # 0
    BY <1>4, <1>5, <2>1
  <2> QED
    BY <1>5, <2>2
<1>8. r - q = (y - 1) * q
  <2>1. (y - 1) * q = y * q - q
    BY <1>2, <1>5
  <2> QED
    BY <1>5, <2>1
<1>9. (y - 1) * q \in Nat
  BY <1>2, <1>7
<1>10. c + q \in 0 .. Size
  <2>1. r - q >= 0 /\ r = Size - c
    BY <1>8, <1>9
  <2> HIDE DEF r
  <2> QED
    BY <1>2, <1>4, <2>1
<1>11. Size - (c + q) = (y - 1) * q
  <2>1. r - q = Size - (c + q)
    BY <1>2, <1>4
  <2> QED
    BY <1>8, <2>1
<1>12. c + q = (x + z) * p
  <2>1. (x + z) * p = x * p + z * p
    BY <1>2, <1>5, <1>6
  <2> QED
    BY <1>5, <1>6, <2>1
<1>13. ((y - 1) * q) % q = 0
  BY <1>2, <1>7, Multiple
<1>14. ((x + z) * p) % p = 0
  <2>1. x + z \in Nat
    BY <1>5, <1>6
  <2> QED
    BY <1>2, <2>1, Multiple
<1>15. (c + q) % p = 0 /\ (Size - (c + q)) % q = 0
  BY <1>11, <1>12, <1>13, <1>14
<1> QED
  BY <1>10, <1>15 DEF p, q

(* The step that advance computes keeps the time line on the grid.         *)
LEMMA AdvanceOnGrid ==
  ASSUME GridOK, NEW t \in Requests, Advance(t)
  PROVE  OnGrid(minimum', maximum', current', hasNext', actual', early')
<1> HIDE DEF Pow2
<1> DEFINE left == Size - current
           rounded == RoundDown(maximum, t)
           step == IF rounded = 0 THEN 0 ELSE Fit(rounded, left)
<1>0. /\ pc = "advance" /\ minimum' = minimum /\ maximum' = maximum
      /\ \/ /\ actual' = step /\ hasNext' = FALSE /\ early' = TRUE /\ current' = current
         \/ /\ step # 0 /\ ~ (step < minimum)
            /\ current' = current + step /\ actual' = step /\ hasNext' = (current' < Size)
            /\ early' = early
  BY DEF Advance, TooSmall
<1>1. PICK i \in 0 .. Bits, j \in 0 .. Bits :
               i <= j /\ minimum = Pow2[i] /\ maximum = Pow2[j]
  BY DEF GridOK, OnGrid
<1>2. current \in 0 .. Size /\ current % minimum = 0 /\ current < Size
  BY <1>0 DEF GridOK, OnGrid
<1>3. /\ Bits \in Nat /\ t \in Nat /\ Size \in Nat
      /\ \A k \in 0 .. Bits : k \in 0 .. Bits + 1 /\ Pow2[k] \in Nat \ {0}
  BY TimeAssumption, Powers DEF Size
<1>4. left \in Nat
  BY <1>2, <1>3
<1>5. step = 0 \/ \E l \in 0 .. Bits : step = Pow2[l] /\ left % step = 0
  <2>1. rounded \in {0} \cup {Pow2[k] : k \in 0 .. j}
    BY <1>1, <1>3, RoundDownIs
  <2> SUFFICES ASSUME rounded # 0 PROVE \E l \in 0 .. Bits : step = Pow2[l] /\ left % step = 0
    OBVIOUS
  <2>2. PICK k \in 0 .. j : rounded = Pow2[k]
    BY <2>1
  <2>3. k \in 0 .. Bits
    BY <1>3
  <2> HIDE DEF left, rounded
  <2>4. /\ Fit(Pow2[k], left) \in {Pow2[l] : l \in 0 .. k}
        /\ left % Fit(Pow2[k], left) = 0
    BY <1>4, <2>3, FitIs
  <2>5. step = Fit(Pow2[k], left)
    BY <2>2
  <2>6. PICK l \in 0 .. k : step = Pow2[l]
    BY <2>4, <2>5
  <2>7. l \in 0 .. Bits
    BY <1>3, <2>3
  <2> QED
    BY <2>4, <2>5, <2>6, <2>7
<1> HIDE DEF step
<1>6. CASE actual' = step /\ hasNext' = FALSE /\ early' = TRUE /\ current' = current
  <2>1. step \in Nat
    BY <1>3, <1>5
  <2> QED
    BY <1>0, <1>1, <1>2, <1>6, <2>1 DEF OnGrid
<1>7. CASE /\ step # 0 /\ ~ (step < minimum)
           /\ current' = current + step /\ actual' = step /\ hasNext' = (current' < Size)
           /\ early' = early
  <2>1. PICK l \in 0 .. Bits : step = Pow2[l] /\ left % step = 0
    BY <1>5, <1>7
  <2>2. l \in i .. Bits
    <3>1. ASSUME l < i PROVE FALSE
      <4>1. Pow2[l] < Pow2[i]
        BY <1>3, <3>1, PowersOrdered
      <4> QED
        BY <1>1, <1>7, <2>1, <4>1
    <3> QED
      BY <1>3, <3>1
  <2>3. /\ current + Pow2[l] \in 0 .. Size /\ (current + Pow2[l]) % Pow2[i] = 0
        /\ (Size - (current + Pow2[l])) % Pow2[l] = 0
    BY <1>1, <1>2, <2>1, <2>2, StepOnGrid
  <2>4. step \in Nat
    BY <1>3, <2>1
  <2> QED
    BY <1>0, <1>1, <1>7, <2>1, <2>3, <2>4 DEF OnGrid
<1> QED
  BY <1>0, <1>6, <1>7

(* Every step keeps the time line, and the dump, on the grid.              *)
LEMMA GridNext == GridOK /\ [Next]_vars => GridOK'
<1> SUFFICES ASSUME GridOK, [Next]_vars PROVE GridOK'
  OBVIOUS
<1>0. Size' = Size /\ Pow2' = Pow2
  BY DEF Size
<1> HIDE DEF Pow2
<1>1. ASSUME NEW t \in Requests, Advance(t) PROVE GridOK'
  <2>1. disk' = disk /\ pc' \in {"loop", "dump"}
    BY <1>1 DEF Advance
  <2>2. OnGrid(minimum', maximum', current', hasNext', actual', early')
    BY <1>1, AdvanceOnGrid
  <2> QED
    BY <2>1, <2>2 DEF GridOK, OnGrid
<1>2. CASE Dump
  <2>1. /\ pc' = "loop" /\ UNCHANGED state /\ disk' \in {disk, Saved}
    BY <1>2 DEF Dump
  <2>2. CASE disk' = disk
    BY <2>1, <2>2 DEF state, GridOK, OnGrid
  <2>3. CASE disk' = Saved
    BY <2>1, <2>3 DEF state, Saved, GridOK, OnGrid
  <2> QED
    BY <2>1, <2>2, <2>3
<1>3. CASE Step
  BY <1>3 DEF Step, GridOK, OnGrid
<1>4. CASE End
  BY <1>4 DEF End, state, GridOK, OnGrid
<1>5. CASE Restart
  BY <1>5 DEF Restart, StoredStep, GridOK, OnGrid
<1>6. CASE UNCHANGED vars
  BY <1>6 DEF vars, GridOK, OnGrid
<1> QED
  BY <1>1, <1>2, <1>3, <1>4, <1>5, <1>6 DEF Next

(* The current time stays on the grid of the smallest step, and the last   *)
(* step divides what is left, for every length of the time line and all    *)
(* requests: the end is reached and never overshot.                        *)
THEOREM TimeAligned == Spec => []Aligned
<1>1. GridOK => Aligned
  BY DEF GridOK, OnGrid, Aligned
<1> QED
  BY <1>1, GridInit, GridNext, PTL DEF Spec
=============================================================================
