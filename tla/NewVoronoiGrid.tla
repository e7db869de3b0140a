---------------------------- MODULE NewVoronoiGrid ----------------------------
(***************************************************************************)
(* The construction of a Voronoi grid (NewVoronoiGrid, its job market,     *)
(* Worker and NewVoronoiCellConstructor) and the search for the cell of a  *)
(* position (PointLocations).                                              *)
(*                                                                         *)
(* The workers take ranges of cells from the job market.  A cell starts as *)
(* four tetrahedra around its generator; the copies of the generator in    *)
(* the walls and then the other generators are inserted, in the order of   *)
(* the blocks, and after each one flips restore the tetrahedra with a      *)
(* circumsphere that is not empty.  One action is one access to the market,*)
(* one step of the walk to a new vertex, or the check of one tetrahedron.  *)
(* A constructor belongs to its thread and reads the generators only: the  *)
(* workers take turns in the market in every order, but where several of   *)
(* them construct a cell only the first one moves.                         *)
(***************************************************************************)
EXTENDS VoronoiGeometry, VoronoiFlips

CONSTANTS
  Workers,    \* worker threads, numbered
  JobSize,    \* number of cells of a job
  PerBlock,   \* NEWVORONOIGRID_NUM_BUCKET
  Layouts,    \* the positions of the generators to look at
  Located,    \* the layouts that are only searched
  Queries     \* the positions that are looked for

ASSUME LayoutAssumption ==
  /\ Workers \subseteq Nat /\ Workers # {}
  /\ JobSize \in Nat \ {0} /\ PerBlock \in Nat \ {0}
  /\ Layouts \cap Located = {}
  /\ \A l \in Layouts \cup Located :
       /\ IsFiniteSet(DOMAIN l) /\ DOMAIN l # {} /\ DOMAIN l = 0 .. Cardinality(DOMAIN l) - 1
       /\ \A j \in DOMAIN l : \A k \in Axis : l[j][k] \in 1 .. Side - 1
  /\ \A q \in Queries : \A k \in Axis : q[k] \in 0 .. Side - 1

VARIABLES
  positions,     \* of the generators, by index from 0
  currentIndex,  \* _current_index of the job market
  pc,            \* [Workers -> where the worker is]
  job,           \* [Workers -> <<next cell, last index>>]
  cells,         \* _cells: for each generator the cells that were stored
  cell,          \* the constructor: its vertices, tetrahedra and free slots
  it,            \* the iterator over the blocks
  todo,          \* the points of this block that are left
  at,            \* the tetrahedron the walk is at
  queue,         \* the tetrahedra to check
  nextCheck,     \* next_check
  closest        \* the search for a position: its position and best point

vars == <<positions, currentIndex, pc, job, cells, cell, it, todo, at, queue,
          nextCheck, closest>>
market == <<positions, currentIndex, job, cells>>
construction == <<cell, it, todo, at, queue, nextCheck>>

NoCell == [vertices |-> <<>>, tetrahedra |-> <<>>, free |-> <<>>]
NoIterator == [level |-> -1]
NoQuery == [position |-> <<>>, index |-> -1]

Generators == DOMAIN positions
CellSize == Cardinality(Generators)
Blocks == BlocksFor(positions, PerBlock)

(* The worker whose constructor moves, and its cell. *)
Building == {w \in Workers : pc[w] \in {"next", "walk", "check"}}
Builder == Min(Building)
Generator == cell.vertices[1]
At(vertex) == Position(cell.vertices[vertex + 1], positions, Generator)

Init ==
  /\ positions \in Layouts \cup Located
  /\ currentIndex = 0
  /\ pc = [w \in Workers |-> IF positions \in Located THEN "end" ELSE "idle"]
  /\ job = [w \in Workers |-> <<0, 0>>]
  /\ cells = [g \in Generators |-> <<>>]
  /\ cell = NoCell
  /\ it = NoIterator
  /\ todo = <<>>
  /\ at = MaxIndex
  /\ queue = {}
  /\ nextCheck = 0
  /\ closest = NoQuery

-----------------------------------------------------------------------------
(* The job market.  get_job reads the current index without the lock ... *)
TestIndex(w) ==
  /\ pc[w] = "idle"
  /\ pc' = [pc EXCEPT ![w] = IF currentIndex = CellSize THEN "end" ELSE "take"]
  /\ UNCHANGED <<market, construction, closest>>

(* ... and again with the lock, where it takes the next range. *)
SizeOfJob(index) == Min({JobSize, CellSize - index})

FaultTrustTest(first) == TRUE       \* Seeded fault: the first test is relied on
IsCell(first) == first < CellSize

TakeJob(w) ==
  /\ pc[w] = "take"
  /\ LET size == SizeOfJob(currentIndex) IN
     /\ currentIndex' = currentIndex + size
     /\ IF IsCell(currentIndex)
        THEN /\ job' = [job EXCEPT ![w] = <<currentIndex, currentIndex + size>>]
             /\ pc' = [pc EXCEPT ![w] = "setup"]
        ELSE /\ pc' = [pc EXCEPT ![w] = "end"]
             /\ UNCHANGED job
  /\ UNCHANGED <<positions, cells, construction, closest>>

-----------------------------------------------------------------------------
(* setup: the generator and the large tetrahedron around everything.  The  *)
(* copies in the walls are the first points that are inserted; the         *)
(* iterator starts at the block of the generator.                          *)
FirstTetrahedra == From0(<<
  Tetrahedron(<<0, 2, 3, 4>>, <<MaxIndex, 1, 2, 3>>, <<4, 0, 0, 0>>),
  Tetrahedron(<<1, 0, 3, 4>>, <<0, MaxIndex, 2, 3>>, <<1, 4, 1, 1>>),
  Tetrahedron(<<1, 2, 0, 4>>, <<0, 1, MaxIndex, 3>>, <<2, 2, 4, 2>>),
  Tetrahedron(<<1, 2, 3, 0>>, <<0, 1, 2, MaxIndex>>, <<3, 3, 3, 4>>)>>)

Setup(w) ==
  /\ pc[w] = "setup"
  /\ Building = {}
  /\ LET g == job[w][1] IN
     /\ cell' = [vertices |-> <<g, 100, 101, 102, 103>>,
                 tetrahedra |-> FirstTetrahedra, free |-> <<>>]
     /\ it' = Iterator(positions[g], Blocks)
     /\ todo' = <<110, 111, 112, 113, 114, 115>>
                  \o Ordered(Neighbours(it', positions, Blocks) \ {g})
  /\ pc' = [pc EXCEPT ![w] = "next"]
  /\ UNCHANGED <<market, at, queue, nextCheck, closest>>

(* _max_r2 is four times the largest squared distance of the generator to  *)
(* the centre of a tetrahedron it is a vertex of, brought up to date when  *)
(* the tetrahedron with the largest one was changed.                       *)
Star == {t \in Active(cell) : 0 \in Vertices(cell.tetrahedra[t])}

CentreOf(t) ==
  LET v == cell.tetrahedra[t].v
      k == IndexOf(cell.tetrahedra[t], 0)
      o == (1 .. 3)
      from == [j \in o |-> At(v[(k + j) % 4])]
  IN CircumCentre(At(0), from[1], from[2], from[3])

Excess(t, factor, d2) ==    \* d2 / factor beyond the value from tetrahedron t, scaled
  LET c == CentreOf(t) IN d2 * Square(c.den) - factor * Dot(c.num, c.num)

(* intersect: a point that is too far away is not inserted.  The value it  *)
(* is compared with may be an old one, which is larger: then it is.  The   *)
(* cell always reaches as far as a wall it has not been cut by.            *)
FaultHalfRadius(x) ==       \* Seeded fault: _max_r2 is not multiplied by four
  \A t \in Star : Excess(t, 1, 4 * Distance2(positions[x], positions[Generator])) > 0

TooFar(x) == \A t \in Star : Excess(t, 1, Distance2(positions[x], positions[Generator])) > 0

Skip(w) ==
  /\ pc[w] = "next" /\ w = Builder
  /\ todo # <<>>
  /\ Head(todo) \notin Wall
  /\ TooFar(Head(todo))
  /\ todo' = Tail(todo)
  /\ UNCHANGED <<market, pc, cell, it, at, queue, nextCheck, closest>>

(* find_tetrahedron starts at the last tetrahedron there is. *)
Insert(w) ==
  /\ pc[w] = "next" /\ w = Builder
  /\ todo # <<>>
  /\ at' = Max(Active(cell))
  /\ pc' = [pc EXCEPT ![w] = "walk"]
  /\ UNCHANGED <<market, cell, it, todo, queue, nextCheck, closest>>

-----------------------------------------------------------------------------
(* The four faces in the order of the tests, by the vertex opposite them. *)
FaceTests == <<3, 1, 2, 0>>
FaceOf(k) ==
  CASE k = 3 -> <<0, 1, 2>> [] k = 1 -> <<0, 2, 3>> [] k = 2 -> <<0, 3, 1>> [] k = 0 -> <<1, 3, 2>>

Point == Position(Head(todo), positions, Generator)

TestFace(k) ==
  LET v == cell.tetrahedra[at].v
      f == FaceOf(k)
  IN Orient3d(At(v[f[1]]), At(v[f[2]]), At(v[f[3]]), Point)

(* The tetrahedra of an axis, from the first one over the third to the     *)
(* second one of those that were found.                                    *)
AroundAxis(found) ==
  LET first == cell.tetrahedra[found[1]]
      non0 == get_index(first, found[2])
      non1 == get_index(first, found[3])
      axis == {first.v[k] : k \in Slot \ {non0, non1}}
      rest[p \in (Int \X Slot)] ==
        IF p[1] = found[2] THEN <<found[2]>>
        ELSE LET tet == cell.tetrahedra[p[1]]
                 k == CHOOSE k \in Slot \ {p[2]} : tet.v[k] \notin axis
             IN <<p[1]>> \o rest[<<tet.n[k], tet.i[k]>>]
  IN <<found[1]>> \o rest[<<found[3], first.i[non1]>>]

(* The point is on the other side of the faces with a positive test: the   *)
(* walk steps through the first one.                                       *)
FaultOnFace(test) == test >= 0     \* Seeded fault: or on the face itself
OtherSide(test) == test > 0

Walk(w) ==
  /\ pc[w] = "walk" /\ w = Builder
  /\ LET away == SelectSeq(FaceTests, LAMBDA k : OtherSide(TestFace(k))) IN
     /\ away # <<>>
     /\ at' = cell.tetrahedra[at].n[Head(away)]
  /\ UNCHANGED <<market, pc, cell, it, todo, queue, nextCheck, closest>>

(* The point is in a tetrahedron, on a face or on an edge: the tetrahedra  *)
(* it touches are replaced, and the new ones are to be checked.            *)
Split(c, x, found) ==
  IF Len(found) = 1 THEN one_to_four_flip(c, x, found[1])
  ELSE IF Len(found) = 2 THEN two_to_six_flip(c, x, found[1], found[2])
  ELSE n_to_2n_flip(c, x, AroundAxis(found))

AddVertex(w) ==
  /\ pc[w] = "walk" /\ w = Builder
  /\ \A k \in Slot : ~ OtherSide(TestFace(k))
  /\ LET zero == SelectSeq(FaceTests, LAMBDA k : TestFace(k) = 0)
         found == <<at>> \o [k \in DOMAIN zero |-> cell.tetrahedra[at].n[zero[k]]]
         split == Split(cell, Len(cell.vertices), found)
     IN /\ cell' = [split.cell EXCEPT !.vertices = Append(@, Head(todo))]
        /\ queue' = split.tn
        /\ nextCheck' = Min(split.tn)
  /\ pc' = [pc EXCEPT ![w] = "check"]
  /\ UNCHANGED <<market, it, todo, at, closest>>

-----------------------------------------------------------------------------
(* check_tetrahedron: what replaces tetrahedron t, and the tetrahedra that *)
(* must not be checked any more.                                           *)
Kept == [cell |-> cell, tn |-> {}, dropped |-> {}]
With(flip, dropped) == [cell |-> flip.cell, tn |-> flip.tn, dropped |-> dropped]

(* Three tetrahedra share the edge if other is a neighbour of both. *)
TryThreeToTwo(t, ngb, other) ==
  IF other \in Range(cell.tetrahedra[ngb].n)
  THEN With(three_to_two_flip(cell, t, ngb, other), {other})
  ELSE Kept

(* Four share it if the neighbour of other opposite the new vertex is one  *)
(* of ngb.                                                                 *)
TryFourToFour(t, ngb, other, x) ==
  LET tet == cell.tetrahedra[other]
      second == tet.n[IndexOf(tet, x)]
  IN IF second \in Range(cell.tetrahedra[ngb].n)
     THEN With(four_to_four_flip(cell, t, other, ngb, second), {})
     ELSE Kept

(* Where the line from the new vertex at top to p4 passes the common face: *)
(* the tests in the order of the code, by the vertex that p4 replaces.     *)
FaultSkipEdge(p, p4, top) == <<>>       \* Seeded fault: the line is taken to be inside
SideTests(p, p4, top) ==
  LET Test(k) == LET q == [p EXCEPT ![k] = p4] IN Orient3d(q[0], q[1], q[2], q[3])
  IN SelectSeq(<<3, 2, 1, 0>>, LAMBDA k : k # top /\ Test(k) >= 0)

CheckedCell(t) ==
  LET x   == Len(cell.vertices) - 1
      tet == cell.tetrahedra[t]
      top == IndexOf(tet, x)
      ngb == tet.n[top]
      p   == [k \in Slot |-> At(tet.v[k])]
      p4  == At(cell.tetrahedra[ngb].v[tet.i[top]])
  IN IF ngb = MaxIndex THEN Kept
     ELSE IF InSphere(p[0], p[1], p[2], p[3], p4) >= 0 THEN Kept
     ELSE LET sides == SideTests(p, p4, top) IN
          IF sides = <<>>
          THEN With(two_to_three_flip(cell, t, ngb, top, tet.i[top]), {})
          ELSE LET k == Head(sides)
                   q == [p EXCEPT ![k] = p4]
               IN IF Orient3d(q[0], q[1], q[2], q[3]) = 0
                  THEN TryFourToFour(t, ngb, tet.n[k], x)
                  ELSE TryThreeToTwo(t, ngb, tet.n[k])

(* The loop over the queue looks at the indices in increasing order. *)
FaultNoStepBack(t, tn) == t + 1     \* Seeded fault: smaller new indices are passed over
CheckAfter(t, tn) == Min({t + 1} \cup tn)

Flagged == {t \in queue : t >= nextCheck}

Check(w) ==
  /\ pc[w] = "check" /\ w = Builder
  /\ Flagged # {}
  /\ LET t == Min(Flagged)
         checked == CheckedCell(t)
     IN /\ cell' = checked.cell
        /\ queue' = ((queue \ {t}) \ checked.dropped) \cup checked.tn
        /\ nextCheck' = CheckAfter(t, checked.tn)
  /\ UNCHANGED <<market, pc, it, todo, at, closest>>

Inserted(w) ==
  /\ pc[w] = "check" /\ w = Builder
  /\ Flagged = {}
  /\ todo' = Tail(todo)
  /\ queue' = {}
  /\ nextCheck' = 0
  /\ at' = MaxIndex
  /\ pc' = [pc EXCEPT ![w] = "next"]
  /\ UNCHANGED <<market, cell, it, closest>>

-----------------------------------------------------------------------------
(* compute_cell goes on to the next block, until all points outside the    *)
(* blocks it has seen are too far away.                                    *)
FarEnough(i) == \A t \in Star : Excess(t, Blocks * Blocks, MaxRadius2(i)) >= 0

NextBlock(w) ==
  /\ pc[w] = "next" /\ w = Builder
  /\ todo = <<>>
  /\ HasMore(it)
  /\ it' = IncreaseRange(it, Blocks, FALSE)
  /\ todo' = Ordered(Neighbours(it', positions, Blocks))
  /\ UNCHANGED <<market, pc, cell, at, queue, nextCheck, closest>>

(* get_cell: a face for each vertex that shares a tetrahedron with the     *)
(* generator; its corners are the centres of the tetrahedra around their   *)
(* common edge.  A face with less than three corners has no area.          *)
RingAround(other) ==
  LET first == Min({t \in Star : other \in Vertices(cell.tetrahedra[t])})
      Sides(t) == {k \in Slot : cell.tetrahedra[t].v[k] \notin {0, other}}
      start == cell.tetrahedra[first].n[CHOOSE k \in Sides(first) : TRUE]
      ring[p \in (Int \X Int)] ==
        IF p[1] = first THEN {first}
        ELSE LET n == cell.tetrahedra[p[1]].n
                 k == CHOOSE k \in Sides(p[1]) : n[k] # p[2]
             IN {p[1]} \cup ring[<<n[k], p[1]>>]
  IN ring[<<start, first>>]

HasArea(ring) ==
  \E a, b, c \in ring : /\ ~ SameCentre(CentreOf(a), CentreOf(b))
                        /\ ~ SameCentre(CentreOf(a), CentreOf(c))
                        /\ ~ SameCentre(CentreOf(b), CentreOf(c))

FacesOf(c) ==
  LET others == UNION {Vertices(c.tetrahedra[t]) : t \in Star} \ {0}
  IN [all   |-> {c.vertices[o + 1] : o \in others},
      wide  |-> {c.vertices[o + 1] : o \in {o \in others : HasArea(RingAround(o))}}]

(* The cell is stored, and the job goes on to the next one. *)
StoreCell(w) ==
  /\ pc[w] = "next" /\ w = Builder
  /\ todo = <<>>
  /\ IF HasMore(it) THEN FarEnough(IncreaseRange(it, Blocks, FALSE)) ELSE TRUE
  /\ cells' = [cells EXCEPT ![Generator] = Append(@, FacesOf(cell))]
  /\ job' = [job EXCEPT ![w][1] = @ + 1]
  /\ pc' = [pc EXCEPT ![w] = IF job[w][1] + 1 < job[w][2] THEN "setup" ELSE "idle"]
  /\ cell' = NoCell
  /\ it' = NoIterator
  /\ UNCHANGED <<positions, currentIndex, todo, at, queue, nextCheck, closest>>

-----------------------------------------------------------------------------
(* get_closest_neighbour, when the grid is complete: its first block, and  *)
(* the others until none can have a closer point.                          *)
Better(p, best, points) ==
  LET D2(j) == Distance2(positions[j], p)
      closer == {j \in points : best = MaxIndex \/ D2(j) < D2(best)}
  IN IF closer = {} THEN best
     ELSE CHOOSE j \in closer : \A k \in closer : D2(j) < D2(k) \/ (D2(j) = D2(k) /\ j <= k)

Locate(p) ==
  /\ \A w \in Workers : pc[w] = "end"
  /\ it = NoIterator
  /\ it' = Iterator(p, Blocks)
  /\ closest' = [position |-> p, index |-> Better(p, MaxIndex, Neighbours(it', positions, Blocks))]
  /\ UNCHANGED <<market, pc, cell, todo, at, queue, nextCheck>>

SearchOn(i) ==
  closest.index # MaxIndex =>
  Distance2(positions[closest.index], closest.position) * Square(Blocks) >= MaxRadius2(i)

SearchBlock ==
  /\ \A w \in Workers : pc[w] = "end"
  /\ it # NoIterator
  /\ HasMore(it)
  /\ LET next == IncreaseRange(it, Blocks, TRUE) IN
     /\ SearchOn(next)
     /\ it' = next
     /\ closest' = [closest EXCEPT !.index =
          Better(closest.position, @, Neighbours(next, positions, Blocks))]
  /\ UNCHANGED <<market, pc, cell, todo, at, queue, nextCheck>>

Found ==
  /\ \A w \in Workers : pc[w] = "end"
  /\ it # NoIterator
  /\ IF HasMore(it) THEN ~ SearchOn(IncreaseRange(it, Blocks, TRUE)) ELSE TRUE

Return ==
  /\ Found
  /\ it' = NoIterator
  /\ closest' = NoQuery
  /\ UNCHANGED <<market, pc, cell, todo, at, queue, nextCheck>>

WorkerStep(w) ==
  \/ TestIndex(w) \/ TakeJob(w) \/ Setup(w) \/ Skip(w) \/ Insert(w) \/ Walk(w)
  \/ AddVertex(w) \/ Check(w) \/ Inserted(w) \/ NextBlock(w) \/ StoreCell(w)

Next ==
  \/ \E w \in Workers : WorkerStep(w)
  \/ \E p \in Queries : Locate(p)
  \/ SearchBlock \/ Return

(* Weak fairness of WorkerStep(w), spelt out: Ready(w) is ENABLED          *)
(* WorkerStep(w), and Moves(w) tells a step of w by what it changes.       *)
Ready(w) ==
  \/ pc[w] \in {"idle", "take"}
  \/ pc[w] = "setup" /\ Building = {}
  \/ w \in Building /\ w = Builder

Moves(w) == pc'[w] # pc[w] \/ (w \in Building /\ w = Builder /\ construction' # construction)

Spec ==
  /\ Init /\ [][Next]_vars
  /\ \A w \in Workers : []<>(~ Ready(w)) \/ []<><<Moves(w)>>_vars

-----------------------------------------------------------------------------
(* The tetrahedra of a cell fit together after every flip, whichever flips *)
(* came before it: neighbours refer to each other by the right indices and *)
(* share the face between them, all are positively oriented, and the free  *)
(* slots are those without a tetrahedron, each one once.                   *)
Linked ==
  LET tets == cell.tetrahedra
      AcrossFace(t, k) ==
        LET n == tets[t].n[k]
            j == tets[t].i[k]
        IN n # MaxIndex =>
             /\ n \in Active(cell)
             /\ tets[n].n[j] = t /\ tets[n].i[j] = k
             /\ Vertices(tets[t]) \ {tets[t].v[k]} = Vertices(tets[n]) \ {tets[n].v[j]}
  IN Building # {} =>
       /\ \A t \in Active(cell) :
            /\ \A k \in Slot : AcrossFace(t, k)
            /\ LET v == tets[t].v IN Orient3d(At(v[0]), At(v[1]), At(v[2]), At(v[3])) < 0
       /\ Range(cell.free) = DOMAIN tets \ Active(cell)
       /\ Len(cell.free) = Cardinality(Range(cell.free))

AtRest == Building # {} /\ pc[Builder] = "next"

Empty(t, point) ==
  LET v == cell.tetrahedra[t].v
  IN InSphere(At(v[0]), At(v[1]), At(v[2]), At(v[3]), point) >= 0

(* "if it is not, we cannot solve this faulty situation now, but it will   *)
(* be solved by another flip later on" (check_tetrahedron): when no        *)
(* tetrahedron is left to check, no circumsphere has a vertex inside.      *)
Delaunay ==
  AtRest => \A t \in Active(cell) : \A x \in 0 .. Len(cell.vertices) - 1 :
              x \notin Vertices(cell.tetrahedra[t]) => Empty(t, At(x))

(* At the end of a cell no generator is inside the circumspheres that make it. *)
StarEmpty ==
  (AtRest /\ todo = <<>> /\ ~ HasMore(it)) =>
    \A t \in Star : \A g \in Generators :
      g \notin {cell.vertices[x + 1] : x \in Vertices(cell.tetrahedra[t])} => Empty(t, positions[g])

(* A face with an area is a face of both cells. *)
FacesAgree ==
  \A g, h \in Generators :
    cells[g] # <<>> /\ cells[h] # <<>> /\ h \in cells[g][1].wide => g \in cells[h][1].wide

(* The points that are left out because they are too far away, one by one  *)
(* (intersect) or by blocks (compute_cell), would not have changed the     *)
(* cell, and the cells, each made on its own, agree on their faces.        *)
CellsExact == StarEmpty /\ FacesAgree

(* Every cell is constructed by one job only, whenever the workers read    *)
(* the index of the market, and none is left when they are done.           *)
EachCellOnce ==
  /\ \A g \in Generators : Len(cells[g]) <= 1
  /\ \A w \in Workers : pc[w] = "setup" => job[w][1] \in Generators
  /\ (positions \in Layouts /\ \A w \in Workers : pc[w] = "end") =>
       \A g \in Generators : Len(cells[g]) = 1

(* A search that ends has found a point that is closest to the position.   *)
ClosestFound ==
  Found => /\ closest.index \in Generators
           /\ \A g \in Generators :
                Distance2(positions[closest.index], closest.position)
                  <= Distance2(positions[g], closest.position)

(* The construction ends: no walk goes in circles and no two flips undo    *)
(* each other for ever.                                                    *)
GridDone == <>(\A w \in Workers : pc[w] = "end")
=============================================================================
