------------------------- MODULE NewVoronoiGrid_proofs -------------------------
(***************************************************************************)
(* Proofs about the Voronoi grid, for every number of workers, generators  *)
(* and cells of a job: the job market gives every cell to one worker only, *)
(* and the search for the cell of a position finds the closest generator.  *)
(* The second one follows the iterator through the blocks: increase_indices*)
(* is a total order of all blocks, increase_range finds the next one that  *)
(* is inside, set_max_range knows the last one, and the bounds keep the    *)
(* points that were not seen away.                                         *)
(***************************************************************************)
EXTENDS NewVoronoiGrid, FiniteSetTheorems, NaturalsInduction, WellFoundedInduction, TLAPS

(* The workers that have a job, the cells of it that are to be made, and   *)
(* the cells that were made.                                               *)
HasJob(w) == pc[w] \in {"setup", "next", "walk", "check"}
Owns(w, g) == HasJob(w) /\ job[w][1] <= g /\ g < job[w][2]
Made(g) == cells[g] # <<>>

MarketType ==
  /\ positions \in Layouts \cup Located
  /\ currentIndex \in 0 .. CellSize
  /\ pc \in [Workers -> {"idle", "take", "setup", "next", "walk", "check", "end"}]
  /\ job \in [Workers -> Int \X Int]
  /\ DOMAIN cells = Generators
  /\ \A g \in Generators : cells[g] = <<>> \/ cells[g] = <<cells[g][1]>>

(* A job is a range of cells that the market has passed, with no cell of   *)
(* another job; a cell that the market has passed is made or owned, and no *)
(* other one is.                                                           *)
Jobs ==
  /\ \A w \in Workers : HasJob(w) =>
       0 <= job[w][1] /\ job[w][1] < job[w][2] /\ job[w][2] <= currentIndex
  /\ \A v, w \in Workers :
       v # w /\ HasJob(v) /\ HasJob(w) => job[v][2] <= job[w][1] \/ job[w][2] <= job[v][1]
  /\ \A g \in Generators :
       Made(g) <=> g < currentIndex /\ \A w \in Workers : ~ Owns(w, g)

(* One worker at a time moves a constructor, which is for the first cell   *)
(* of its job.                                                             *)
Constructor ==
  /\ \A v, w \in Building : v = w
  /\ \A w \in Building :
       /\ "vertices" \in DOMAIN cell
       /\ cell.vertices \in Seq(Range(cell.vertices)) /\ cell.vertices # <<>>
       /\ Generator = job[w][1]

EndsLast ==
  positions \in Layouts => \A w \in Workers : pc[w] = "end" => currentIndex = CellSize

IInv == MarketType /\ Jobs /\ Constructor /\ EndsLast

-----------------------------------------------------------------------------
(* The number of generators of a layout is a natural number. *)
LEMMA Sizes ==
  positions \in Layouts \cup Located => CellSize \in Nat /\ Generators = 0 .. CellSize - 1
  BY LayoutAssumption, FS_CardinalityType DEF CellSize, Generators

(* The size of a job: at least one cell, as long as there are any. *)
LEMMA JobSizes ==
  ASSUME CellSize \in Nat, NEW index \in 0 .. CellSize
  PROVE  /\ SizeOfJob(index) \in 0 .. CellSize - index
         /\ index < CellSize => SizeOfJob(index) > 0
<1> DEFINE S == {JobSize, CellSize - index}
<1>1. JobSize \in Int /\ JobSize > 0
  BY LayoutAssumption
<1>2. \E x \in S : \A y \in S : x <= y
  BY <1>1
<1>3. Min(S) \in S /\ \A y \in S : Min(S) <= y
  BY <1>2 DEF Min
<1> QED
  BY <1>1, <1>3 DEF SizeOfJob

(* The first vertex stays the first one when another one is added. *)
LEMMA AppendFirst ==
  ASSUME NEW s, s \in Seq(Range(s)), s # <<>>, NEW e
  PROVE  LET t == Append(s, e) IN t \in Seq(Range(t)) /\ t # <<>> /\ t[1] = s[1]
<1> DEFINE S == Range(s) \cup {e}
           t == Append(s, e)
<1>1. s \in Seq(S)
  BY DEF Range
<1>2. t \in Seq(S) /\ Len(t) = Len(s) + 1 /\ Len(s) \in Nat \ {0}
  BY <1>1
<1>3. t[1] = s[1]
  BY <1>1, <1>2
<1>4. t \in Seq(Range(t))
  BY <1>2 DEF Range
<1> QED
  BY <1>2, <1>3, <1>4

-----------------------------------------------------------------------------
(* A flip leaves the vertices of a cell alone: b has the vertices of a. *)
Keeps(a, b) == "vertices" \in DOMAIN a => "vertices" \in DOMAIN b /\ b.vertices = a.vertices

(* Every flip is like this: it only changes tetrahedra and free slots. *)
LEMMA FlipKeeps ==
  ASSUME NEW c, NEW tn, NEW rows, NEW outer, NEW free
  PROVE  Keeps(c, Flip(c, tn, rows, outer, free).cell)
  BY DEF Flip, Keeps

(* Each flip that inserts a vertex ... *)
LEMMA SplitKeeps ==
  ASSUME NEW c, NEW x, NEW found
  PROVE  Keeps(c, Split(c, x, found).cell)
<1>1. ASSUME NEW t PROVE Keeps(c, one_to_four_flip(c, x, t).cell)
  BY FlipKeeps DEF one_to_four_flip
<1>2. ASSUME NEW s, NEW t PROVE Keeps(c, two_to_six_flip(c, x, s, t).cell)
  BY FlipKeeps, ZenonT(60) DEF two_to_six_flip
<1>3. ASSUME NEW ts PROVE Keeps(c, n_to_2n_flip(c, x, ts).cell)
  BY FlipKeeps DEF n_to_2n_flip
<1> QED
  BY <1>1, <1>2, <1>3 DEF Split

(* ... and each one that restores the empty circumspheres. *)
LEMMA CheckKeeps ==
  ASSUME NEW t
  PROVE  Keeps(cell, CheckedCell(t).cell)
<1>1. ASSUME NEW s, NEW j, NEW k PROVE Keeps(cell, two_to_three_flip(cell, t, s, j, k).cell)
  BY FlipKeeps, ZenonT(60) DEF two_to_three_flip
<1>2. ASSUME NEW r, NEW s, NEW u PROVE Keeps(cell, four_to_four_flip(cell, t, r, s, u).cell)
  BY FlipKeeps, ZenonT(60) DEF four_to_four_flip
<1>3. ASSUME NEW s, NEW u PROVE Keeps(cell, three_to_two_flip(cell, t, s, u).cell)
  <2> DEFINE freed == [cell EXCEPT !.tetrahedra[u] = Inactive]
  <2>1. Keeps(cell, freed)
    BY DEF Keeps
  <2>2. Keeps(freed, three_to_two_flip(cell, t, s, u).cell)
    BY FlipKeeps, ZenonT(60) DEF three_to_two_flip
  <2> QED
    BY <2>1, <2>2 DEF Keeps
<1>4. Keeps(cell, cell)
  BY DEF Keeps
<1>5. ASSUME NEW s, NEW r, NEW x PROVE Keeps(cell, TryFourToFour(t, s, r, x).cell)
  BY <1>2, <1>4 DEF TryFourToFour, With, Kept
<1>6. ASSUME NEW s, NEW r PROVE Keeps(cell, TryThreeToTwo(t, s, r).cell)
  BY <1>3, <1>4 DEF TryThreeToTwo, With, Kept
<1> QED
  BY <1>1, <1>4, <1>5, <1>6 DEF CheckedCell, With, Kept

-----------------------------------------------------------------------------
(* At the start no worker has a job and no cell is made. *)
LEMMA MarketInit == Init => IInv
<1> SUFFICES ASSUME Init PROVE IInv
  OBVIOUS
<1>1. CellSize \in Nat
  BY Sizes DEF Init
<1>2. MarketType
  BY <1>1 DEF Init, MarketType
<1>3. \A w \in Workers : ~ HasJob(w)
  BY DEF Init, HasJob
<1>4. Generators = 0 .. CellSize - 1 /\ \A g \in Generators : ~ Made(g)
  BY Sizes DEF Init, Made
<1>5. Jobs
  BY <1>1, <1>3, <1>4 DEF Jobs, Init
<1>6. Constructor
  BY <1>3 DEF Constructor, Building, HasJob
<1>7. EndsLast
  BY LayoutAssumption DEF EndsLast, Init
<1> QED
  BY <1>2, <1>5, <1>6, <1>7 DEF IInv

(* A worker that constructs a cell keeps its job until the cell is stored. *)
LEMMA BuildStep ==
  ASSUME IInv, NEW w \in Building, UNCHANGED market,
         NEW p \in {"next", "walk", "check"}, pc' = [pc EXCEPT ![w] = p],
         "vertices" \in DOMAIN cell',
         cell'.vertices \in Seq(Range(cell'.vertices)), cell'.vertices # <<>>,
         cell'.vertices[1] = cell.vertices[1]
  PROVE  IInv'
<1>1. /\ w \in Workers /\ HasJob(w)
      /\ positions' = positions /\ currentIndex' = currentIndex /\ job' = job /\ cells' = cells
  BY DEF Building, HasJob, market
<1>2. MarketType' /\ CellSize' = CellSize /\ Generators' = Generators
  BY <1>1 DEF IInv, MarketType, CellSize, Generators
<1>3. \A v \in Workers : /\ HasJob(v)' <=> HasJob(v)
                         /\ v \in Building' <=> v \in Building
                         /\ \A g \in Generators : Owns(v, g)' <=> Owns(v, g)
  BY <1>1 DEF IInv, MarketType, HasJob, Building, Owns
<1>4. Jobs'
  BY <1>1, <1>2, <1>3 DEF IInv, Jobs, Made
<1>5. Constructor'
  BY <1>1, <1>3 DEF IInv, Constructor, Generator, Building
<1>6. EndsLast'
  BY <1>1, <1>2 DEF IInv, EndsLast, MarketType
<1> QED
  BY <1>2, <1>4, <1>5, <1>6 DEF IInv

(* The steps of a constructor, up to the last point. *)
LEMMA ConstructorSteps ==
  ASSUME IInv, NEW w \in Workers,
         Skip(w) \/ Insert(w) \/ Walk(w) \/ AddVertex(w) \/ Check(w) \/ Inserted(w) \/ NextBlock(w)
  PROVE  IInv'
<1>1. w \in Building
  BY DEF Building, Skip, Insert, Walk, AddVertex, Check, Inserted, NextBlock
<1>2. /\ "vertices" \in DOMAIN cell
      /\ cell.vertices \in Seq(Range(cell.vertices)) /\ cell.vertices # <<>>
  BY <1>1 DEF IInv, Constructor
<1>3. pc = [pc EXCEPT ![w] = pc[w]] /\ pc[w] \in {"next", "walk", "check"}
  BY <1>1 DEF IInv, MarketType, Building
<1>4. UNCHANGED market
  BY DEF Skip, Insert, Walk, AddVertex, Check, Inserted, NextBlock
<1>5. ASSUME UNCHANGED cell, NEW p \in {"next", "walk", "check"}, pc' = [pc EXCEPT ![w] = p]
      PROVE  IInv'
  BY <1>1, <1>2, <1>4, <1>5, BuildStep
<1>6. CASE Skip(w)
  BY <1>3, <1>5, <1>6 DEF Skip
<1>7. CASE Insert(w)
  BY <1>5, <1>7 DEF Insert
<1>8. CASE Walk(w)
  BY <1>3, <1>5, <1>8 DEF Walk
<1>9. CASE AddVertex(w)
  <2>1. PICK found : cell' = [Split(cell, Len(cell.vertices), found).cell EXCEPT
                                !.vertices = Append(@, Head(todo))]
    BY <1>9 DEF AddVertex
  <2> DEFINE split == Split(cell, Len(cell.vertices), found).cell
  <2>2. "vertices" \in DOMAIN split /\ split.vertices = cell.vertices
    BY <1>2, SplitKeeps DEF Keeps
  <2>3. "vertices" \in DOMAIN cell' /\ cell'.vertices = Append(cell.vertices, Head(todo))
    <3> HIDE DEF split
    <3> QED
      BY <2>1, <2>2 DEF split
  <2>4. pc' = [pc EXCEPT ![w] = "check"]
    BY <1>9 DEF AddVertex
  <2>5. /\ cell'.vertices \in Seq(Range(cell'.vertices)) /\ cell'.vertices # <<>>
        /\ cell'.vertices[1] = cell.vertices[1]
    BY <1>2, <2>3, AppendFirst
  <2> QED
    BY <1>1, <1>4, <2>3, <2>4, <2>5, BuildStep
<1>10. CASE Check(w)
  <2>1. PICK t : cell' = CheckedCell(t).cell
    BY <1>10 DEF Check
  <2>2. "vertices" \in DOMAIN cell' /\ cell'.vertices = cell.vertices
    BY <1>2, <2>1, CheckKeeps DEF Keeps
  <2>3. pc' = [pc EXCEPT ![w] = pc[w]]
    BY <1>3, <1>10 DEF Check
  <2> QED
    BY <1>1, <1>2, <1>3, <1>4, <2>2, <2>3, BuildStep
<1>11. CASE Inserted(w)
  BY <1>5, <1>11 DEF Inserted
<1>12. CASE NextBlock(w)
  BY <1>3, <1>5, <1>12 DEF NextBlock
<1> QED
  BY <1>6, <1>7, <1>8, <1>9, <1>10, <1>11, <1>12

-----------------------------------------------------------------------------
(* A worker that finds no cell left before it takes the lock ends. *)
LEMMA TestStep == ASSUME IInv, NEW w \in Workers, TestIndex(w) PROVE IInv'
<1>1. /\ positions' = positions /\ currentIndex' = currentIndex /\ job' = job
      /\ cells' = cells /\ cell' = cell
      /\ pc' = [pc EXCEPT ![w] = IF currentIndex = CellSize THEN "end" ELSE "take"]
      /\ pc[w] = "idle"
  BY DEF TestIndex, market, construction
<1>2. MarketType' /\ CellSize' = CellSize /\ Generators' = Generators
  BY <1>1 DEF IInv, MarketType, CellSize, Generators
<1>3. \A v \in Workers : /\ HasJob(v)' <=> HasJob(v)
                         /\ v \in Building' <=> v \in Building
                         /\ \A g \in Generators : Owns(v, g)' <=> Owns(v, g)
  BY <1>1 DEF IInv, MarketType, HasJob, Building, Owns
<1>4. Jobs'
  BY <1>1, <1>2, <1>3 DEF IInv, Jobs, Made
<1>5. Constructor'
  BY <1>1, <1>3 DEF IInv, Constructor, Generator, Building
<1>6. EndsLast'
  BY <1>1, <1>2 DEF IInv, EndsLast, MarketType
<1> QED
  BY <1>2, <1>4, <1>5, <1>6 DEF IInv

(* A job is the next range, which nobody owns and of which no cell is made;*)
(* with the lock the worker looks again whether there is one.              *)
LEMMA TakeStep == ASSUME IInv, NEW w \in Workers, TakeJob(w) PROVE IInv'
<1> DEFINE size == SizeOfJob(currentIndex)
<1>1. /\ positions' = positions /\ currentIndex' = currentIndex + size
      /\ cells' = cells /\ cell' = cell /\ pc[w] = "take"
      /\ \/ /\ currentIndex < CellSize
            /\ job' = [job EXCEPT ![w] = <<currentIndex, currentIndex + size>>]
            /\ pc' = [pc EXCEPT ![w] = "setup"]
         \/ /\ ~ (currentIndex < CellSize)
            /\ job' = job
            /\ pc' = [pc EXCEPT ![w] = "end"]
  BY DEF TakeJob, IsCell, construction
<1>2. CellSize \in Nat /\ Generators = 0 .. CellSize - 1 /\ currentIndex \in 0 .. CellSize
  BY Sizes DEF IInv, MarketType
<1>3. size \in 0 .. CellSize - currentIndex /\ (currentIndex < CellSize => size > 0)
  BY <1>2, JobSizes
<1> HIDE DEF size
<1>4. currentIndex + size \in currentIndex .. CellSize
  BY <1>2, <1>3
<1>5. CellSize' = CellSize /\ Generators' = Generators
  BY <1>1 DEF CellSize, Generators
<1>6. MarketType'
  <2>1. <<currentIndex, currentIndex + size>> \in Int \X Int
    BY <1>2, <1>4
  <2>2. job' \in [Workers -> Int \X Int]
    BY <1>1, <2>1 DEF IInv, MarketType
  <2>3. pc' \in [Workers -> {"idle", "take", "setup", "next", "walk", "check", "end"}]
    BY <1>1 DEF IInv, MarketType
  <2>4. currentIndex' \in 0 .. CellSize
    BY <1>1, <1>2, <1>4
  <2> QED
    BY <1>1, <1>5, <2>2, <2>3, <2>4 DEF IInv, MarketType
<1>7. \A v \in Workers \ {w} :
        /\ HasJob(v)' <=> HasJob(v)
        /\ job'[v] = job[v]
        /\ \A g \in Generators : Owns(v, g)' <=> Owns(v, g)
  BY <1>1 DEF IInv, MarketType, HasJob, Owns
<1>8. \A v \in Workers : v \in Building' <=> v \in Building
  BY <1>1 DEF IInv, MarketType, Building
<1>9. ~ HasJob(w)
  BY <1>1 DEF HasJob
<1>10. Jobs'
  <2>1. CASE currentIndex < CellSize
    <3>1. /\ HasJob(w)' /\ job'[w][1] = currentIndex /\ job'[w][2] = currentIndex'
          /\ currentIndex < currentIndex'
      BY <1>1, <1>2, <1>3, <2>1 DEF IInv, MarketType, HasJob
    <3>2. \A g \in Generators : Owns(w, g)' <=> currentIndex <= g /\ g < currentIndex'
      BY <3>1 DEF Owns
    <3>3. \A v \in Workers : HasJob(v)' =>
            0 <= job'[v][1] /\ job'[v][1] < job'[v][2] /\ job'[v][2] <= currentIndex'
      BY <1>1, <1>2, <1>4, <1>6, <1>7, <3>1 DEF IInv, Jobs, MarketType
    <3>4. \A u, v \in Workers : u # v /\ HasJob(u)' /\ HasJob(v)' =>
            job'[u][2] <= job'[v][1] \/ job'[v][2] <= job'[u][1]
      BY <1>7, <3>1 DEF IInv, Jobs
    <3>5. ASSUME NEW g \in Generators
          PROVE  Made(g)' <=> g < currentIndex' /\ \A v \in Workers : ~ Owns(v, g)'
      <4>1. Made(g)' <=> Made(g)
        BY <1>1 DEF Made
      <4>2. Made(g) <=> g < currentIndex /\ \A v \in Workers : ~ Owns(v, g)
        BY DEF IInv, Jobs
      <4>3. \A v \in Workers : Owns(v, g) => g < currentIndex
        BY <1>2 DEF IInv, Jobs, Owns, MarketType
      <4>4. ~ Owns(w, g)
        BY <1>9 DEF Owns
      <4> QED
        BY <1>1, <1>2, <1>4, <1>7, <3>2, <4>1, <4>2, <4>3, <4>4
    <3> QED
      BY <1>5, <3>3, <3>4, <3>5 DEF Jobs
  <2>2. CASE ~ (currentIndex < CellSize)
    <3>1. currentIndex' = currentIndex /\ job' = job
      BY <1>1, <1>2, <1>4, <2>2
    <3>2. ~ HasJob(w)' /\ \A g \in Generators : ~ Owns(w, g) /\ ~ Owns(w, g)'
      BY <1>1, <1>9, <2>2 DEF IInv, MarketType, HasJob, Owns
    <3> QED
      BY <1>1, <1>5, <1>7, <1>9, <3>1, <3>2 DEF IInv, Jobs, Made
  <2> QED
    BY <2>1, <2>2
<1>11. Constructor'
  <2>1. \A v \in Building : v # w /\ v \in Workers
    BY <1>1 DEF Building
  <2> QED
    BY <1>1, <1>7, <1>8, <2>1 DEF IInv, Constructor, Generator, Building
<1>12. EndsLast'
  <2>1. ASSUME positions \in Layouts, NEW v \in Workers, pc'[v] = "end"
        PROVE  currentIndex' = CellSize
    <3>1. CASE v = w
      BY <1>1, <1>2, <1>4, <2>1, <3>1 DEF IInv, MarketType
    <3>2. CASE v # w
      <4>1. pc[v] = "end"
        BY <1>1, <2>1, <3>2 DEF IInv, MarketType
      <4> QED
        BY <1>2, <1>4, <2>1, <4>1, <1>1 DEF IInv, EndsLast
    <3> QED
      BY <3>1, <3>2
  <2> QED
    BY <1>1, <1>5, <2>1 DEF EndsLast
<1> QED
  BY <1>6, <1>10, <1>11, <1>12 DEF IInv

(* A constructor is set up for the first cell of the job, when no other    *)
(* one moves.                                                              *)
LEMMA SetupStep == ASSUME IInv, NEW w \in Workers, Setup(w) PROVE IInv'
<1>1. /\ positions' = positions /\ currentIndex' = currentIndex /\ job' = job
      /\ cells' = cells /\ pc' = [pc EXCEPT ![w] = "next"]
      /\ pc[w] = "setup" /\ Building = {}
      /\ cell' = [vertices |-> <<job[w][1], 100, 101, 102, 103>>,
                  tetrahedra |-> FirstTetrahedra, free |-> <<>>]
  BY DEF Setup, market
<1>2. MarketType' /\ CellSize' = CellSize /\ Generators' = Generators
  BY <1>1 DEF IInv, MarketType, CellSize, Generators
<1>3. \A v \in Workers : /\ HasJob(v)' <=> HasJob(v)
                         /\ v \in Building' <=> v = w
                         /\ \A g \in Generators : Owns(v, g)' <=> Owns(v, g)
  BY <1>1 DEF IInv, MarketType, HasJob, Building, Owns
<1>4. Jobs'
  BY <1>1, <1>2, <1>3 DEF IInv, Jobs, Made
<1>5. Constructor'
  <2>1. "vertices" \in DOMAIN cell' /\ cell'.vertices = <<job[w][1], 100, 101, 102, 103>>
    BY <1>1
  <2>2. job[w][1] \in Int
    BY DEF IInv, MarketType
  <2>3. cell'.vertices \in Seq(Int) /\ cell'.vertices # <<>> /\ cell'.vertices[1] = job[w][1]
    BY <2>1, <2>2
  <2>4. cell'.vertices \in Seq(Range(cell'.vertices))
    BY <2>3 DEF Range
  <2>5. \A v \in Building' : v = w
    BY <1>3 DEF Building
  <2> QED
    BY <1>1, <2>1, <2>3, <2>4, <2>5 DEF Constructor, Generator
<1>6. EndsLast'
  BY <1>1, <1>2 DEF IInv, EndsLast, MarketType
<1> QED
  BY <1>2, <1>4, <1>5, <1>6 DEF IInv

(* The cell that is stored is the first one of the job, which nobody else  *)
(* owns, and the job goes on with the next one.                            *)
LEMMA StoreStep == ASSUME IInv, NEW w \in Workers, StoreCell(w) PROVE IInv'
<1> DEFINE first == job[w][1]
           last == job[w][2]
<1>1. /\ positions' = positions /\ currentIndex' = currentIndex
      /\ cells' = [cells EXCEPT ![Generator] = Append(@, FacesOf(cell))]
      /\ job' = [job EXCEPT ![w][1] = @ + 1]
      /\ pc' = [pc EXCEPT ![w] = IF first + 1 < last THEN "setup" ELSE "idle"]
      /\ pc[w] = "next" /\ w \in Building
  BY DEF StoreCell, Building
<1>2. CellSize \in Nat /\ Generators = 0 .. CellSize - 1 /\ currentIndex \in 0 .. CellSize
  BY Sizes DEF IInv, MarketType
<1>3. /\ HasJob(w) /\ first \in Int /\ last \in Int
      /\ 0 <= first /\ first < last /\ last <= currentIndex
      /\ Generator = first /\ first \in Generators
  BY <1>1, <1>2 DEF IInv, Jobs, MarketType, Constructor, HasJob
<1>4. Owns(w, first) /\ ~ Made(first)
  BY <1>3 DEF IInv, Jobs, Owns
<1>5. CellSize' = CellSize /\ Generators' = Generators
  BY <1>1 DEF CellSize, Generators
<1>6. /\ cells'[first] = <<FacesOf(cell)>> /\ DOMAIN cells' = Generators
      /\ \A g \in Generators \ {first} : cells'[g] = cells[g]
  <2>1. cells[first] = <<>>
    BY <1>4 DEF Made
  <2>2. Append(<<>>, FacesOf(cell)) = <<FacesOf(cell)>>
    OBVIOUS
  <2> QED
    BY <1>1, <1>3, <2>1, <2>2 DEF IInv, MarketType
<1>7. job'[w] = <<first + 1, last>> /\ \A v \in Workers \ {w} : job'[v] = job[v]
  BY <1>1 DEF IInv, MarketType
<1>8. MarketType'
  <2>1. job' \in [Workers -> Int \X Int]
    BY <1>1, <1>3, <1>7 DEF IInv, MarketType
  <2>2. pc' \in [Workers -> {"idle", "take", "setup", "next", "walk", "check", "end"}]
    BY <1>1 DEF IInv, MarketType
  <2>3. \A g \in Generators : cells'[g] = <<>> \/ cells'[g] = <<cells'[g][1]>>
    BY <1>6 DEF IInv, MarketType
  <2> QED
    BY <1>1, <1>5, <1>6, <2>1, <2>2, <2>3 DEF IInv, MarketType
<1>9. \A v \in Workers \ {w} :
        /\ HasJob(v)' <=> HasJob(v)
        /\ \A g \in Generators : Owns(v, g)' <=> Owns(v, g)
  BY <1>1, <1>7 DEF IInv, MarketType, HasJob, Owns
<1>10. /\ HasJob(w)' <=> first + 1 < last
       /\ job'[w][1] = first + 1 /\ job'[w][2] = last
  BY <1>1, <1>7 DEF IInv, MarketType, HasJob
<1>11. \A g \in Generators : Owns(w, g)' <=> Owns(w, g) /\ g # first
  BY <1>2, <1>3, <1>10 DEF Owns
<1>12. Jobs'
  <2>1. \A v \in Workers : HasJob(v)' =>
          0 <= job'[v][1] /\ job'[v][1] < job'[v][2] /\ job'[v][2] <= currentIndex'
    BY <1>1, <1>3, <1>7, <1>9, <1>10 DEF IInv, Jobs
  <2>2. \A u, v \in Workers : u # v /\ HasJob(u)' /\ HasJob(v)' =>
          job'[u][2] <= job'[v][1] \/ job'[v][2] <= job'[u][1]
    <3>1. \A v \in Workers : v # w /\ HasJob(v)' => last <= job[v][1] \/ job[v][2] <= first
      BY <1>3, <1>9 DEF IInv, Jobs
    <3>2. \A v \in Workers : job[v][1] \in Int /\ job[v][2] \in Int
      BY DEF IInv, MarketType
    <3>3. \A v \in Workers : v # w /\ HasJob(v)' =>
            job'[w][2] <= job'[v][1] \/ job'[v][2] <= job'[w][1]
      BY <1>3, <1>7, <1>10, <3>1, <3>2
    <3>4. \A u, v \in Workers : u # v /\ u # w /\ v # w /\ HasJob(u)' /\ HasJob(v)' =>
            job'[u][2] <= job'[v][1] \/ job'[v][2] <= job'[u][1]
      BY <1>7, <1>9 DEF IInv, Jobs
    <3> QED
      BY <3>3, <3>4
  <2>3. ASSUME NEW g \in Generators
        PROVE  Made(g)' <=> g < currentIndex' /\ \A v \in Workers : ~ Owns(v, g)'
    <3>1. Made(g) <=> g < currentIndex /\ \A v \in Workers : ~ Owns(v, g)
      BY DEF IInv, Jobs
    <3>2. CASE g = first
      <4>1. Made(g)'
        BY <1>6, <3>2 DEF Made
      <4>2. ASSUME NEW v \in Workers \ {w} PROVE ~ Owns(v, first)
        BY <1>3 DEF IInv, Jobs, Owns, MarketType
      <4> QED
        BY <1>1, <1>2, <1>3, <1>9, <1>11, <3>2, <4>1, <4>2
    <3>3. CASE g # first
      <4>1. Made(g)' <=> Made(g)
        BY <1>6, <3>3 DEF Made
      <4> QED
        BY <1>1, <1>9, <1>11, <3>1, <3>3, <4>1
    <3> QED
      BY <3>2, <3>3
  <2> QED
    BY <1>5, <2>1, <2>2, <2>3 DEF Jobs
<1>13. Constructor'
  <2>1. \A v \in Building' : v \in Building /\ v # w
    BY <1>1 DEF IInv, MarketType, Building
  <2> QED
    BY <1>1, <2>1 DEF IInv, Constructor
<1>14. EndsLast'
  BY <1>1, <1>5 DEF IInv, EndsLast, MarketType
<1> QED
  BY <1>8, <1>12, <1>13, <1>14 DEF IInv

-----------------------------------------------------------------------------
(* Every step keeps the invariant; a search changes nothing of the market. *)
LEMMA MarketNext == IInv /\ [Next]_vars => IInv'
<1> SUFFICES ASSUME IInv, [Next]_vars PROVE IInv'
  OBVIOUS
<1>1. ASSUME NEW w \in Workers, WorkerStep(w) PROVE IInv'
  BY <1>1, TestStep, TakeStep, SetupStep, StoreStep, ConstructorSteps DEF WorkerStep
<1>2. ASSUME UNCHANGED <<market, pc, cell>> PROVE IInv'
  BY <1>2 DEF market, IInv, MarketType, Jobs, Constructor, EndsLast, HasJob, Owns, Made,
              Building, Generator, Generators, CellSize
<1>3. ASSUME NEW p \in Queries, Locate(p) PROVE IInv'
  BY <1>2, <1>3 DEF Locate
<1>4. CASE SearchBlock
  BY <1>2, <1>4 DEF SearchBlock
<1>5. CASE Return
  BY <1>2, <1>5 DEF Return
<1>6. CASE UNCHANGED vars
  BY <1>2, <1>6 DEF vars, market
<1> QED
  BY <1>1, <1>3, <1>4, <1>5, <1>6 DEF Next

(* No cell of the Voronoi grid is made twice, however the workers read the *)
(* index of the market, and when they have ended every cell is made.       *)
THEOREM CellsOnce == Spec => []EachCellOnce
<1>1. IInv => EachCellOnce
  <2> SUFFICES ASSUME IInv PROVE EachCellOnce
    OBVIOUS
  <2>1. CellSize \in Nat /\ Generators = 0 .. CellSize - 1 /\ currentIndex \in 0 .. CellSize
    BY Sizes DEF IInv, MarketType
  <2>2. ASSUME NEW g \in Generators
        PROVE  Len(cells[g]) <= 1 /\ (Made(g) => Len(cells[g]) = 1)
    <3>1. CASE cells[g] = <<>>
      BY <3>1 DEF Made
    <3>2. ASSUME NEW x, cells[g] = <<x>> PROVE Len(cells[g]) = 1
      BY <3>2
    <3>3. CASE cells[g] = <<cells[g][1]>>
      <4>1. Len(cells[g]) = 1
        BY <3>2, <3>3
      <4> QED
        BY <4>1
    <3> QED
      BY <3>1, <3>3 DEF IInv, MarketType
  <2>3. ASSUME NEW w \in Workers, pc[w] = "setup" PROVE job[w][1] \in Generators
    BY <2>1, <2>3 DEF IInv, MarketType, Jobs, HasJob
  <2>4. ASSUME positions \in Layouts, \A w \in Workers : pc[w] = "end", NEW g \in Generators
        PROVE  Made(g)
    <3>1. currentIndex = CellSize
      BY <2>4, LayoutAssumption DEF IInv, EndsLast
    <3>2. \A w \in Workers : ~ Owns(w, g)
      BY <2>4 DEF Owns, HasJob
    <3> QED
      BY <2>1, <3>1, <3>2 DEF IInv, Jobs
  <2> QED
    BY <2>2, <2>3, <2>4 DEF EachCellOnce
<1> QED
  BY <1>1, MarketInit, MarketNext, PTL DEF Spec

-----------------------------------------------------------------------------
(* The order of the blocks: by level, then by their ranges; x, y, z at     *)
(* level l is before e, f, g at level h.                                   *)
Lex(l, x, y, z, h, e, f, g) ==
  \/ l < h
  \/ l = h /\ (x < e \/ (x = e /\ (y < f \/ (y = f /\ z < g))))

(* Block s comes after block r. *)
After(s, r) ==
  Lex(r.level, r.range[1], r.range[2], r.range[3], s.level, s.range[1], s.range[2], s.range[3])

(* x, y and z are the ranges of a block at level l. *)
OnShell(x, y, z, l) ==
  /\ x \in Int /\ y \in Int /\ z \in Int /\ l \in Nat
  /\ -l <= x /\ x <= l /\ -l <= y /\ y <= l /\ -l <= z /\ z <= l
  /\ x \in {l, -l} \/ y \in {l, -l} \/ z \in {l, -l}

Triple(x, y, z, l) == [range |-> <<x, y, z>>, level |-> l]

(* Such ranges are a block of the search, ... *)
LEMMA TripleShell ==
  ASSUME NEW x, NEW y, NEW z, NEW l, OnShell(x, y, z, l)
  PROVE  Triple(x, y, z, l) \in Shells
<1> DEFINE f == <<x, y, z>>
<1>1. f \in [Axis -> Int] /\ f[1] = x /\ f[2] = y /\ f[3] = z
  <2>1. f \in [1 .. 3 -> Int]
    BY DEF OnShell
  <2> QED
    BY <2>1 DEF Axis
<1> HIDE DEF f
<1>2. [range |-> f, level |-> l] \in [range : [Axis -> Int], level : Nat]
  BY <1>1 DEF OnShell
<1>3. Axis = {1, 2, 3}
  BY DEF Axis
<1>4. \A k \in Axis : Absolute(f[k]) <= l
  BY <1>1, <1>3 DEF OnShell, Absolute
<1>5. \E k \in Axis : Absolute(f[k]) = l
  BY <1>1, <1>3 DEF OnShell, Absolute
<1>6. [range |-> f, level |-> l] \in Shells
  BY <1>2, <1>4, <1>5 DEF Shells
<1> QED
  BY <1>6 DEF Triple, f

(* ... and every block is made of them. *)
LEMMA ShellTriple ==
  ASSUME NEW r \in Shells
  PROVE  /\ OnShell(r.range[1], r.range[2], r.range[3], r.level)
         /\ r = Triple(r.range[1], r.range[2], r.range[3], r.level)
         /\ r = [range |-> r.range, level |-> r.level] /\ r.range \in [Axis -> Int]
<1>1. r.range \in [Axis -> Int] /\ r.level \in Nat /\ r = [range |-> r.range, level |-> r.level]
  BY DEF Shells
<1>2. Axis = {1, 2, 3}
  BY DEF Axis
<1>3. r.range[1] \in Int /\ r.range[2] \in Int /\ r.range[3] \in Int
  BY <1>1, <1>2
<1>4. /\ \A k \in Axis : Absolute(r.range[k]) <= r.level
      /\ \E k \in Axis : Absolute(r.range[k]) = r.level
  BY DEF Shells
<1>5. OnShell(r.range[1], r.range[2], r.range[3], r.level)
  <2>1. Absolute(r.range[1]) <= r.level /\ Absolute(r.range[2]) <= r.level
        /\ Absolute(r.range[3]) <= r.level
    BY <1>2, <1>4
  <2>2. \/ Absolute(r.range[1]) = r.level \/ Absolute(r.range[2]) = r.level
        \/ Absolute(r.range[3]) = r.level
    BY <1>2, <1>4
  <2> QED
    BY <1>1, <1>3, <2>1, <2>2 DEF OnShell, Absolute
<1>6. r.range = <<r.range[1], r.range[2], r.range[3]>>
  <2> DEFINE f == r.range
             g == <<f[1], f[2], f[3]>>
  <2>1. DOMAIN f = Axis /\ f = [k \in Axis |-> f[k]]
    BY <1>1
  <2>2. DOMAIN g = Axis /\ g = [k \in Axis |-> g[k]] /\ g[1] = f[1] /\ g[2] = f[2] /\ g[3] = f[3]
    BY DEF Axis
  <2> HIDE DEF f, g
  <2>3. \A k \in Axis : f[k] = g[k]
    BY <1>2, <2>2
  <2>4. f = g
    BY <2>1, <2>2, <2>3
  <2> QED
    BY <2>4 DEF f, g
<1> QED
  BY <1>1, <1>5, <1>6 DEF Triple

(* The range of a block tells its level. *)
LEMMA SameRange ==
  ASSUME NEW r \in Shells, NEW s \in Shells, r.range = s.range
  PROVE  r = s
<1>1. /\ OnShell(r.range[1], r.range[2], r.range[3], r.level)
      /\ OnShell(s.range[1], s.range[2], s.range[3], s.level)
  BY ShellTriple
<1>2. r.level = s.level
  BY <1>1 DEF OnShell
<1>3. r = [range |-> r.range, level |-> r.level] /\ s = [range |-> s.range, level |-> s.level]
  BY ShellTriple
<1> QED
  BY <1>2, <1>3

(* The order is total ... *)
LEMMA Same ==
  ASSUME NEW r \in Shells, NEW s \in Shells, ~ After(r, s), ~ After(s, r)
  PROVE  r = s
<1>1. /\ r.range[1] \in Int /\ r.range[2] \in Int /\ r.range[3] \in Int /\ r.level \in Int
      /\ s.range[1] \in Int /\ s.range[2] \in Int /\ s.range[3] \in Int /\ s.level \in Int
  BY ShellTriple DEF OnShell
<1>2. /\ r.range[1] = s.range[1] /\ r.range[2] = s.range[2] /\ r.range[3] = s.range[3]
      /\ r.level = s.level
  BY <1>1 DEF After, Lex
<1>3. /\ r = Triple(r.range[1], r.range[2], r.range[3], r.level)
      /\ s = Triple(s.range[1], s.range[2], s.range[3], s.level)
  BY ShellTriple
<1> QED
  BY <1>2, <1>3

(* ... and transitive. *)
LEMMA Later ==
  ASSUME NEW r \in Shells, NEW s \in Shells, NEW t \in Shells
  PROVE  /\ ~ After(r, r)
         /\ After(s, r) => ~ After(r, s)
         /\ After(s, r) /\ After(t, s) => After(t, r)
         /\ After(s, r) /\ ~ After(s, t) => After(t, r)
         /\ ~ After(r, s) /\ After(t, s) => After(t, r)
<1>1. /\ r.range[1] \in Int /\ r.range[2] \in Int /\ r.range[3] \in Int /\ r.level \in Int
      /\ s.range[1] \in Int /\ s.range[2] \in Int /\ s.range[3] \in Int /\ s.level \in Int
      /\ t.range[1] \in Int /\ t.range[2] \in Int /\ t.range[3] \in Int /\ t.level \in Int
  BY ShellTriple DEF OnShell
<1> QED
  BY <1>1 DEF After, Lex

(* The indices are increased to the next block in this order. *)
LEMMA Successor ==
  ASSUME NEW r \in Shells
  PROVE  /\ IncreaseIndices(r) \in Shells
         /\ After(IncreaseIndices(r), r)
         /\ IncreaseIndices(r).level <= r.level + 1
         /\ \A s \in Shells : After(s, r) => ~ After(IncreaseIndices(r), s)
<1> DEFINE x == r.range[1]
           y == r.range[2]
           z == r.range[3]
           l == r.level
           i == IncreaseIndices(r)
           Next1 == /\ i \in Shells /\ After(i, r) /\ i.level <= l + 1
                    /\ \A s \in Shells : After(s, r) => ~ After(i, s)
<1>1. OnShell(x, y, z, l) /\ r = Triple(x, y, z, l)
  BY ShellTriple
<1>2. \A a, b, c : [r EXCEPT !.range = <<a, b, c>>] = Triple(a, b, c, l)
  BY <1>1 DEF Triple
<1>3. i = IF z < l
          THEN IF Absolute(x) < l /\ Absolute(y) < l THEN Triple(x, y, l, l)
               ELSE Triple(x, y, z + 1, l)
          ELSE IF y < l THEN Triple(x, y + 1, -l, l)
          ELSE IF x < l THEN Triple(x + 1, -l, -l, l)
          ELSE Triple(-(l + 1), -(l + 1), -(l + 1), l + 1)
  BY <1>2, Zenon DEF IncreaseIndices, Triple
<1> HIDE DEF i
<1>4. \A a, b, c, d : /\ Triple(a, b, c, d).level = d /\ Triple(a, b, c, d).range[1] = a
                      /\ Triple(a, b, c, d).range[2] = b /\ Triple(a, b, c, d).range[3] = c
  BY DEF Triple
<1>5. ASSUME NEW a, NEW b, NEW c, NEW d, i = Triple(a, b, c, d), OnShell(a, b, c, d),
             d <= l + 1, Lex(l, x, y, z, d, a, b, c),
             \A h, e, f, g : OnShell(e, f, g, h) /\ Lex(l, x, y, z, h, e, f, g) =>
                               ~ Lex(h, e, f, g, d, a, b, c)
      PROVE  Next1
  <2>1. i \in Shells /\ i.level = d /\ i.range[1] = a /\ i.range[2] = b /\ i.range[3] = c
    BY <1>4, <1>5, TripleShell
  <2>2. After(i, r)
    BY <1>5, <2>1 DEF After, Lex
  <2>3. ASSUME NEW s \in Shells, After(s, r) PROVE ~ After(i, s)
    <3>1. OnShell(s.range[1], s.range[2], s.range[3], s.level)
      BY ShellTriple
    <3> QED
      BY <1>5, <2>1, <2>3, <3>1 DEF After, Lex
  <2> QED
    BY <1>5, <2>1, <2>2, <2>3
<1> HIDE DEF x, y, z, l, Next1
<1> SUFFICES Next1
  BY DEF Next1, i, l
<1>6. CASE z < l /\ Absolute(x) < l /\ Absolute(y) < l
  <2>1. i = Triple(x, y, l, l)
    BY <1>3, <1>6
  <2>2. OnShell(x, y, l, l) /\ Lex(l, x, y, z, l, x, y, l) /\ l <= l + 1
    BY <1>1, <1>6 DEF OnShell, Absolute, Lex
  <2>3. ASSUME NEW h, NEW e, NEW f, NEW g, OnShell(e, f, g, h), Lex(l, x, y, z, h, e, f, g)
        PROVE  ~ Lex(h, e, f, g, l, x, y, l)
    BY <1>1, <1>6, <2>3 DEF OnShell, Absolute, Lex
  <2> QED
    BY <1>5, <2>1, <2>2, <2>3
<1>7. CASE z < l /\ ~ (Absolute(x) < l /\ Absolute(y) < l)
  <2>1. i = Triple(x, y, z + 1, l)
    BY <1>3, <1>7
  <2>2. OnShell(x, y, z + 1, l) /\ Lex(l, x, y, z, l, x, y, z + 1) /\ l <= l + 1
    BY <1>1, <1>7 DEF OnShell, Absolute, Lex
  <2>3. ASSUME NEW h, NEW e, NEW f, NEW g, OnShell(e, f, g, h), Lex(l, x, y, z, h, e, f, g)
        PROVE  ~ Lex(h, e, f, g, l, x, y, z + 1)
    BY <1>1, <1>7, <2>3 DEF OnShell, Absolute, Lex
  <2> QED
    BY <1>5, <2>1, <2>2, <2>3
<1>8. CASE ~ (z < l) /\ y < l
  <2>1. i = Triple(x, y + 1, -l, l)
    BY <1>3, <1>8
  <2>2. OnShell(x, y + 1, -l, l) /\ Lex(l, x, y, z, l, x, y + 1, -l) /\ l <= l + 1
    BY <1>1, <1>8 DEF OnShell, Lex
  <2>3. ASSUME NEW h, NEW e, NEW f, NEW g, OnShell(e, f, g, h), Lex(l, x, y, z, h, e, f, g)
        PROVE  ~ Lex(h, e, f, g, l, x, y + 1, -l)
    BY <1>1, <1>8, <2>3 DEF OnShell, Lex
  <2> QED
    BY <1>5, <2>1, <2>2, <2>3
<1>9. CASE ~ (z < l) /\ ~ (y < l) /\ x < l
  <2>1. i = Triple(x + 1, -l, -l, l)
    BY <1>3, <1>9
  <2>2. OnShell(x + 1, -l, -l, l) /\ Lex(l, x, y, z, l, x + 1, -l, -l) /\ l <= l + 1
    BY <1>1, <1>9 DEF OnShell, Lex
  <2>3. ASSUME NEW h, NEW e, NEW f, NEW g, OnShell(e, f, g, h), Lex(l, x, y, z, h, e, f, g)
        PROVE  ~ Lex(h, e, f, g, l, x + 1, -l, -l)
    BY <1>1, <1>9, <2>3 DEF OnShell, Lex
  <2> QED
    BY <1>5, <2>1, <2>2, <2>3
<1>10. CASE ~ (z < l) /\ ~ (y < l) /\ ~ (x < l)
  <2>1. i = Triple(-(l + 1), -(l + 1), -(l + 1), l + 1)
    BY <1>3, <1>10
  <2>2. OnShell(-(l + 1), -(l + 1), -(l + 1), l + 1) /\ Lex(l, x, y, z, l + 1, -(l + 1), -(l + 1), -(l + 1)) /\ l + 1 <= l + 1
    BY <1>1, <1>10 DEF OnShell, Lex
  <2>3. ASSUME NEW h, NEW e, NEW f, NEW g, OnShell(e, f, g, h), Lex(l, x, y, z, h, e, f, g)
        PROVE  ~ Lex(h, e, f, g, l + 1, -(l + 1), -(l + 1), -(l + 1))
    BY <1>1, <1>10, <2>3 DEF OnShell, Lex
  <2> QED
    BY <1>5, <2>1, <2>2, <2>3
<1> QED
  BY <1>6, <1>7, <1>8, <1>9, <1>10

(* A number for each block up to a level, in this order. *)
Rank(r, size) ==
  ((r.level * size + r.range[1]) * size + r.range[2]) * size + r.range[3]

(* A larger leading digit makes a larger number. *)
LEMMA Digits ==
  ASSUME NEW m \in Nat, NEW a \in Int, NEW b \in Int, NEW x \in -m .. m, NEW y \in -m .. m,
         a < b \/ (a = b /\ x < y)
  PROVE  a * (2 * m + 1) + x < b * (2 * m + 1) + y
<1> DEFINE n == 2 * m + 1
<1>1. n \in Int /\ n > 2 * m
  OBVIOUS
<1> HIDE DEF n
<1>2. CASE a = b
  <2>1. a * n = b * n /\ a * n \in Int
    BY <1>1, <1>2
  <2> DEFINE p == a * n
  <2>2. a * n = p /\ b * n = p /\ p \in Int /\ x \in Int /\ y \in Int /\ x < y
    BY <2>1, <1>2
  <2> HIDE DEF p
  <2> QED
    BY <2>2 DEF n
<1>3. CASE a < b
  <2> DEFINE c == b - a
             p == a * n
             q == c * n
  <2>1. c \in Nat /\ c >= 1 /\ b = a + c
    BY <1>3
  <2>2. q \in Int /\ q >= n /\ p \in Int
    BY <1>1, <2>1
  <2>3. b * n = p + q
    BY <1>1, <2>1
  <2> HIDE DEF c, p, q
  <2>4. p + x < p + q + y
    BY <1>1, <2>2
  <2> QED
    BY <2>3, <2>4 DEF p, n
<1> QED
  BY <1>2, <1>3

(* A later block has a larger number. *)
LEMMA Ranks ==
  ASSUME NEW m \in Nat, NEW r \in Shells, NEW s \in Shells, r.level <= m, s.level <= m
  PROVE  LET n == 2 * m + 1 IN
         /\ Rank(r, n) \in Int
         /\ After(s, r) => Rank(r, n) < Rank(s, n)
<1> DEFINE n == 2 * m + 1
           r1 == r.level * n + r.range[1]
           r2 == r1 * n + r.range[2]
           r3 == r2 * n + r.range[3]
           s1 == s.level * n + s.range[1]
           s2 == s1 * n + s.range[2]
           s3 == s2 * n + s.range[3]
<1>1. /\ n \in Nat /\ r.level \in Int /\ s.level \in Int
      /\ r.range[1] \in -m .. m /\ r.range[2] \in -m .. m /\ r.range[3] \in -m .. m
      /\ s.range[1] \in -m .. m /\ s.range[2] \in -m .. m /\ s.range[3] \in -m .. m
  BY ShellTriple DEF OnShell
<1>2. r1 \in Int /\ s1 \in Int
  BY <1>1
<1>3. r2 \in Int /\ s2 \in Int
  <2> HIDE DEF r1, s1
  <2> QED
    BY <1>1, <1>2
<1>4. r3 \in Int /\ s3 \in Int
  <2> HIDE DEF r2, s2
  <2> QED
    BY <1>1, <1>3
<1>5. ASSUME After(s, r) PROVE r3 < s3
  <2>1. \/ r.level < s.level
        \/ /\ r.level = s.level
           /\ \/ r.range[1] < s.range[1]
              \/ /\ r.range[1] = s.range[1]
                 /\ \/ r.range[2] < s.range[2]
                    \/ r.range[2] = s.range[2] /\ r.range[3] < s.range[3]
    BY <1>5 DEF After, Lex
  <2>2. r.level < s.level \/ (r.level = s.level /\ r.range[1] < s.range[1]) => r1 < s1
    BY <1>1, Digits
  <2>3. r.level = s.level /\ r.range[1] = s.range[1] => r1 = s1
    OBVIOUS
  <2> HIDE DEF r1, s1
  <2>4. r1 < s1 \/ (r1 = s1 /\ r.range[2] < s.range[2]) => r2 < s2
    BY <1>1, <1>2, Digits
  <2>5. r1 = s1 /\ r.range[2] = s.range[2] => r2 = s2
    BY DEF r2, s2
  <2> HIDE DEF r2, s2
  <2>6. r2 < s2 \/ (r2 = s2 /\ r.range[3] < s.range[3]) => r3 < s3
    BY <1>1, <1>3, Digits
  <2> HIDE DEF r3, s3
  <2> QED
    BY <2>1, <2>2, <2>3, <2>4, <2>5, <2>6
<1> QED
  BY <1>4, <1>5 DEF Rank

(* A nonempty set of natural numbers has a least one. *)
LEMMA LeastNumber ==
  ASSUME NEW B \in SUBSET Nat, B # {}
  PROVE  \E n \in B : \A m \in B : n <= m
<1>1. PICK n \in B : \A m \in B : ~ (<<m, n>> \in OpToRel(<, Nat))
  BY NatLessThanWellFounded, WFMin
<1>2. \A m \in B : <<m, n>> \in OpToRel(<, Nat) <=> m < n
  <2>1. \A m \in B : m \in Nat /\ n \in Nat
    OBVIOUS
  <2> QED
    BY <2>1, Zenon DEF OpToRel
<1>3. \A m \in B : ~ (m < n)
  BY <1>1, <1>2, Zenon
<1> QED
  BY <1>3

(* What holds for the blocks inside, and for a block outside when it holds *)
(* for the next one, holds for every block that has one inside after it.   *)
LEMMA Reaches ==
  ASSUME NEW inside \in SUBSET Shells, NEW good,
         \A r \in inside : r \in good,
         \A r \in Shells \ inside : IncreaseIndices(r) \in good => r \in good,
         NEW s \in inside, NEW r \in Shells, ~ After(r, s)
  PROVE  r \in good
<1> DEFINE n == 2 * s.level + 1
           Far(q) == Rank(s, n) - Rank(q, n)
           B == {k \in Nat : \E q \in Shells : ~ After(q, s) /\ q \notin good /\ k = Far(q)}
<1>1. s.level \in Nat /\ s \in Shells
  BY ShellTriple DEF OnShell
<1>2. ASSUME NEW q \in Shells, ~ After(q, s) PROVE q.level \in Nat /\ q.level <= s.level
  BY <1>1, <1>2, ShellTriple DEF After, Lex, OnShell
<1>3. ASSUME NEW q \in Shells, ~ After(q, s)
      PROVE  Rank(q, n) \in Int /\ Rank(s, n) \in Int /\ Far(q) \in Nat
  <2>1. q.level \in Nat /\ q.level <= s.level /\ s.level <= s.level
    BY <1>1, <1>2, <1>3
  <2>2. Rank(q, n) \in Int /\ (After(s, q) => Rank(q, n) < Rank(s, n))
    BY <1>1, <2>1, Ranks
  <2>3. Rank(s, n) \in Int
    BY <1>1, <2>1, Ranks
  <2>4. q = s \/ After(s, q)
    BY <1>1, <1>3, Same
  <2> HIDE DEF n
  <2> QED
    BY <2>2, <2>3, <2>4
<1> SUFFICES ASSUME r \notin good PROVE FALSE
  OBVIOUS
<1>4. Far(r) \in B
  BY <1>3
<1>5. PICK k \in B : \A j \in B : k <= j
  <2>1. B \in SUBSET Nat /\ B # {}
    BY <1>4
  <2> HIDE DEF B
  <2> QED
    BY <2>1, LeastNumber
<1>6. PICK q \in Shells : ~ After(q, s) /\ q \notin good /\ k = Far(q)
  BY <1>5
<1> DEFINE i == IncreaseIndices(q)
<1>7. q \notin inside /\ i \notin good /\ After(s, q)
  <2>1. q \notin inside /\ i \notin good
    BY <1>6
  <2> QED
    BY <1>1, <1>6, <2>1, Same
<1>8. i \in Shells /\ After(i, q) /\ ~ After(i, s)
  BY <1>1, <1>7, Successor
<1>9. Far(i) \in B
  BY <1>3, <1>7, <1>8
<1>10. Far(i) < Far(q)
  <2>1. Rank(q, n) < Rank(i, n)
    BY <1>1, <1>2, <1>6, <1>8, Ranks
  <2> HIDE DEF n
  <2> QED
    BY <1>3, <1>6, <1>8, <2>1
<1>11. Far(q) \in Nat /\ Far(i) \in Nat
  BY <1>3, <1>6, <1>8
<1> HIDE DEF Far, B
<1> QED
  BY <1>5, <1>6, <1>9, <1>10, <1>11

-----------------------------------------------------------------------------
(* The blocks inside, and the first one of them that is not before r. *)
Inside(anchor, blocks) == {r \in Shells : IsInside(anchor, r.range, blocks)}

IsFirst(f, r, anchor, blocks) ==
  /\ f \in Inside(anchor, blocks) /\ ~ After(r, f)
  /\ \A s \in Inside(anchor, blocks) : ~ After(r, s) => ~ After(f, s)

HasFirst(r, anchor, blocks) == \E s \in Inside(anchor, blocks) : ~ After(r, s)

(* A block inside is the first one itself ... *)
LEMMA FirstAtOnce ==
  ASSUME NEW anchor, NEW blocks, NEW r \in Inside(anchor, blocks)
  PROVE  IsFirst(r, r, anchor, blocks)
<1>1. r \in Shells /\ ~ After(r, r)
  BY Later DEF Inside
<1> QED
  BY <1>1 DEF IsFirst

(* ... and for one outside it is the same as for the next one. *)
LEMMA FirstLater ==
  ASSUME NEW anchor, NEW blocks, NEW r \in Shells \ Inside(anchor, blocks), NEW f
  PROVE  IsFirst(f, r, anchor, blocks) <=> IsFirst(f, IncreaseIndices(r), anchor, blocks)
<1> DEFINE i == IncreaseIndices(r)
<1>1. i \in Shells /\ After(i, r)
  BY Successor
<1>2. ASSUME NEW s \in Inside(anchor, blocks) PROVE ~ After(r, s) <=> ~ After(i, s)
  <2>1. s \in Shells /\ s # r
    BY <1>2 DEF Inside
  <2>2. ~ After(r, s) => After(s, r)
    BY <2>1, Same
  <2>3. After(s, r) => ~ After(i, s)
    BY <2>1, Successor
  <2>4. ~ After(i, s) => ~ After(r, s)
    BY <1>1, <2>1, Later
  <2> QED
    BY <2>2, <2>3, <2>4
<1> HIDE DEF i
<1>3. IsFirst(f, r, anchor, blocks) <=> IsFirst(f, i, anchor, blocks)
  BY <1>2 DEF IsFirst
<1> QED
  BY <1>3 DEF i

(* There is one first block ... *)
LEMMA OneFirst ==
  ASSUME NEW anchor, NEW blocks, NEW r, NEW f, NEW g,
         IsFirst(f, r, anchor, blocks), IsFirst(g, r, anchor, blocks)
  PROVE  f = g
<1>1. f \in Shells /\ g \in Shells /\ ~ After(f, g) /\ ~ After(g, f)
  BY DEF IsFirst, Inside
<1> QED
  BY <1>1, Same

(* ... if there is any. *)
LEMMA FirstExists ==
  ASSUME NEW anchor, NEW blocks, NEW r \in Shells, HasFirst(r, anchor, blocks)
  PROVE  \E f : IsFirst(f, r, anchor, blocks)
<1> DEFINE good == {q \in Shells : \E f : IsFirst(f, q, anchor, blocks)}
<1>1. PICK s \in Inside(anchor, blocks) : ~ After(r, s)
  BY DEF HasFirst
<1>2. Inside(anchor, blocks) \in SUBSET Shells
  BY DEF Inside
<1>3. \A q \in Inside(anchor, blocks) : q \in good
  BY <1>2, FirstAtOnce
<1>4. \A q \in Shells \ Inside(anchor, blocks) : IncreaseIndices(q) \in good => q \in good
  BY FirstLater
<1> HIDE DEF good
<1>5. r \in good
  BY <1>1, <1>2, <1>3, <1>4, Reaches
<1> QED
  BY <1>5 DEF good

(* The loop of increase_range, as an equation. *)
Loop(f, anchor, blocks) ==
  f = [r \in Shells |-> IF IsInside(anchor, r.range, blocks) THEN r ELSE f[IncreaseIndices(r)]]

(* It has a solution ... *)
LEMMA LoopExists ==
  ASSUME NEW anchor, NEW blocks
  PROVE  \E f : Loop(f, anchor, blocks)
<1> DEFINE P(q) == HasFirst(q, anchor, blocks)
           F(q) == IF P(q) THEN CHOOSE g : IsFirst(g, q, anchor, blocks) ELSE <<>>
<1>1. ASSUME NEW r \in Shells
      PROVE  F(r) = IF IsInside(anchor, r.range, blocks) THEN r ELSE F(IncreaseIndices(r))
  <2>1. CASE IsInside(anchor, r.range, blocks)
    <3>1. r \in Inside(anchor, blocks)
      BY <2>1 DEF Inside
    <3>2. IsFirst(r, r, anchor, blocks)
      BY <3>1, FirstAtOnce
    <3>3. P(r)
      BY <3>1, <3>2 DEF HasFirst, IsFirst
    <3>4. IsFirst(CHOOSE g : IsFirst(g, r, anchor, blocks), r, anchor, blocks)
      BY <3>2
    <3>5. (CHOOSE g : IsFirst(g, r, anchor, blocks)) = r
      BY <3>2, <3>4, OneFirst
    <3> QED
      BY <2>1, <3>3, <3>5
  <2>2. CASE ~ IsInside(anchor, r.range, blocks)
    <3> DEFINE i == IncreaseIndices(r)
    <3>1. r \in Shells \ Inside(anchor, blocks) /\ i \in Shells
      BY <2>2, Successor DEF Inside
    <3>2. P(r) => P(i)
      <4>1. ASSUME P(r) PROVE P(i)
        <5>1. PICK g : IsFirst(g, r, anchor, blocks)
          BY <4>1, FirstExists
        <5>2. IsFirst(g, i, anchor, blocks)
          BY <3>1, <5>1, FirstLater
        <5> QED
          BY <5>2 DEF IsFirst, HasFirst
      <4> QED
        BY <4>1
    <3>3. P(i) => P(r)
      <4>1. ASSUME P(i) PROVE P(r)
        <5>1. PICK g : IsFirst(g, i, anchor, blocks)
          BY <3>1, <4>1, FirstExists
        <5>2. IsFirst(g, r, anchor, blocks)
          BY <3>1, <5>1, FirstLater
        <5> QED
          BY <5>2 DEF IsFirst, HasFirst
      <4> QED
        BY <4>1
    <3>4. ASSUME P(r)
          PROVE  (CHOOSE g : IsFirst(g, r, anchor, blocks)) = (CHOOSE g : IsFirst(g, i, anchor, blocks))
      <4>1. IsFirst(CHOOSE g : IsFirst(g, r, anchor, blocks), r, anchor, blocks)
        BY <3>4, FirstExists
      <4>2. \E g : IsFirst(g, i, anchor, blocks)
        BY <3>1, <3>2, <3>4, FirstExists
      <4>3. IsFirst(CHOOSE g : IsFirst(g, i, anchor, blocks), i, anchor, blocks)
        BY <4>2
      <4>4. IsFirst(CHOOSE g : IsFirst(g, i, anchor, blocks), r, anchor, blocks)
        BY <3>1, <4>3, FirstLater
      <4> QED
        BY <4>1, <4>4, OneFirst
    <3>5. F(r) = F(i)
      <4>1. CASE P(r)
        <5>1. P(i)
          BY <3>2, <4>1
        <5> HIDE DEF P, i
        <5>2. F(r) = CHOOSE g : IsFirst(g, r, anchor, blocks)
          BY <4>1
        <5>3. F(i) = CHOOSE g : IsFirst(g, i, anchor, blocks)
          BY <5>1
        <5> QED
          BY <3>4, <4>1, <5>2, <5>3
      <4>2. CASE ~ P(r)
        <5>1. ~ P(i)
          BY <3>3, <4>2
        <5> HIDE DEF P, i
        <5> QED
          BY <4>2, <5>1
      <4> QED
        BY <4>1, <4>2
    <3> QED
      BY <2>2, <3>5 DEF i
  <2> QED
    BY <2>1, <2>2
<1> HIDE DEF F
<1> DEFINE f == [r \in Shells |-> F(r)]
<1>2. \A r \in Shells : f[r] = F(r) /\ f[IncreaseIndices(r)] = F(IncreaseIndices(r))
  BY Successor
<1>3. \A r \in Shells :
        F(r) = IF IsInside(anchor, r.range, blocks) THEN r ELSE f[IncreaseIndices(r)]
  BY <1>1, <1>2
<1>4. f = [r \in Shells |-> IF IsInside(anchor, r.range, blocks) THEN r ELSE f[IncreaseIndices(r)]]
  BY <1>3
<1> QED
  BY <1>4 DEF Loop

(* ... and every solution finds the first block inside. *)
LEMMA LoopFirst ==
  ASSUME NEW anchor, NEW blocks, NEW r \in Shells, HasFirst(r, anchor, blocks)
  PROVE  IsFirst(FirstInside(anchor, blocks)[r], r, anchor, blocks)
<1> DEFINE f == FirstInside(anchor, blocks)
<1>1. f = CHOOSE g : Loop(g, anchor, blocks)
  BY Zenon DEF FirstInside, Loop
<1>2. Loop(f, anchor, blocks)
  BY <1>1, LoopExists
<1> HIDE DEF f
<1> DEFINE good == {q \in Shells : IsFirst(f[q], q, anchor, blocks)}
<1>3. PICK s \in Inside(anchor, blocks) : ~ After(r, s)
  BY DEF HasFirst
<1>4. Inside(anchor, blocks) \in SUBSET Shells
  BY DEF Inside
<1>5. ASSUME NEW q \in Shells
      PROVE  f[q] = IF IsInside(anchor, q.range, blocks) THEN q ELSE f[IncreaseIndices(q)]
  <2>1. f = [t \in Shells |-> IF IsInside(anchor, t.range, blocks) THEN t ELSE f[IncreaseIndices(t)]]
    BY <1>2 DEF Loop
  <2> DEFINE F(t) == IF IsInside(anchor, t.range, blocks) THEN t ELSE f[IncreaseIndices(t)]
  <2>2. f = [t \in Shells |-> F(t)]
    BY <2>1
  <2> HIDE DEF F
  <2>3. f[q] = F(q)
    BY <2>2
  <2> QED
    BY <2>3 DEF F
<1>6. \A q \in Inside(anchor, blocks) : q \in good
  BY <1>5, FirstAtOnce DEF Inside
<1>7. \A q \in Shells \ Inside(anchor, blocks) : IncreaseIndices(q) \in good => q \in good
  <2> SUFFICES ASSUME NEW q \in Shells \ Inside(anchor, blocks), IncreaseIndices(q) \in good
               PROVE  IsFirst(f[q], q, anchor, blocks)
    OBVIOUS
  <2>1. f[q] = f[IncreaseIndices(q)]
    BY <1>5 DEF Inside
  <2>2. IsFirst(f[IncreaseIndices(q)], IncreaseIndices(q), anchor, blocks)
    OBVIOUS
  <2> QED
    BY <2>1, <2>2, FirstLater
<1> HIDE DEF good
<1>8. r \in good
  BY <1>3, <1>4, <1>6, <1>7, Reaches
<1> QED
  BY <1>8 DEF good, f

-----------------------------------------------------------------------------
(* The larger one of two numbers. *)
LEMMA MaxOfTwo ==
  ASSUME NEW a \in Int, NEW b \in Int
  PROVE  Max({a, b}) = IF a >= b THEN a ELSE b
<1> DEFINE S == {a, b}
           m == IF a >= b THEN a ELSE b
<1>1. m \in S /\ \A y \in S : m >= y
  OBVIOUS
<1>2. \A x \in S : (\A y \in S : x >= y) => x = m
  OBVIOUS
<1> HIDE DEF S, m
<1>3. Max(S) \in S /\ \A y \in S : Max(S) >= y
  BY <1>1 DEF Max
<1>4. Max(S) = m
  BY <1>2, <1>3
<1> QED
  BY <1>4 DEF S, m

(* x, y and z are the ranges of the last block: by the longer sides of the *)
(* anchor, of which at most one is below it.                               *)
LastCase(anchor, blocks, x, y, z) ==
  LET d(k) == -anchor[k]
      u(k) == blocks - anchor[k] - 1
      l(k) == IF -d(k) >= u(k) THEN -d(k) ELSE u(k)
      third == /\ -d(3) > u(3)
               /\ l(3) > l(1) \/ (l(3) = l(1) /\ d(1) = d(3))
               /\ l(3) > l(2) \/ (l(3) = l(2) /\ d(2) = d(3))
      second == /\ -d(2) > u(2) /\ l(2) > l(3)
                /\ l(2) > l(1) \/ (l(2) = l(1) /\ d(1) = d(2))
      first == -d(1) > u(1) /\ l(1) > l(2) /\ l(1) > l(3)
  IN \/ third /\ x = u(1) /\ y = u(2) /\ z = d(3)
     \/ second /\ x = u(1) /\ y = d(2) /\ z = u(3)
     \/ first /\ x = d(1) /\ y = u(2) /\ z = u(3)
     \/ ~ third /\ ~ second /\ ~ first /\ x = u(1) /\ y = u(2) /\ z = u(3)

(* set_max_range finds them. *)
LEMMA LastRanges ==
  ASSUME NEW anchor, NEW blocks \in Nat \ {0}, \A k \in Axis : anchor[k] \in 0 .. blocks - 1
  PROVE  LET r == MaxRange(anchor, blocks) IN
         r \in [Axis -> Int] /\ LastCase(anchor, blocks, r[1], r[2], r[3])
<1> DEFINE d(k) == -anchor[k]
           u(k) == blocks - anchor[k] - 1
           l(k) == IF -d(k) >= u(k) THEN -d(k) ELSE u(k)
           m(k) == Max({-d(k), u(k)})
           up == [k \in Axis |-> u(k)]
           flipped(k) == [j \in Axis |-> IF j = k THEN d(j) ELSE u(j)]
           above(k, j) == m(k) > m(j) \/ (m(k) = m(j) /\ d(j) = d(k))
           third == -d(3) > u(3) /\ above(3, 1) /\ above(3, 2)
           second == -d(2) > u(2) /\ m(2) > m(3) /\ above(2, 1)
           first == -d(1) > u(1) /\ m(1) > m(2) /\ m(1) > m(3)
           r == MaxRange(anchor, blocks)
<1>1. r = IF third THEN flipped(3) ELSE IF second THEN flipped(2)
          ELSE IF first THEN flipped(1) ELSE up
  BY Zenon DEF MaxRange
<1>2. Axis = {1, 2, 3}
  BY DEF Axis
<1>3. \A k \in Axis : d(k) \in Int /\ u(k) \in Int /\ -d(k) \in Int
  OBVIOUS
<1>4. \A k \in Axis : m(k) = l(k)
  BY <1>3, MaxOfTwo
<1>5. m(1) = l(1) /\ m(2) = l(2) /\ m(3) = l(3)
  BY <1>2, <1>4
<1>6. /\ up \in [Axis -> Int] /\ up[1] = u(1) /\ up[2] = u(2) /\ up[3] = u(3)
      /\ flipped(3) \in [Axis -> Int]
      /\ flipped(3)[1] = u(1) /\ flipped(3)[2] = u(2) /\ flipped(3)[3] = d(3)
      /\ flipped(2) \in [Axis -> Int]
      /\ flipped(2)[1] = u(1) /\ flipped(2)[2] = d(2) /\ flipped(2)[3] = u(3)
      /\ flipped(1) \in [Axis -> Int]
      /\ flipped(1)[1] = d(1) /\ flipped(1)[2] = u(2) /\ flipped(1)[3] = u(3)
  <2> HIDE DEF d, u
  <2> QED
    BY <1>2, <1>3
<1> HIDE DEF d, u, l, m, r, up, flipped
<1>7. /\ r \in [Axis -> Int]
      /\ \/ third /\ r[1] = u(1) /\ r[2] = u(2) /\ r[3] = d(3)
         \/ second /\ r[1] = u(1) /\ r[2] = d(2) /\ r[3] = u(3)
         \/ first /\ r[1] = d(1) /\ r[2] = u(2) /\ r[3] = u(3)
         \/ ~ third /\ ~ second /\ ~ first /\ r[1] = u(1) /\ r[2] = u(2) /\ r[3] = u(3)
  <2> HIDE DEF third, second, first
  <2> QED
    BY <1>1, <1>6
<1> QED
  BY <1>5, <1>7 DEF LastCase, d, u, l, r

(* No block inside comes after the last one. *)
LEMMA LastBlock ==
  ASSUME NEW anchor, NEW blocks \in Nat \ {0}, \A k \in Axis : anchor[k] \in 0 .. blocks - 1
  PROVE  \E m \in Inside(anchor, blocks) :
           /\ m.range = MaxRange(anchor, blocks)
           /\ \A s \in Inside(anchor, blocks) : ~ After(s, m)
<1> DEFINE r == MaxRange(anchor, blocks)
           Abs(x) == IF x < 0 THEN -x ELSE x
           Larger(x, y) == IF x >= y THEN x ELSE y
           l == Larger(Larger(Abs(r[1]), Abs(r[2])), Abs(r[3]))
           m == [range |-> r, level |-> l]
           a1 == anchor[1]
           a2 == anchor[2]
           a3 == anchor[3]
<1>1. Axis = {1, 2, 3} /\ a1 \in 0 .. blocks - 1 /\ a2 \in 0 .. blocks - 1 /\ a3 \in 0 .. blocks - 1
  BY DEF Axis
<1>2. r \in [Axis -> Int]
  BY LastRanges
<1>3. LastCase(anchor, blocks, r[1], r[2], r[3])
  BY LastRanges
<1> DEFINE r1 == r[1]
           r2 == r[2]
           r3 == r[3]
<1>4. LastCase(anchor, blocks, r1, r2, r3)
  BY <1>3
<1>5. /\ r1 \in Int /\ r2 \in Int /\ r3 \in Int
      /\ a1 + r1 \in 0 .. blocks - 1 /\ a2 + r2 \in 0 .. blocks - 1 /\ a3 + r3 \in 0 .. blocks - 1
  <2> HIDE DEF r1, r2, r3
  <2> QED
    BY <1>1, <1>4 DEF LastCase
<1>6. /\ l = Larger(Larger(Abs(r1), Abs(r2)), Abs(r3))
      /\ m.range = r /\ m.level = l /\ m.range[1] = r1 /\ m.range[2] = r2 /\ m.range[3] = r3
  OBVIOUS
<1> HIDE DEF l, m, r1, r2, r3
<1>7. OnShell(r1, r2, r3, l)
  BY <1>5, <1>6 DEF OnShell
<1>8. m \in Shells
  <2>1. l \in Nat
    BY <1>7 DEF OnShell
  <2>2. \A k \in Axis : Absolute(r[k]) <= l
    BY <1>1, <1>7 DEF OnShell, Absolute, r1, r2, r3
  <2>3. \E k \in Axis : Absolute(r[k]) = l
    BY <1>1, <1>7 DEF OnShell, Absolute, r1, r2, r3
  <2> HIDE DEF r
  <2>4. [range |-> r, level |-> l] \in Shells
    BY <1>2, <2>1, <2>2, <2>3 DEF Shells
  <2> QED
    BY <2>4 DEF m
<1>9. m \in Inside(anchor, blocks)
  <2>1. \A k \in Axis : anchor[k] + r[k] \in 0 .. blocks - 1
    BY <1>1, <1>5 DEF r1, r2, r3
  <2> HIDE DEF r
  <2> QED
    BY <1>6, <1>8, <2>1 DEF Inside, IsInside
<1>10. ASSUME NEW s \in Inside(anchor, blocks) PROVE ~ After(s, m)
  <2> DEFINE s1 == s.range[1]
             s2 == s.range[2]
             s3 == s.range[3]
             h == s.level
  <2>1. OnShell(s1, s2, s3, h)
    BY ShellTriple DEF Inside
  <2>2. a1 + s1 \in 0 .. blocks - 1 /\ a2 + s2 \in 0 .. blocks - 1 /\ a3 + s3 \in 0 .. blocks - 1
    BY <1>1 DEF Inside, IsInside
  <2> HIDE DEF s1, s2, s3, h, a1, a2, a3
  <2>3. /\ a1 \in Int /\ a2 \in Int /\ a3 \in Int
        /\ s1 \in Int /\ s2 \in Int /\ s3 \in Int /\ h \in Int
        /\ r1 \in Int /\ r2 \in Int /\ r3 \in Int /\ l \in Int
    BY <1>1, <1>7, <2>1 DEF OnShell
  <2>4. ~ Lex(l, r1, r2, r3, h, s1, s2, s3)
    BY <1>1, <1>4, <1>7, <2>1, <2>2, <2>3, SMTT(60) DEF OnShell, Lex, LastCase, a1, a2, a3
  <2> QED
    BY <1>6, <2>4 DEF After, s1, s2, s3, h
<1> QED
  BY <1>6, <1>9, <1>10

-----------------------------------------------------------------------------
(* A point in the box. *)
InBox(p) == \A k \in Axis : p[k] \in 0 .. Side - 1

(* Squared distances are integers. *)
LEMMA DistanceInt ==
  ASSUME NEW p, InBox(p), NEW q, InBox(q)
  PROVE  Distance2(q, p) \in Int
<1>1. Axis = {1, 2, 3}
  BY DEF Axis
<1>2. /\ p[1] \in Int /\ p[2] \in Int /\ p[3] \in Int
      /\ q[1] \in Int /\ q[2] \in Int /\ q[3] \in Int
  BY <1>1 DEF InBox
<1>3. \A x \in Int : Square(x) \in Int
  BY DEF Square
<1> DEFINE s1 == Square(q[1] - p[1])
           s2 == Square(q[2] - p[2])
           s3 == Square(q[3] - p[3])
<1>4. Distance2(q, p) = s1 + s2 + s3
  BY DEF Distance2
<1>5. s1 \in Int /\ s2 \in Int /\ s3 \in Int
  BY <1>2, <1>3
<1> HIDE DEF s1, s2, s3
<1> QED
  BY <1>4, <1>5

(* The block of a point: its number on an axis. *)
LEMMA BlockNumber ==
  ASSUME NEW x \in 0 .. Side - 1, NEW n \in Nat \ {0}
  PROVE  LET q == (x * n) \div Side IN
         q \in 0 .. n - 1 /\ q * Side <= x * n /\ x * n < (q + 1) * Side
<1> DEFINE a == x * n
           q == a \div Side
           c == q * Side
<1>1. Side \in Nat /\ Side > 0
  BY SideAssumption
<1>2. a \in Nat
  OBVIOUS
<1>3. a < Side * n
  <2>1. (Side - x) * n > 0
    <3> DEFINE y == Side - x
    <3>1. y \in Nat /\ y > 0
      BY <1>1
    <3> HIDE DEF y
    <3>2. y * n > 0
      BY <3>1
    <3> QED
      BY <3>2 DEF y
  <2>2. (Side - x) * n = Side * n - x * n
    BY <1>1
  <2> DEFINE b == Side * n
             e == (Side - x) * n
  <2>3. e = b - a /\ e > 0 /\ b \in Int
    BY <1>1, <2>1, <2>2
  <2> HIDE DEF a, b, e
  <2> QED
    BY <1>2, <2>3 DEF b
<1> HIDE DEF a
<1>4. q \in Nat /\ q * Side <= a /\ a < q * Side + Side
  BY <1>1, <1>2
<1> HIDE DEF q
<1>5. (q + 1) * Side = q * Side + Side
  BY <1>1, <1>4
<1>6. q < n
  <2> SUFFICES ASSUME q >= n PROVE FALSE
    BY <1>4
  <2> DEFINE y == q - n
  <2>1. y \in Nat /\ q = y + n
    BY <1>4
  <2> HIDE DEF y
  <2>2. q * Side = y * Side + Side * n /\ y * Side >= 0 /\ y * Side \in Int /\ Side * n \in Int
    BY <1>1, <2>1
  <2> QED
    BY <1>2, <1>3, <1>4, <2>2
<1> QED
  BY <1>4, <1>5, <1>6 DEF q, a

(* Every point is in a block inside the box. *)
LEMMA BlockInBox ==
  ASSUME NEW p, InBox(p), NEW n \in Nat \ {0}
  PROVE  /\ BlockOf(p, n) \in [Axis -> Int]
         /\ \A k \in Axis :
              LET c == BlockOf(p, n)[k] IN
              c \in 0 .. n - 1 /\ c * Side <= p[k] * n /\ p[k] * n < (c + 1) * Side
<1> DEFINE c(k) == (p[k] * n) \div Side
           f == <<c(1), c(2), c(3)>>
<1>1. \A k \in Axis : c(k) \in 0 .. n - 1 /\ c(k) * Side <= p[k] * n /\ p[k] * n < (c(k) + 1) * Side
  BY BlockNumber DEF InBox
<1> HIDE DEF c
<1>2. Axis = {1, 2, 3} /\ Axis = 1 .. 3
  BY DEF Axis
<1>3. c(1) \in Int /\ c(2) \in Int /\ c(3) \in Int
  BY <1>1, <1>2
<1>4. f \in [1 .. 3 -> Int] /\ f[1] = c(1) /\ f[2] = c(2) /\ f[3] = c(3)
  BY <1>3
<1>5. f = BlockOf(p, n)
  BY DEF BlockOf, c
<1> HIDE DEF f
<1>6. \A k \in Axis : f[k] = c(k)
  BY <1>2, <1>4
<1> QED
  BY <1>1, <1>2, <1>4, <1>5, <1>6

(* The number of blocks on an axis exists. *)
LEMMA BlocksExist ==
  positions \in Layouts \cup Located => Blocks \in Nat \ {0}
<1> SUFFICES ASSUME positions \in Layouts \cup Located PROVE Blocks \in Nat \ {0}
  OBVIOUS
<1> DEFINE n == Cardinality(DOMAIN positions)
           m == Min({n, PerBlock})
           d == n \div m
           Fits(k) == Cube(2 * k - 1) <= 8 * d /\ 8 * d < Cube(2 * k + 1)
<1>1. n \in Nat /\ n > 0
  <2>1. IsFiniteSet(DOMAIN positions) /\ DOMAIN positions # {}
    BY LayoutAssumption
  <2> QED
    BY <2>1, FS_CardinalityType, FS_EmptySet
<1>2. PerBlock \in Nat /\ PerBlock > 0
  BY LayoutAssumption
<1>3. m \in Nat /\ m > 0 /\ m <= n
  <2> DEFINE S == {n, PerBlock}
             x == IF n <= PerBlock THEN n ELSE PerBlock
  <2> HIDE DEF n
  <2>1. x \in S /\ \A y \in S : x <= y
    BY <1>1, <1>2
  <2> HIDE DEF x
  <2>2. Min(S) \in S /\ \A y \in S : Min(S) <= y
    BY <2>1 DEF Min
  <2> QED
    BY <1>1, <1>2, <2>2
<1>4. Blocks = CHOOSE k \in 1 .. d : Fits(k)
  BY Zenon DEF Blocks, BlocksFor
<1> HIDE DEF n, m
<1>5. d \in Nat /\ d >= 1
  <2> SUFFICES ASSUME d = 0 PROVE FALSE
    BY <1>1, <1>3
  <2> QED
    BY <1>1, <1>3
<1> HIDE DEF d
<1>6. \E k \in 1 .. d : Fits(k)
  <2> DEFINE B == {k \in Nat : 8 * d < Cube(2 * k + 1)}
  <2>1. d \in B
    <3> DEFINE y == 2 * d + 1
    <3>1. y \in Nat /\ y >= 3 /\ 9 * y > 8 * d
      BY <1>5
    <3> HIDE DEF y
    <3>2. y * y >= 3 * y
      BY <3>1
    <3> DEFINE z == y * y
    <3>3. z \in Nat /\ z >= 9
      BY <3>1, <3>2
    <3> HIDE DEF z
    <3>4. z * y >= 9 * y
      <4> DEFINE w == z - 9
      <4>1. w \in Nat /\ z = w + 9
        BY <3>3
      <4> HIDE DEF w
      <4>2. z * y = w * y + 9 * y /\ w * y >= 0 /\ w * y \in Int
        BY <3>1, <4>1
      <4> QED
        BY <3>1, <4>2
    <3>5. z * y \in Int /\ Cube(y) = z * y
      BY <3>1, <3>3 DEF Cube, z
    <3>6. 8 * d < Cube(y)
      BY <1>5, <3>1, <3>4, <3>5
    <3> QED
      BY <1>5, <3>6 DEF y
  <2>2. PICK k \in B : \A j \in B : k <= j
    <3>1. B \in SUBSET Nat /\ B # {}
      BY <2>1
    <3> HIDE DEF B
    <3> QED
      BY <3>1, LeastNumber
  <2>3. k <= d /\ k \in Nat
    BY <2>1, <2>2
  <2>4. k # 0
    <3>1. Cube(2 * 0 + 1) = 1
      BY DEF Cube
    <3> QED
      BY <1>5, <2>2, <3>1
  <2>5. k - 1 \in Nat /\ 2 * (k - 1) + 1 = 2 * k - 1
    BY <2>3, <2>4
  <2>6. ~ (8 * d < Cube(2 * (k - 1) + 1))
    <3>1. k - 1 \notin B
      BY <2>2, <2>3, <2>5
    <3> QED
      BY <2>5, <3>1
  <2>7. Cube(2 * k - 1) \in Int
    <3> DEFINE y == 2 * k - 1
    <3>1. y \in Int
      BY <2>3
    <3> HIDE DEF y
    <3>2. y * y \in Int
      BY <3>1
    <3>3. y * y * y \in Int
      BY <3>1, <3>2
    <3> QED
      BY <3>3 DEF Cube, y
  <2>8. Cube(2 * k - 1) <= 8 * d
    BY <1>5, <2>5, <2>6, <2>7
  <2> QED
    BY <1>5, <2>2, <2>3, <2>4, <2>8
<1> HIDE DEF Fits
<1>7. Blocks \in 1 .. d
  BY <1>4, <1>6
<1> QED
  BY <1>5, <1>7

(* There is a block inside at every level up to the last one. *)
LEMMA EveryLevel ==
  ASSUME NEW anchor, NEW blocks \in Nat \ {0}, \A k \in Axis : anchor[k] \in 0 .. blocks - 1,
         NEW m \in Inside(anchor, blocks), NEW h \in Nat, h <= m.level
  PROVE  \E s \in Inside(anchor, blocks) : s.level = h
<1> DEFINE Cut(x) == IF x > h THEN h ELSE IF x < -h THEN -h ELSE x
           x == Cut(m.range[1])
           y == Cut(m.range[2])
           z == Cut(m.range[3])
           s == Triple(x, y, z, h)
<1>1. OnShell(m.range[1], m.range[2], m.range[3], m.level)
  BY ShellTriple DEF Inside
<1>2. Axis = {1, 2, 3}
  BY DEF Axis
<1>3. /\ anchor[1] \in 0 .. blocks - 1 /\ anchor[2] \in 0 .. blocks - 1
      /\ anchor[3] \in 0 .. blocks - 1
      /\ anchor[1] + m.range[1] \in 0 .. blocks - 1 /\ anchor[2] + m.range[2] \in 0 .. blocks - 1
      /\ anchor[3] + m.range[3] \in 0 .. blocks - 1
  BY <1>2 DEF Inside, IsInside
<1>4. OnShell(x, y, z, h)
  BY <1>1 DEF OnShell
<1>5. /\ anchor[1] + x \in 0 .. blocks - 1 /\ anchor[2] + y \in 0 .. blocks - 1
      /\ anchor[3] + z \in 0 .. blocks - 1
  BY <1>1, <1>3 DEF OnShell
<1> HIDE DEF x, y, z
<1>6. s \in Shells
  BY <1>4, TripleShell
<1>7. s.level = h /\ s.range[1] = x /\ s.range[2] = y /\ s.range[3] = z
  BY DEF Triple
<1> HIDE DEF s
<1>8. IsInside(anchor, s.range, blocks)
  BY <1>2, <1>5, <1>7 DEF IsInside
<1> QED
  BY <1>6, <1>7, <1>8 DEF Inside

-----------------------------------------------------------------------------
(* The block an iterator is at. *)
Place(i) == [range |-> i.range, level |-> i.level]

(* The bounds at level l, on an axis with the block a: they stop at the box. *)
LowerAt(a, x, l, n) == (IF l <= a THEN a + 1 - l ELSE 0) * Side - x * n
UpperAt(a, x, l, n) == (IF l + a < n THEN a + l ELSE n) * Side - x * n

(* i is an iterator for the point p that is inside. *)
Around(i, p, n) ==
  LET anchor == BlockOf(p, n) IN
  /\ i = [anchor |-> anchor, range |-> i.range, level |-> i.level,
          maxrange |-> MaxRange(anchor, n),
          lower |-> [k \in Axis |-> LowerAt(anchor[k], p[k], i.level, n)],
          upper |-> [k \in Axis |-> UpperAt(anchor[k], p[k], i.level, n)]]
  /\ Place(i) \in Inside(anchor, n)

(* The last range of an iterator. *)
LEMMA AroundLast ==
  ASSUME NEW i, NEW p, NEW n, Around(i, p, n)
  PROVE  i.maxrange = MaxRange(BlockOf(p, n), n) /\ i.anchor = BlockOf(p, n)
<1> DEFINE a == BlockOf(p, n)
           mr == MaxRange(a, n)
           lo == [k \in Axis |-> LowerAt(a[k], p[k], i.level, n)]
           up == [k \in Axis |-> UpperAt(a[k], p[k], i.level, n)]
<1>1. i = [anchor |-> a, range |-> i.range, level |-> i.level, maxrange |-> mr,
           lower |-> lo, upper |-> up]
  BY DEF Around
<1> HIDE DEF a, mr, lo, up
<1>2. i.anchor = a /\ i.maxrange = mr
  BY <1>1
<1> QED
  BY <1>2 DEF a, mr

(* One row of blocks more or less. *)
LEMMA OneMore ==
  ASSUME NEW b \in Int, NEW s \in Int
  PROVE  (b + 1) * s = b * s + s /\ (b - 1) * s = b * s - s /\ b * s \in Int
  OBVIOUS

(* The constructor: the first block is the one of the point. *)
LEMMA StartAround ==
  ASSUME NEW n \in Nat \ {0}, NEW p, InBox(p)
  PROVE  LET i == Iterator(p, n) IN
         /\ Around(i, p, n) /\ i.level = 0
         /\ \A s \in Shells : ~ After(Place(i), s)
<1> DEFINE anchor == BlockOf(p, n)
           i == Iterator(p, n)
           t == Triple(0, 0, 0, 0)
<1>1. \A k \in Axis : anchor[k] \in 0 .. n - 1 /\ anchor[k] \in Int
  BY BlockInBox
<1>2. n \in Int /\ Side \in Int /\ \A k \in Axis : p[k] \in Int
  BY SideAssumption DEF InBox
<1>3. t \in Shells
  <2>1. OnShell(0, 0, 0, 0)
    BY DEF OnShell
  <2> QED
    BY <2>1, TripleShell
<1> HIDE DEF anchor
<1>4. i = [anchor |-> anchor, range |-> <<0, 0, 0>>, level |-> 0,
           maxrange |-> MaxRange(anchor, n),
           lower |-> [k \in Axis |-> (anchor[k] + 1) * Side - p[k] * n],
           upper |-> [k \in Axis |-> anchor[k] * Side - p[k] * n]]
  BY Zenon DEF Iterator, anchor
<1>5. \A k \in Axis : /\ LowerAt(anchor[k], p[k], 0, n) = (anchor[k] + 1) * Side - p[k] * n
                      /\ UpperAt(anchor[k], p[k], 0, n) = anchor[k] * Side - p[k] * n
  BY <1>1, <1>2 DEF LowerAt, UpperAt
<1>6. i.range = <<0, 0, 0>> /\ i.level = 0
  BY <1>4
<1>7. Place(i) = t
  BY <1>6 DEF Place, Triple
<1>8. /\ [k \in Axis |-> LowerAt(anchor[k], p[k], 0, n)]
           = [k \in Axis |-> (anchor[k] + 1) * Side - p[k] * n]
      /\ [k \in Axis |-> UpperAt(anchor[k], p[k], 0, n)]
           = [k \in Axis |-> anchor[k] * Side - p[k] * n]
  BY <1>5
<1>9. t \in Inside(anchor, n)
  <2>1. \A k \in Axis : t.range[k] = 0
    BY DEF Triple, Axis
  <2> QED
    BY <1>1, <1>3, <2>1 DEF Inside, IsInside
<1>10. Around(i, p, n)
  BY <1>4, <1>6, <1>7, <1>8, <1>9 DEF Around, anchor
<1>11. ASSUME NEW s \in Shells PROVE ~ After(t, s)
  BY ShellTriple DEF After, Lex, OnShell, Triple
<1> QED
  BY <1>6, <1>7, <1>10, <1>11

(* increase_range of a general iterator, field by field. *)
LEMMA IncreaseRangeIs ==
  ASSUME NEW n, NEW i,
         i = [anchor |-> i.anchor, range |-> i.range, level |-> i.level, maxrange |-> i.maxrange,
              lower |-> i.lower, upper |-> i.upper]
  PROVE  LET to == FirstInside(i.anchor, n)[IncreaseIndices(Place(i))]
             wider == to.level > i.level
         IN IncreaseRange(i, n, TRUE) =
              [anchor |-> i.anchor, range |-> to.range, level |-> to.level,
               maxrange |-> i.maxrange,
               lower |-> [k \in Axis |-> IF wider /\ i.level <= i.anchor[k]
                                         THEN i.lower[k] - Side ELSE i.lower[k]],
               upper |-> [k \in Axis |-> IF wider /\ i.level + i.anchor[k] < n
                                         THEN i.upper[k] + Side ELSE i.upper[k]]]
<1> DEFINE to == FirstInside(i.anchor, n)[IncreaseIndices(Place(i))]
           wider == to.level > i.level
           j == IncreaseRange(i, n, TRUE)
           lo == [k \in Axis |-> IF wider /\ i.level <= i.anchor[k]
                                 THEN i.lower[k] - Side ELSE i.lower[k]]
           up == [k \in Axis |-> IF wider /\ i.level + i.anchor[k] < n
                                 THEN i.upper[k] + Side ELSE i.upper[k]]
<1>1. j = [i EXCEPT !.range = to.range, !.level = to.level,
             !.lower = [k \in Axis |-> IF wider /\ (TRUE => i.level <= i.anchor[k])
                                       THEN i.lower[k] - Side ELSE i.lower[k]],
             !.upper = [k \in Axis |-> IF wider /\ (TRUE => i.level + i.anchor[k] < n)
                                       THEN i.upper[k] + Side ELSE i.upper[k]]]
  BY DEF IncreaseRange, Place
<1> HIDE DEF to, wider, j
<1>2. j = [i EXCEPT !.range = to.range, !.level = to.level, !.lower = lo, !.upper = up]
  BY <1>1
<1> HIDE DEF lo, up
<1>3. j = [anchor |-> i.anchor, range |-> to.range, level |-> to.level, maxrange |-> i.maxrange,
           lower |-> lo, upper |-> up]
  BY <1>2
<1> QED
  BY <1>3 DEF j, lo, up, wider, to

(* The search goes on to the next block inside. *)
LEMMA NextAround ==
  ASSUME NEW n \in Nat \ {0}, NEW p, InBox(p),
         NEW i, Around(i, p, n), HasMore(i)
  PROVE  LET j == IncreaseRange(i, n, TRUE) IN
         /\ Around(j, p, n) /\ j.level >= 1
         /\ IsFirst(Place(j), IncreaseIndices(Place(i)), BlockOf(p, n), n)
<1> DEFINE anchor == BlockOf(p, n)
           from == Place(i)
           next == IncreaseIndices(from)
           to == FirstInside(anchor, n)[next]
           lower == [k \in Axis |-> LowerAt(anchor[k], p[k], i.level, n)]
           upper == [k \in Axis |-> UpperAt(anchor[k], p[k], i.level, n)]
           wider == to.level > i.level
           j == IncreaseRange(i, n, TRUE)
<1>1. \A k \in Axis : anchor[k] \in 0 .. n - 1 /\ anchor[k] \in Int
  BY BlockInBox
<1>2. n \in Int /\ Side \in Int /\ \A k \in Axis : p[k] \in Int
  BY SideAssumption DEF InBox
<1>3. /\ i = [anchor |-> anchor, range |-> i.range, level |-> i.level,
              maxrange |-> MaxRange(anchor, n), lower |-> lower, upper |-> upper]
      /\ from \in Inside(anchor, n)
  BY DEF Around
<1>4. i.maxrange = MaxRange(anchor, n)
  BY AroundLast
<1>5. from.range = i.range /\ from.level = i.level
  BY DEF Place
<1> HIDE DEF anchor, from
<1>6. PICK m \in Inside(anchor, n) :
        /\ m.range = MaxRange(anchor, n)
        /\ \A s \in Inside(anchor, n) : ~ After(s, m)
  BY <1>1, LastBlock
<1>7. /\ m \in Shells /\ from \in Shells /\ next \in Shells
      /\ from.level \in Nat /\ m.level \in Nat
      /\ After(next, from) /\ \A s \in Shells : After(s, from) => ~ After(next, s)
  <2>1. m \in Shells /\ from \in Shells
    BY <1>3, <1>6 DEF Inside
  <2> QED
    BY <2>1, ShellTriple, Successor DEF OnShell
<1>8. ~ After(next, m)
  <2>1. m # from
    BY <1>4, <1>5, <1>6 DEF HasMore
  <2>2. ~ After(from, m)
    BY <1>3, <1>6
  <2> QED
    BY <1>7, <2>1, <2>2, Same
<1>9. IsFirst(to, next, anchor, n)
  <2>1. HasFirst(next, anchor, n)
    BY <1>6, <1>8 DEF HasFirst
  <2> QED
    BY <1>7, <2>1, LoopFirst
<1> HIDE DEF to, next
<1>10. /\ to \in Inside(anchor, n) /\ to \in Shells /\ to.level \in Nat
       /\ to = [range |-> to.range, level |-> to.level] /\ After(to, from)
  <2>1. to \in Inside(anchor, n) /\ to \in Shells /\ ~ After(next, to)
    BY <1>9 DEF IsFirst, Inside
  <2>2. After(to, from)
    BY <1>7, <2>1, Later
  <2> QED
    BY <2>1, <2>2, ShellTriple DEF OnShell
<1>11. to.level = from.level \/ to.level = from.level + 1
  <2>1. from.level <= to.level
    BY <1>7, <1>10 DEF After, Lex
  <2>2. \E s \in Inside(anchor, n) : s.level <= from.level + 1 /\ ~ After(next, s)
    <3>1. CASE m.level <= from.level + 1
      BY <1>6, <1>8, <3>1
    <3>2. CASE m.level > from.level + 1
      <4>1. PICK s \in Inside(anchor, n) : s.level = from.level + 1
        <5>1. from.level + 1 \in Nat /\ from.level + 1 <= m.level
          BY <1>7, <3>2
        <5> QED
          BY <1>1, <1>6, <5>1, EveryLevel
      <4>2. s \in Shells /\ After(s, from)
        BY <1>7, <4>1 DEF Inside, After, Lex
      <4> QED
        BY <1>7, <4>1, <4>2
    <3> QED
      BY <1>7, <3>1, <3>2
  <2>3. PICK s \in Inside(anchor, n) : s.level <= from.level + 1 /\ ~ After(next, s)
    BY <2>2
  <2>4. ~ After(to, s)
    BY <1>9, <2>3 DEF IsFirst
  <2>5. s.level \in Nat
    BY ShellTriple DEF Inside, OnShell
  <2>6. ~ (s.level < to.level)
    BY <2>4 DEF After, Lex
  <2> QED
    BY <1>7, <1>10, <2>1, <2>3, <2>5, <2>6
<1>12. to.level >= 1
  <2> DEFINE x == from.range[1]
             y == from.range[2]
             z == from.range[3]
             a == to.range[1]
             b == to.range[2]
             c == to.range[3]
  <2>1. OnShell(x, y, z, from.level) /\ OnShell(a, b, c, to.level)
    BY <1>7, <1>10, ShellTriple
  <2>2. Lex(from.level, x, y, z, to.level, a, b, c)
    BY <1>10 DEF After
  <2> HIDE DEF x, y, z, a, b, c
  <2> QED
    BY <2>1, <2>2 DEF OnShell, Lex
<1> DEFINE lo == [k \in Axis |-> IF wider /\ i.level <= anchor[k] THEN lower[k] - Side ELSE lower[k]]
           up == [k \in Axis |-> IF wider /\ i.level + anchor[k] < n
                                 THEN upper[k] + Side ELSE upper[k]]
<1>13. j = [anchor |-> anchor, range |-> to.range, level |-> to.level,
            maxrange |-> MaxRange(anchor, n), lower |-> lo, upper |-> up]
  <2> HIDE DEF j
  <2>1. DOMAIN lower = Axis /\ DOMAIN upper = Axis
    OBVIOUS
  <2> HIDE DEF lower, upper
  <2> DEFINE mr == MaxRange(anchor, n)
             t == FirstInside(i.anchor, n)[IncreaseIndices(Place(i))]
  <2>2. i = [anchor |-> anchor, range |-> i.range, level |-> i.level, maxrange |-> mr,
             lower |-> lower, upper |-> upper]
    BY <1>3
  <2> HIDE DEF mr
  <2>3. /\ i.anchor = anchor /\ i.maxrange = mr /\ i.lower = lower /\ i.upper = upper
        /\ i = [anchor |-> i.anchor, range |-> i.range, level |-> i.level,
                maxrange |-> i.maxrange, lower |-> i.lower, upper |-> i.upper]
    BY <2>2
  <2>4. t = to
    BY <2>3 DEF to, next, from
  <2>5. j = [anchor |-> i.anchor, range |-> t.range, level |-> t.level,
             maxrange |-> i.maxrange,
             lower |-> [k \in Axis |-> IF t.level > i.level /\ i.level <= i.anchor[k]
                                       THEN i.lower[k] - Side ELSE i.lower[k]],
             upper |-> [k \in Axis |-> IF t.level > i.level /\ i.level + i.anchor[k] < n
                                       THEN i.upper[k] + Side ELSE i.upper[k]]]
    BY <2>3, IncreaseRangeIs DEF j
  <2> HIDE DEF t
  <2> QED
    BY <2>3, <2>4, <2>5 DEF mr
<1>14. lo = [k \in Axis |-> LowerAt(anchor[k], p[k], to.level, n)]
  <2>1. ASSUME NEW k \in Axis
        PROVE  (IF wider /\ i.level <= anchor[k] THEN lower[k] - Side ELSE lower[k])
                 = LowerAt(anchor[k], p[k], to.level, n)
    <3> DEFINE a == anchor[k]
               x == p[k] * n
    <3>1. lower[k] = LowerAt(a, p[k], i.level, n) /\ a \in 0 .. n - 1 /\ x \in Int
      BY <1>1, <1>2
    <3> HIDE DEF a, x, lower
    <3>2. i.level \in Nat /\ (to.level = i.level \/ to.level = i.level + 1)
      BY <1>5, <1>7, <1>11
    <3>3. CASE to.level = i.level
      BY <3>1, <3>2, <3>3 DEF a
    <3>4. CASE to.level = i.level + 1 /\ i.level <= a
      <4> DEFINE b == a + 1 - i.level
                 c == b * Side
      <4>1. b \in Int /\ (IF i.level + 1 <= a THEN a + 1 - (i.level + 1) ELSE 0) = b - 1
        BY <1>2, <3>1, <3>2, <3>4
      <4>2. lower[k] = b * Side - x
        BY <3>1, <3>4 DEF LowerAt, x
      <4>3. LowerAt(a, p[k], to.level, n) = (b - 1) * Side - x
        BY <3>4, <4>1 DEF LowerAt, x
      <4>4. (b - 1) * Side = c - Side /\ c \in Int
        BY <1>2, <4>1, OneMore
      <4>5. b * Side = c
        OBVIOUS
      <4> HIDE DEF b, c
      <4>6. lower[k] - Side = LowerAt(a, p[k], to.level, n)
        BY <1>2, <3>1, <4>2, <4>3, <4>4, <4>5
      <4> QED
        BY <3>2, <3>4, <4>6 DEF a
    <3>5. CASE to.level = i.level + 1 /\ ~ (i.level <= a)
      <4>1. ~ (to.level <= a)
        BY <3>1, <3>2, <3>5
      <4>2. LowerAt(a, p[k], to.level, n) = LowerAt(a, p[k], i.level, n)
        BY <3>5, <4>1 DEF LowerAt
      <4> QED
        BY <3>1, <3>5, <4>2 DEF a
    <3> QED
      BY <3>2, <3>3, <3>4, <3>5
  <2> QED
    BY <2>1
<1>15. up = [k \in Axis |-> UpperAt(anchor[k], p[k], to.level, n)]
  <2>1. ASSUME NEW k \in Axis
        PROVE  (IF wider /\ i.level + anchor[k] < n THEN upper[k] + Side ELSE upper[k])
                 = UpperAt(anchor[k], p[k], to.level, n)
    <3> DEFINE a == anchor[k]
               x == p[k] * n
    <3>1. upper[k] = UpperAt(a, p[k], i.level, n) /\ a \in 0 .. n - 1 /\ x \in Int
      BY <1>1, <1>2
    <3> HIDE DEF a, x, upper
    <3>2. i.level \in Nat /\ (to.level = i.level \/ to.level = i.level + 1)
      BY <1>5, <1>7, <1>11
    <3>3. CASE to.level = i.level
      BY <3>1, <3>2, <3>3 DEF a
    <3>4. CASE to.level = i.level + 1 /\ i.level + a < n
      <4> DEFINE b == a + i.level
                 c == b * Side
      <4>1. b \in Int /\ (IF i.level + 1 + a < n THEN a + (i.level + 1) ELSE n) = b + 1
        BY <1>2, <3>1, <3>2, <3>4
      <4>2. upper[k] = b * Side - x
        BY <3>1, <3>4 DEF UpperAt, x
      <4>3. UpperAt(a, p[k], to.level, n) = (b + 1) * Side - x
        BY <3>4, <4>1 DEF UpperAt, x
      <4>4. (b + 1) * Side = c + Side /\ c \in Int
        BY <1>2, <4>1, OneMore
      <4>5. b * Side = c
        OBVIOUS
      <4> HIDE DEF b, c
      <4>6. upper[k] + Side = UpperAt(a, p[k], to.level, n)
        BY <1>2, <3>1, <4>2, <4>3, <4>4, <4>5
      <4> QED
        BY <3>2, <3>4, <4>6 DEF a
    <3>5. CASE to.level = i.level + 1 /\ ~ (i.level + a < n)
      <4>1. ~ (to.level + a < n)
        BY <1>2, <3>1, <3>2, <3>5
      <4>2. UpperAt(a, p[k], to.level, n) = UpperAt(a, p[k], i.level, n)
        BY <3>5, <4>1 DEF UpperAt
      <4> QED
        BY <3>1, <3>5, <4>2 DEF a
    <3> QED
      BY <3>2, <3>3, <3>4, <3>5
  <2> QED
    BY <2>1
<1> HIDE DEF j, lo, up, lower, upper
<1>16. j.range = to.range /\ j.level = to.level
  BY <1>13
<1>17. Place(j) = to
  BY <1>10, <1>16 DEF Place
<1>18. Around(j, p, n)
  BY <1>10, <1>13, <1>14, <1>15, <1>16, <1>17 DEF Around, anchor
<1> QED
  BY <1>9, <1>12, <1>16, <1>17, <1>18 DEF j, next, from, anchor

-----------------------------------------------------------------------------
(* The largest and the smallest value on the axes. *)
LEMMA OnAxes ==
  ASSUME NEW f, \A k \in Axis : f[k] \in Int
  PROVE  /\ \E k \in Axis : Max({f[j] : j \in Axis}) = f[k]
         /\ \E k \in Axis : Min({f[j] : j \in Axis}) = f[k]
         /\ \A k \in Axis : Max({f[j] : j \in Axis}) >= f[k] /\ Min({f[j] : j \in Axis}) <= f[k]
<1> DEFINE S == {f[j] : j \in Axis}
<1>1. Axis = {1, 2, 3}
  BY DEF Axis
<1>2. f[1] \in Int /\ f[2] \in Int /\ f[3] \in Int
  BY <1>1
<1>3. \E k \in Axis : \A j \in Axis : f[k] >= f[j]
  BY <1>1, <1>2
<1>4. \E k \in Axis : \A j \in Axis : f[k] <= f[j]
  BY <1>1, <1>2
<1>5. Max(S) \in S /\ \A y \in S : Max(S) >= y
  <2>1. \E x \in S : \A y \in S : x >= y
    BY <1>3
  <2> HIDE DEF S
  <2> QED
    BY <2>1 DEF Max
<1>6. Min(S) \in S /\ \A y \in S : Min(S) <= y
  <2>1. \E x \in S : \A y \in S : x <= y
    BY <1>4
  <2> HIDE DEF S
  <2> QED
    BY <2>1 DEF Min
<1> QED
  BY <1>5, <1>6

(* A product with a larger factor. *)
LEMMA Larger ==
  ASSUME NEW a \in Int, NEW b \in Int, a <= b, NEW n \in Nat
  PROVE  a * n <= b * n /\ a * n \in Int /\ b * n \in Int
<1> DEFINE c == b - a
<1>1. c \in Nat /\ b = a + c
  OBVIOUS
<1> HIDE DEF c
<1>2. b * n = a * n + c * n /\ c * n >= 0 /\ a * n \in Int /\ c * n \in Int
  BY <1>1
<1> QED
  BY <1>2

(* The square of a smaller number. *)
LEMMA SmallerSquare ==
  ASSUME NEW a \in Nat, NEW b \in Int, a <= b \/ a <= -b
  PROVE  Square(a) <= Square(b) /\ Square(a) \in Nat /\ Square(b) \in Nat
<1> DEFINE c == IF b < 0 THEN -b ELSE b
<1>1. c \in Nat /\ a <= c /\ c * c = b * b
  OBVIOUS
<1> HIDE DEF c
<1>2. a * a <= c * a /\ a * c <= c * c /\ a * c = c * a
  BY <1>1, Larger
<1>3. a * a \in Nat /\ a * c \in Nat /\ c * c \in Nat
  BY <1>1
<1> QED
  BY <1>1, <1>2, <1>3 DEF Square

(* The lower bound is not above the point, and below it on one side only   *)
(* as far as the blocks that were seen; so is the upper bound.             *)
LEMMA BoundAxis ==
  ASSUME NEW n \in Nat \ {0}, NEW x \in 0 .. Side - 1, NEW a \in 0 .. n - 1,
         a * Side <= x * n, x * n < (a + 1) * Side,
         NEW l \in Nat, l >= 1
  PROVE  /\ LowerAt(a, x, l, n) \in Int /\ LowerAt(a, x, l, n) <= 0
         /\ UpperAt(a, x, l, n) \in Int /\ UpperAt(a, x, l, n) >= 0
         /\ \A g \in 0 .. Side - 1, c \in 0 .. n - 1 :
              c * Side <= g * n /\ g * n < (c + 1) * Side =>
                /\ c >= a + l => UpperAt(a, x, l, n) <= (g - x) * n
                /\ c <= a - l => LowerAt(a, x, l, n) >= (g - x) * n
<1> DEFINE e == x * n
<1>1. Side \in Nat /\ n \in Nat /\ e \in Nat /\ a * Side <= e /\ e < (a + 1) * Side
  BY SideAssumption
<1> HIDE DEF e
<1> DEFINE lo == IF l <= a THEN a + 1 - l ELSE 0
           up == IF l + a < n THEN a + l ELSE n
<1>2. lo \in Nat /\ lo <= a /\ up \in Nat /\ up >= a + 1
  BY <1>1
<1> HIDE DEF lo, up
<1>3. lo * Side <= a * Side /\ lo * Side \in Int /\ a * Side \in Int
  BY <1>1, <1>2, Larger
<1>4. (a + 1) * Side <= up * Side /\ (a + 1) * Side \in Int /\ up * Side \in Int
  BY <1>1, <1>2, Larger
<1>5. LowerAt(a, x, l, n) = lo * Side - e /\ UpperAt(a, x, l, n) = up * Side - e
  BY DEF LowerAt, UpperAt, lo, up, e
<1>6. /\ LowerAt(a, x, l, n) \in Int /\ LowerAt(a, x, l, n) <= 0
      /\ UpperAt(a, x, l, n) \in Int /\ UpperAt(a, x, l, n) >= 0
  BY <1>1, <1>3, <1>4, <1>5
<1>7. ASSUME NEW g \in 0 .. Side - 1, NEW c \in 0 .. n - 1,
             c * Side <= g * n, g * n < (c + 1) * Side
      PROVE  /\ c >= a + l => UpperAt(a, x, l, n) <= (g - x) * n
             /\ c <= a - l => LowerAt(a, x, l, n) >= (g - x) * n
  <2> DEFINE h == g * n
  <2>1. h \in Nat /\ (g - x) * n = h - e
    BY <1>1 DEF e
  <2>2. c * Side <= h /\ h < (c + 1) * Side
    BY <1>7
  <2> HIDE DEF h
  <2>3. ASSUME c >= a + l PROVE UpperAt(a, x, l, n) <= h - e
    <3>1. up \in Int /\ up <= c /\ c \in Int
      BY <1>1, <2>3 DEF up
    <3>2. up * Side <= c * Side /\ c * Side \in Int
      BY <1>1, <3>1, Larger
    <3> QED
      BY <1>1, <1>4, <1>5, <2>1, <2>2, <3>2
  <2>4. ASSUME c <= a - l PROVE LowerAt(a, x, l, n) >= h - e
    <3>1. lo \in Int /\ c + 1 <= lo /\ c + 1 \in Int
      BY <1>1, <2>4 DEF lo
    <3>2. (c + 1) * Side <= lo * Side /\ (c + 1) * Side \in Int
      BY <1>1, <3>1, Larger
    <3> QED
      BY <1>1, <1>3, <1>5, <2>1, <2>2, <3>2
  <2> QED
    BY <2>1, <2>3, <2>4
<1> QED
  BY <1>6, <1>7

(* No point in a block that was not seen is closer than the radius. *)
LEMMA Radius ==
  ASSUME NEW n \in Nat \ {0},
         NEW p, InBox(p),
         NEW q, InBox(q),
         NEW i, Around(i, p, n), i.level \in Nat, i.level >= 1,
         NEW k \in Axis,
         \/ BlockOf(q, n)[k] >= BlockOf(p, n)[k] + i.level
         \/ BlockOf(q, n)[k] <= BlockOf(p, n)[k] - i.level
  PROVE  /\ MaxRadius2(i) <= Distance2(q, p) * Square(n)
         /\ MaxRadius2(i) \in Nat
<1> DEFINE a(j) == BlockOf(p, n)[j]
           c == BlockOf(q, n)[k]
           low == Max({i.lower[j] : j \in Axis})
           upp == Min({i.upper[j] : j \in Axis})
           r == Min({Absolute(low), upp})
           e == (q[k] - p[k]) * n
<1>1. /\ c \in 0 .. n - 1 /\ c * Side <= q[k] * n /\ q[k] * n < (c + 1) * Side
      /\ \A j \in Axis : /\ a(j) \in 0 .. n - 1
                         /\ a(j) * Side <= p[j] * n /\ p[j] * n < (a(j) + 1) * Side
  BY BlockInBox
<1>2. \A j \in Axis : i.lower[j] = LowerAt(a(j), p[j], i.level, n)
                      /\ i.upper[j] = UpperAt(a(j), p[j], i.level, n)
  <2> DEFINE anchor == BlockOf(p, n)
             lo == [j \in Axis |-> LowerAt(anchor[j], p[j], i.level, n)]
             up == [j \in Axis |-> UpperAt(anchor[j], p[j], i.level, n)]
             mr == MaxRange(anchor, n)
  <2>1. i = [anchor |-> anchor, range |-> i.range, level |-> i.level, maxrange |-> mr,
             lower |-> lo, upper |-> up]
    BY DEF Around
  <2>2. i.lower = lo /\ i.upper = up
    <3> HIDE DEF anchor, lo, up, mr
    <3> QED
      BY <2>1
  <2> QED
    BY <2>2
<1>3. \A j \in Axis : /\ i.lower[j] \in Int /\ i.lower[j] <= 0
                      /\ i.upper[j] \in Int /\ i.upper[j] >= 0
  BY <1>1, <1>2, BoundAxis DEF InBox
<1>4. \/ c >= a(k) + i.level /\ i.upper[k] <= e
      \/ c <= a(k) - i.level /\ i.lower[k] >= e
  BY <1>1, <1>2, BoundAxis DEF InBox
<1>5. /\ low \in Int /\ low <= 0 /\ low >= i.lower[k]
      /\ upp \in Int /\ upp >= 0 /\ upp <= i.upper[k]
  <2> DEFINE f == i.lower
             g == i.upper
  <2>1. (\A j \in Axis : f[j] \in Int) /\ (\A j \in Axis : g[j] \in Int)
    BY <1>3
  <2>2. /\ \E j \in Axis : low = f[j]
        /\ \A j \in Axis : low >= f[j]
    BY <2>1, OnAxes
  <2>3. /\ \E j \in Axis : upp = g[j]
        /\ \A j \in Axis : upp <= g[j]
    BY <2>1, OnAxes
  <2> HIDE DEF low, upp
  <2> QED
    BY <1>3, <2>2, <2>3
<1> HIDE DEF low, upp
<1>6. r \in Nat /\ r <= -low /\ r <= upp
  <2> DEFINE S == {Absolute(low), upp}
             m == IF -low <= upp THEN -low ELSE upp
  <2>1. S = {-low, upp} /\ -low \in Int
    BY <1>5 DEF Absolute
  <2>2. m \in S /\ \A y \in S : m <= y
    BY <1>5, <2>1
  <2> HIDE DEF S, m
  <2>3. Min(S) \in S /\ \A y \in S : Min(S) <= y
    BY <2>2 DEF Min
  <2> QED
    BY <1>5, <2>1, <2>3 DEF S
<1>7. q[k] \in Int /\ p[k] \in Int /\ n \in Int /\ e \in Int
  BY SideAssumption DEF InBox
<1>8. r <= e \/ r <= -e
  <2>1. i.lower[k] \in Int /\ i.upper[k] \in Int
    BY <1>3
  <2> HIDE DEF r, e, a, c
  <2> QED
    BY <1>4, <1>5, <1>6, <1>7, <2>1
<1>9. Square(r) <= Square(e) /\ Square(r) \in Nat /\ Square(e) \in Nat
  <2> HIDE DEF r, e
  <2> QED
    BY <1>6, <1>7, <1>8, SmallerSquare
<1>10. Square(e) <= Distance2(q, p) * Square(n)
  <2> DEFINE d == q[k] - p[k]
             dd == Square(d)
             bb == Square(n)
  <2>1. d \in Int
    BY <1>7
  <2>2. Square(e) = dd * bb
    <3> HIDE DEF d
    <3>1. Square(d * n) = Square(d) * Square(n)
      BY <1>7, <2>1 DEF Square
    <3> QED
      BY <3>1 DEF d
  <2>3. bb \in Nat /\ dd \in Nat
    BY <1>7, <2>1, SmallerSquare DEF Square
  <2>4. dd <= Distance2(q, p) /\ Distance2(q, p) \in Int
    <3> DEFINE s1 == Square(q[1] - p[1])
               s2 == Square(q[2] - p[2])
               s3 == Square(q[3] - p[3])
    <3>1. Axis = {1, 2, 3}
      BY DEF Axis
    <3>2. /\ q[1] - p[1] \in Int /\ q[2] - p[2] \in Int /\ q[3] - p[3] \in Int
      BY <3>1, SideAssumption DEF InBox
    <3>3. \A x \in Int : Square(x) \in Nat
      BY DEF Square
    <3>4. s1 \in Nat /\ s2 \in Nat /\ s3 \in Nat
      BY <3>2, <3>3
    <3>5. dd = s1 \/ dd = s2 \/ dd = s3
      BY <3>1
    <3>6. Distance2(q, p) = s1 + s2 + s3
      BY DEF Distance2
    <3> HIDE DEF s1, s2, s3, dd
    <3> QED
      BY <3>4, <3>5, <3>6
  <2> HIDE DEF dd, bb
  <2>5. dd * bb <= Distance2(q, p) * bb
    BY <2>3, <2>4, Larger
  <2> QED
    BY <2>2, <2>5 DEF bb
<1>11. Distance2(q, p) * Square(n) \in Int
  <2>1. Axis = {1, 2, 3}
    BY DEF Axis
  <2>2. Distance2(q, p) \in Int /\ Square(n) \in Int
    BY <2>1, <1>7, SideAssumption DEF Distance2, Square, InBox
  <2> QED
    BY <2>2
<1>12. MaxRadius2(i) = Square(r)
  BY Zenon DEF MaxRadius2, low, upp
<1> QED
  BY <1>9, <1>10, <1>11, <1>12

-----------------------------------------------------------------------------
(* The block of the point q in a search around the point p. *)
BlockAround(q, p, n) ==
  LET r == [k \in Axis |-> BlockOf(q, n)[k] - BlockOf(p, n)[k]]
  IN [range |-> r, level |-> Max({Absolute(r[k]) : k \in Axis})]

(* The iterator was at this block. *)
Seen(q, p, n, i) == ~ After(BlockAround(q, p, n), Place(i))

(* It is the best one of the points that were seen. *)
Best(best, p, n, i, points) ==
  /\ best \in DOMAIN points \cup {MaxIndex}
  /\ \A g \in DOMAIN points : Seen(points[g], p, n, i) =>
       best # MaxIndex /\ Distance2(points[best], p) <= Distance2(points[g], p)

Searches ==
  Building = {} /\ it # NoIterator =>
    /\ \A w \in Workers : pc[w] = "end"
    /\ closest.position \in Queries
    /\ closest = [position |-> closest.position, index |-> closest.index]
    /\ Around(it, closest.position, Blocks)
    /\ Best(closest.index, closest.position, Blocks, it, positions)

(* Every point is in a block inside. *)
LEMMA AroundInside ==
  ASSUME NEW n \in Nat \ {0}, NEW p, InBox(p), NEW q, InBox(q)
  PROVE  BlockAround(q, p, n) \in Inside(BlockOf(p, n), n)
<1> DEFINE r == [k \in Axis |-> BlockOf(q, n)[k] - BlockOf(p, n)[k]]
           f == [k \in Axis |-> Absolute(r[k])]
           l == Max({Absolute(r[k]) : k \in Axis})
<1>1. \A k \in Axis : BlockOf(q, n)[k] \in 0 .. n - 1 /\ BlockOf(p, n)[k] \in 0 .. n - 1
  BY BlockInBox DEF InBox
<1>2. r \in [Axis -> Int] /\ \A k \in Axis : BlockOf(p, n)[k] + r[k] \in 0 .. n - 1
  BY <1>1
<1>3. \A k \in Axis : r[k] \in Int /\ f[k] = Absolute(r[k]) /\ f[k] \in Nat
  BY <1>2 DEF Absolute
<1> HIDE DEF r
<1>4. {Absolute(r[k]) : k \in Axis} = {f[k] : k \in Axis}
  BY <1>3
<1> DEFINE m == Max({f[k] : k \in Axis})
<1>5. (\E k \in Axis : m = f[k]) /\ (\A k \in Axis : m >= f[k])
  <2>1. \A k \in Axis : f[k] \in Int
    BY <1>3
  <2> HIDE DEF f
  <2>2. /\ \E k \in Axis : Max({f[j] : j \in Axis}) = f[k]
        /\ \A k \in Axis : Max({f[j] : j \in Axis}) >= f[k]
    BY <2>1, OnAxes
  <2> QED
    BY <2>2
<1>6. l = m
  BY <1>4
<1> HIDE DEF f, l, m
<1>7. l \in Nat /\ (\E k \in Axis : l = Absolute(r[k])) /\ (\A k \in Axis : l >= Absolute(r[k]))
  BY <1>3, <1>5, <1>6
<1>8. /\ \A k \in Axis : Absolute(r[k]) \in Nat
      /\ \A k \in Axis : Absolute(r[k]) <= l
  BY <1>3, <1>7
<1> DEFINE s == [range |-> r, level |-> l]
<1>9. s \in Shells
  BY <1>2, <1>7, <1>8 DEF Shells
<1>10. s \in Inside(BlockOf(p, n), n)
  BY <1>2, <1>9 DEF Inside, IsInside
<1> QED
  BY <1>10 DEF BlockAround, r, l

(* The points of the block the iterator is at. *)
LEMMA NeighboursAre ==
  ASSUME NEW n \in Nat \ {0}, NEW p, InBox(p), NEW points, NEW i, Around(i, p, n),
         NEW g \in DOMAIN points, InBox(points[g])
  PROVE  g \in Neighbours(i, points, n) <=> BlockAround(points[g], p, n) = Place(i)
<1> DEFINE a == BlockOf(p, n)
           c == BlockOf(points[g], n)
           r == [k \in Axis |-> c[k] - a[k]]
           s == BlockAround(points[g], p, n)
           t == [k \in Axis |-> i.anchor[k] + i.range[k]]
<1>1. i.anchor = a
  BY AroundLast
<1>2. g \in Neighbours(i, points, n) <=> c = t
  BY DEF Neighbours, PointsIn
<1>3. /\ a \in [Axis -> Int] /\ c \in [Axis -> Int]
      /\ \A k \in Axis : a[k] \in Int /\ c[k] \in Int
  BY BlockInBox DEF InBox
<1>4. Place(i) \in Shells /\ s \in Shells
  BY AroundInside DEF Around, Inside
<1>5. Place(i).range = i.range /\ Place(i).level = i.level
  BY DEF Place
<1>6. i.range \in [Axis -> Int] /\ i.level \in Nat
  BY <1>4, <1>5, ShellTriple DEF OnShell
<1>7. s.range = r
  BY DEF BlockAround
<1> HIDE DEF a, c, s
<1>8. c = t <=> r = i.range
  <2>1. \A k \in Axis : i.range[k] \in Int
    BY <1>6
  <2>2. t \in [Axis -> Int] /\ r \in [Axis -> Int]
    BY <1>1, <1>3, <2>1
  <2>3. (\A k \in Axis : c[k] = t[k]) <=> (\A k \in Axis : r[k] = i.range[k])
    BY <1>1, <1>3, <2>1
  <2>4. c = t <=> \A k \in Axis : c[k] = t[k]
    BY <1>3, <2>2
  <2>5. r = i.range <=> \A k \in Axis : r[k] = i.range[k]
    BY <1>6, <2>2
  <2> QED
    BY <2>3, <2>4, <2>5
<1>9. ASSUME r = i.range PROVE s = Place(i)
  BY <1>4, <1>5, <1>7, <1>9, SameRange
<1>10. ASSUME s = Place(i) PROVE r = i.range
  BY <1>5, <1>7, <1>10
<1> QED
  BY <1>2, <1>8, <1>9, <1>10 DEF s

(* A point that was not seen yet is not closer than the radius. *)
LEMMA UnseenFar ==
  ASSUME NEW n \in Nat \ {0}, NEW p, InBox(p), NEW q, InBox(q),
         NEW i, Around(i, p, n), i.level >= 1,
         ~ After(Place(i), BlockAround(q, p, n))
  PROVE  /\ MaxRadius2(i) <= Distance2(q, p) * Square(n)
         /\ MaxRadius2(i) \in Nat
<1> DEFINE s == BlockAround(q, p, n)
           a == BlockOf(p, n)
           c == BlockOf(q, n)
<1>1. s \in Shells /\ Place(i) \in Shells
  BY AroundInside DEF Around, Inside
<1>2. Place(i).level = i.level
  BY DEF Place
<1>3. s.level \in Nat /\ i.level \in Nat /\ i.level <= s.level
  <2>1. s.level \in Nat /\ Place(i).level \in Nat
    BY <1>1, ShellTriple DEF OnShell
  <2>2. ~ (s.level < Place(i).level)
    BY DEF After, Lex
  <2> QED
    BY <1>2, <2>1, <2>2
<1>4. PICK k \in Axis : s.range[k] \in {s.level, -s.level}
  <2>1. Axis = {1, 2, 3}
    BY DEF Axis
  <2>2. OnShell(s.range[1], s.range[2], s.range[3], s.level)
    BY <1>1, ShellTriple
  <2> HIDE DEF s
  <2> QED
    BY <2>1, <2>2 DEF OnShell
<1>5. s.range[k] = c[k] - a[k] /\ c[k] \in Int /\ a[k] \in Int
  <2>1. c[k] \in Int /\ a[k] \in Int
    BY BlockInBox DEF InBox
  <2> HIDE DEF a, c
  <2> QED
    BY <2>1 DEF BlockAround, a, c
<1>6. c[k] >= a[k] + i.level \/ c[k] <= a[k] - i.level
  <2> HIDE DEF s, a, c
  <2> QED
    BY <1>3, <1>4, <1>5
<1> QED
  BY <1>3, <1>6, Radius DEF InBox

(* The better one of the best point so far and the points of a block. *)
LEMMA BetterIs ==
  ASSUME NEW p, InBox(p), \A g \in Generators : InBox(positions[g]),
         NEW n \in Nat, Generators = 0 .. n - 1,
         NEW points \in SUBSET Generators, NEW best \in Generators \cup {MaxIndex}
  PROVE  LET b == Better(p, best, points)
             D2(j) == Distance2(positions[j], p)
         IN /\ b \in Generators \cup {MaxIndex}
            /\ best # MaxIndex => b # MaxIndex /\ D2(b) <= D2(best)
            /\ \A j \in points : b # MaxIndex /\ D2(b) <= D2(j)
<1> DEFINE D2(j) == Distance2(positions[j], p)
           closer == {j \in points : best = MaxIndex \/ D2(j) < D2(best)}
           b == Better(p, best, points)
<1>1. MaxIndex \notin Generators
  BY DEF MaxIndex
<1>2. \A j \in Generators : D2(j) \in Nat
  <2>1. \A x \in Int : Square(x) \in Nat
    BY DEF Square
  <2>2. Axis = {1, 2, 3}
    BY DEF Axis
  <2>3. ASSUME NEW j \in Generators PROVE D2(j) \in Nat
    <3> DEFINE q == positions[j]
    <3>1. /\ p[1] \in Int /\ p[2] \in Int /\ p[3] \in Int
          /\ q[1] \in Int /\ q[2] \in Int /\ q[3] \in Int
      BY <2>2 DEF InBox
    <3>2. q[1] - p[1] \in Int /\ q[2] - p[2] \in Int /\ q[3] - p[3] \in Int
      BY <3>1
    <3> HIDE DEF q
    <3>3. Square(q[1] - p[1]) \in Nat /\ Square(q[2] - p[2]) \in Nat /\ Square(q[3] - p[3]) \in Nat
      BY <2>1, <3>2
    <3>4. Distance2(q, p) \in Nat
      <4> DEFINE s1 == Square(q[1] - p[1])
                 s2 == Square(q[2] - p[2])
                 s3 == Square(q[3] - p[3])
      <4>1. Distance2(q, p) = s1 + s2 + s3
        BY DEF Distance2
      <4>2. s1 \in Nat /\ s2 \in Nat /\ s3 \in Nat
        BY <3>3
      <4> HIDE DEF s1, s2, s3
      <4> QED
        BY <4>1, <4>2
    <3> QED
      BY <3>4 DEF q
  <2> QED
    BY <2>3
<1>3. b = IF closer = {} THEN best
          ELSE CHOOSE j \in closer : \A k \in closer : D2(j) < D2(k) \/ (D2(j) = D2(k) /\ j <= k)
  BY Zenon DEF Better
<1> HIDE DEF D2, b
<1>4. ASSUME closer # {}
      PROVE  /\ b \in closer
             /\ \A k \in closer : D2(b) < D2(k) \/ (D2(b) = D2(k) /\ b <= k)
  <2> DEFINE values == {D2(j) : j \in closer}
  <2>1. closer \subseteq Generators
    OBVIOUS
  <2>2. values \in SUBSET Nat /\ values # {}
    BY <1>2, <1>4, <2>1
  <2>3. PICK v \in values : \A u \in values : v <= u
    <3> HIDE DEF values
    <3> QED
      BY <2>2, LeastNumber
  <2> DEFINE nearest == {j \in closer : D2(j) = v}
  <2>4. nearest \in SUBSET Nat /\ nearest # {}
    BY <2>1, <2>3
  <2>5. PICK m \in nearest : \A k \in nearest : m <= k
    <3> HIDE DEF nearest
    <3> QED
      BY <2>4, LeastNumber
  <2>6. m \in closer /\ \A k \in closer : D2(m) < D2(k) \/ (D2(m) = D2(k) /\ m <= k)
    <3>1. ASSUME NEW k \in closer PROVE D2(m) < D2(k) \/ (D2(m) = D2(k) /\ m <= k)
      <4>1. D2(m) = v /\ v <= D2(k) /\ D2(k) \in Nat /\ v \in Nat
        BY <1>2, <2>1, <2>2, <2>3, <2>5
      <4>2. D2(k) = v => m <= k
        BY <2>5
      <4> QED
        BY <4>1, <4>2
    <3> QED
      BY <2>5, <3>1
  <2> HIDE DEF closer
  <2> QED
    BY <1>3, <1>4, <2>6
<1>5. CASE closer = {}
  <2>1. b = best
    BY <1>3, <1>5
  <2>2. ASSUME NEW j \in points PROVE best # MaxIndex /\ D2(best) <= D2(j)
    <3>1. best # MaxIndex /\ ~ (D2(j) < D2(best))
      BY <1>5
    <3>2. D2(j) \in Nat /\ D2(best) \in Nat
      BY <1>2, <3>1
    <3> QED
      BY <3>1, <3>2
  <2>3. best # MaxIndex => D2(best) <= D2(best)
    BY <1>2
  <2> QED
    BY <2>1, <2>2, <2>3 DEF b, D2
<1>6. CASE closer # {}
  <2>1. /\ b \in points /\ b \in Generators /\ b # MaxIndex
        /\ best = MaxIndex \/ D2(b) < D2(best)
    BY <1>1, <1>4, <1>6
  <2>2. ASSUME NEW j \in points PROVE D2(b) <= D2(j)
    <3>1. D2(b) \in Nat /\ D2(j) \in Nat
      BY <1>2, <2>1
    <3>2. CASE j \in closer
      BY <1>4, <1>6, <3>1, <3>2
    <3>3. CASE j \notin closer
      <4>1. best # MaxIndex /\ ~ (D2(j) < D2(best)) /\ D2(best) \in Nat
        BY <1>2, <3>3
      <4> QED
        BY <2>1, <3>1, <4>1
    <3> QED
      BY <3>2, <3>3
  <2>3. best # MaxIndex => D2(b) <= D2(best)
    <3> SUFFICES ASSUME best # MaxIndex PROVE D2(b) <= D2(best)
      OBVIOUS
    <3>1. D2(b) \in Nat /\ D2(best) \in Nat /\ D2(b) < D2(best)
      BY <1>2, <2>1
    <3> QED
      BY <3>1
  <2> QED
    BY <2>1, <2>2, <2>3 DEF b, D2
<1> QED
  BY <1>5, <1>6

-----------------------------------------------------------------------------
(* The numbers a search depends on. *)
LEMMA SearchBasics ==
  ASSUME positions \in Layouts \cup Located
  PROVE  /\ Blocks \in Nat \ {0}
         /\ Generators # {} /\ MaxIndex \notin Generators
         /\ \A g \in Generators : InBox(positions[g])
         /\ \A p \in Queries : InBox(p)
         /\ CellSize \in Nat /\ Generators = 0 .. CellSize - 1
<1>1. Generators # {}
  BY LayoutAssumption DEF Generators
<1>2. \A g \in Generators : InBox(positions[g])
  BY LayoutAssumption, SideAssumption DEF Generators, InBox
<1>3. \A p \in Queries : InBox(p)
  BY LayoutAssumption DEF InBox
<1>4. CellSize \in Nat /\ Generators = 0 .. CellSize - 1
  BY Sizes
<1> QED
  BY <1>1, <1>2, <1>3, <1>4, BlocksExist DEF MaxIndex

(* A search starts with the best point of its first block. *)
LEMMA LocateStep ==
  ASSUME positions \in Layouts \cup Located, NEW p \in Queries, Locate(p)
  PROVE  Searches'
<1> DEFINE n == Blocks
           i == Iterator(p, n)
           near == Neighbours(i, positions, n)
           b == Better(p, MaxIndex, near)
<1>1. /\ n \in Nat \ {0} /\ InBox(p) /\ MaxIndex \notin Generators
      /\ \A g \in Generators : InBox(positions[g])
      /\ CellSize \in Nat /\ Generators = 0 .. CellSize - 1
  BY SearchBasics
<1>2. /\ positions' = positions /\ it' = i /\ closest' = [position |-> p, index |-> b]
      /\ \A w \in Workers : pc'[w] = "end"
  BY DEF Locate, market
<1>3. Blocks' = n
  BY <1>2 DEF Blocks
<1>4. Around(i, p, n) /\ \A s \in Shells : ~ After(Place(i), s)
  BY <1>1, StartAround DEF InBox
<1>5. ASSUME NEW g \in Generators, Seen(positions[g], p, n, i) PROVE g \in near
  <2>1. BlockAround(positions[g], p, n) \in Shells /\ Place(i) \in Shells
    BY <1>1, <1>4, AroundInside DEF Around, Inside
  <2>2. BlockAround(positions[g], p, n) = Place(i)
    BY <1>4, <1>5, <2>1, Same DEF Seen
  <2> HIDE DEF i, n
  <2> QED
    BY <1>1, <1>4, <2>2, NeighboursAre DEF Generators
<1>6. near \in SUBSET Generators
  BY DEF Neighbours, PointsIn, Generators
<1> HIDE DEF n, i, near
<1>7. /\ b \in Generators \cup {MaxIndex}
      /\ \A j \in near : b # MaxIndex /\ Distance2(positions[b], p) <= Distance2(positions[j], p)
  BY <1>1, <1>6, BetterIs
<1> HIDE DEF b
<1>8. Best(b, p, n, i, positions)
  BY <1>5, <1>7 DEF Best, Generators
<1>9. closest'.position = p /\ closest'.index = b
  BY <1>2
<1> QED
  BY <1>2, <1>3, <1>4, <1>8, <1>9 DEF Searches

(* It goes on with the best point of the next one. *)
LEMMA SearchStep ==
  ASSUME positions \in Layouts \cup Located, Searches, Building = {}, SearchBlock
  PROVE  Searches'
<1> DEFINE n == Blocks
           p == closest.position
           j == IncreaseRange(it, n, TRUE)
           near == Neighbours(j, positions, n)
           best == closest.index
           b == Better(p, best, near)
<1>1. /\ it # NoIterator /\ HasMore(it) /\ it' = j /\ positions' = positions
      /\ closest' = [closest EXCEPT !.index = b]
      /\ \A w \in Workers : pc'[w] = "end"
  BY DEF SearchBlock, market
<1>2. /\ p \in Queries /\ Around(it, p, n) /\ Best(best, p, n, it, positions)
      /\ closest = [position |-> p, index |-> best]
  BY <1>1 DEF Searches
<1>3. /\ n \in Nat \ {0} /\ InBox(p) /\ MaxIndex \notin Generators
      /\ \A g \in Generators : InBox(positions[g])
      /\ CellSize \in Nat /\ Generators = 0 .. CellSize - 1
  BY <1>2, SearchBasics
<1>4. Blocks' = n
  BY <1>1 DEF Blocks
<1>5. /\ Around(j, p, n)
      /\ IsFirst(Place(j), IncreaseIndices(Place(it)), BlockOf(p, n), n)
  BY <1>1, <1>2, <1>3, NextAround DEF InBox
<1>6. near \in SUBSET Generators
  BY DEF Neighbours, PointsIn, Generators
<1>7. best \in Generators \cup {MaxIndex}
  BY <1>2 DEF Best, Generators
<1>8. closest' = [position |-> p, index |-> b] /\ closest'.position = p /\ closest'.index = b
  <2> HIDE DEF b, p, best
  <2> QED
    BY <1>1, <1>2
<1>9. ASSUME NEW g \in Generators, Seen(positions[g], p, n, j)
      PROVE  Seen(positions[g], p, n, it) \/ g \in near
  <2> DEFINE s == BlockAround(positions[g], p, n)
             next == IncreaseIndices(Place(it))
  <2>1. s \in Inside(BlockOf(p, n), n)
    BY <1>3, AroundInside
  <2>2. /\ Place(it) \in Shells /\ Place(j) \in Shells /\ s \in Shells
    BY <1>2, <1>5, <2>1 DEF Around, Inside
  <2>3. CASE ~ After(s, Place(it))
    BY <2>3 DEF Seen
  <2>4. CASE After(s, Place(it))
    <3>1. ~ After(next, s)
      BY <2>2, <2>4, Successor
    <3>2. ~ After(Place(j), s)
      BY <1>5, <2>1, <3>1 DEF IsFirst
    <3>3. ~ After(s, Place(j))
      BY <1>9 DEF Seen
    <3>4. s = Place(j)
      BY <2>2, <3>2, <3>3, Same
    <3> HIDE DEF n, j, p
    <3> QED
      BY <1>3, <1>5, <3>4, NeighboursAre DEF Generators
  <2> QED
    BY <2>3, <2>4
<1> HIDE DEF n, p, j, near, best
<1>10. /\ b \in Generators \cup {MaxIndex}
       /\ best # MaxIndex =>
            b # MaxIndex /\ Distance2(positions[b], p) <= Distance2(positions[best], p)
       /\ \A g \in near :
            b # MaxIndex /\ Distance2(positions[b], p) <= Distance2(positions[g], p)
  BY <1>3, <1>6, <1>7, BetterIs
<1> HIDE DEF b
<1>11. \A g \in Generators : Distance2(positions[g], p) \in Int
  BY <1>3, DistanceInt
<1>12. ASSUME NEW g \in Generators, Seen(positions[g], p, n, j)
       PROVE  b # MaxIndex /\ Distance2(positions[b], p) <= Distance2(positions[g], p)
  <2>1. CASE g \in near
    BY <1>10, <2>1
  <2>2. CASE Seen(positions[g], p, n, it)
    <3>1. best # MaxIndex /\ Distance2(positions[best], p) <= Distance2(positions[g], p)
      BY <1>2, <2>2 DEF Best, Generators
    <3>2. /\ Distance2(positions[b], p) \in Int /\ Distance2(positions[best], p) \in Int
          /\ Distance2(positions[g], p) \in Int
      BY <1>7, <1>10, <1>11, <3>1
    <3> QED
      BY <1>10, <3>1, <3>2
  <2> QED
    BY <1>9, <1>12, <2>1, <2>2
<1>13. Best(b, p, n, j, positions)
  BY <1>10, <1>12 DEF Best, Generators
<1> QED
  BY <1>1, <1>2, <1>4, <1>5, <1>8, <1>13 DEF Searches

(* What was found when the search ends is the closest point of all. *)
LEMMA FoundClosest ==
  ASSUME positions \in Layouts \cup Located, Searches
  PROVE  ClosestFound
<1> SUFFICES ASSUME Found PROVE ClosestFound
  BY DEF ClosestFound
<1> DEFINE n == Blocks
           p == closest.position
           best == closest.index
           j == IncreaseRange(it, n, TRUE)
           D2(g) == Distance2(positions[g], p)
<1>1. /\ it # NoIterator /\ Building = {}
  BY DEF Found, Building
<1>2. p \in Queries /\ Around(it, p, n) /\ Best(best, p, n, it, positions)
  BY <1>1 DEF Searches
<1>3. /\ n \in Nat \ {0} /\ InBox(p) /\ MaxIndex \notin Generators /\ Generators # {}
      /\ \A g \in Generators : InBox(positions[g])
  BY <1>2, SearchBasics
<1>4. \A g \in Generators : D2(g) \in Int
  BY <1>3, DistanceInt
<1>5. \A g \in Generators : Seen(positions[g], p, n, it) =>
        best \in Generators /\ D2(best) <= D2(g)
  BY <1>2 DEF Best, Generators
<1>6. \A g \in Generators : /\ BlockAround(positions[g], p, n) \in Inside(BlockOf(p, n), n)
                            /\ BlockAround(positions[g], p, n) \in Shells
  BY <1>3, AroundInside DEF Inside
<1>7. CASE ~ HasMore(it)
  <2>1. PICK m \in Inside(BlockOf(p, n), n) :
          /\ m.range = MaxRange(BlockOf(p, n), n)
          /\ \A s \in Inside(BlockOf(p, n), n) : ~ After(s, m)
    <3>1. \A k \in Axis : BlockOf(p, n)[k] \in 0 .. n - 1
      BY <1>3, BlockInBox DEF InBox
    <3> QED
      BY <1>3, <3>1, LastBlock
  <2>2. it.range = m.range
    <3>1. it.maxrange = MaxRange(BlockOf(p, n), n)
      BY <1>2, AroundLast
    <3> QED
      BY <1>7, <2>1, <3>1 DEF HasMore
  <2>3. m = Place(it)
    <3>1. Place(it) \in Shells /\ m \in Shells /\ Place(it).range = m.range
      BY <1>2, <2>1, <2>2 DEF Around, Inside, Place
    <3> QED
      BY <3>1, SameRange
  <2>4. \A g \in Generators : Seen(positions[g], p, n, it)
    BY <1>6, <2>1, <2>3 DEF Seen
  <2> HIDE DEF n, p, best, D2
  <2>5. best \in Generators /\ \A g \in Generators : D2(best) <= D2(g)
    BY <1>3, <1>5, <2>4
  <2> QED
    BY <2>5 DEF ClosestFound, p, best, D2
<1>8. CASE HasMore(it)
  <2>1. ~ SearchOn(j)
    BY <1>8 DEF Found
  <2>2. best # MaxIndex /\ ~ (D2(best) * Square(n) >= MaxRadius2(j))
    BY <2>1 DEF SearchOn
  <2>3. best \in Generators
    BY <1>2, <2>2 DEF Best, Generators
  <2>4. /\ Around(j, p, n) /\ j.level >= 1
        /\ IsFirst(Place(j), IncreaseIndices(Place(it)), BlockOf(p, n), n)
    BY <1>2, <1>3, <1>8, NextAround DEF InBox
  <2>5. Place(it) \in Shells
    BY <1>2 DEF Around, Inside
  <2>6. ASSUME NEW g \in Generators PROVE D2(best) <= D2(g)
    <3>1. CASE Seen(positions[g], p, n, it)
      BY <1>5, <3>1
    <3>2. CASE ~ Seen(positions[g], p, n, it)
      <4> DEFINE s == BlockAround(positions[g], p, n)
      <4>1. ~ After(IncreaseIndices(Place(it)), s)
        BY <1>6, <2>5, <3>2, Successor DEF Seen
      <4>2. ~ After(Place(j), s)
        BY <1>6, <2>4, <4>1 DEF IsFirst
      <4>3. MaxRadius2(j) <= D2(g) * Square(n) /\ MaxRadius2(j) \in Nat
        BY <1>3, <2>4, <4>2, UnseenFar
      <4>4. D2(best) \in Int /\ D2(g) \in Int /\ Square(n) \in Nat
        <5>1. Square(n) \in Nat
          BY <1>3 DEF Square
        <5> QED
          BY <1>4, <2>3, <5>1
      <4> HIDE DEF D2, j, n, best
      <4>5. ASSUME D2(g) < D2(best) PROVE FALSE
        <5>1. D2(g) * Square(n) <= D2(best) * Square(n) /\ D2(best) * Square(n) \in Int
              /\ D2(g) * Square(n) \in Int
          BY <4>4, <4>5, Larger
        <5> QED
          BY <2>2, <4>3, <5>1
      <4> QED
        BY <4>4, <4>5
    <3> QED
      BY <3>1, <3>2
  <2> QED
    BY <2>3, <2>6 DEF ClosestFound
<1> QED
  BY <1>7, <1>8

(* Every step keeps what is known of a search. *)
LEMMA SearchesNext ==
  ASSUME IInv, Searches, [Next]_vars
  PROVE  Searches'
<1>1. positions \in Layouts \cup Located
  BY DEF IInv, MarketType
<1>2. ASSUME NEW w \in Workers, WorkerStep(w) PROVE Searches'
  <2>1. CASE TestIndex(w)
    <3>1. it' = it /\ pc[w] = "idle" /\ pc' = [pc EXCEPT ![w] = IF currentIndex = CellSize THEN "end" ELSE "take"]
      BY <2>1 DEF TestIndex, construction
    <3>2. Building' = Building
      BY <3>1 DEF IInv, MarketType, Building
    <3>3. ~ (Building = {} /\ it # NoIterator)
      BY <3>1 DEF Searches
    <3> QED
      BY <3>1, <3>2, <3>3 DEF Searches
  <2>2. CASE TakeJob(w)
    <3>1. it' = it /\ pc[w] = "take" /\ \E x \in {"setup", "end"} : pc' = [pc EXCEPT ![w] = x]
      BY <2>2 DEF TakeJob, construction
    <3>2. Building' = Building
      BY <3>1 DEF IInv, MarketType, Building
    <3>3. ~ (Building = {} /\ it # NoIterator)
      BY <3>1 DEF Searches
    <3> QED
      BY <3>1, <3>2, <3>3 DEF Searches
  <2>3. CASE StoreCell(w)
    BY <2>3 DEF StoreCell, Searches
  <2>4. CASE ~ TestIndex(w) /\ ~ TakeJob(w) /\ ~ StoreCell(w)
    <3>1. pc'[w] \in {"next", "walk", "check"}
      BY <1>2, <2>4 DEF WorkerStep, Setup, Skip, Insert, Walk, AddVertex, Check, Inserted,
                        NextBlock, IInv, MarketType
    <3>2. Building' # {}
      BY <3>1 DEF Building
    <3> QED
      BY <3>2 DEF Searches
  <2> QED
    BY <2>1, <2>2, <2>3, <2>4
<1>3. ASSUME NEW p \in Queries, Locate(p) PROVE Searches'
  BY <1>1, <1>3, LocateStep
<1>4. CASE SearchBlock
  <2>1. Building = {}
    BY <1>4 DEF SearchBlock, Building
  <2> QED
    BY <1>1, <1>4, <2>1, SearchStep
<1>5. CASE Return
  BY <1>5 DEF Return, Searches
<1>6. CASE UNCHANGED vars
  BY <1>6 DEF vars, Searches, Building, Around, Best, Blocks, Seen, LowerAt, UpperAt
<1> QED
  BY <1>2, <1>3, <1>4, <1>5, <1>6 DEF Next

(* The search for the cell of a position that ends has found a generator   *)
(* that is closest to it.                                                  *)
THEOREM SearchClosest == Spec => []ClosestFound
<1>1. Init => Searches
  BY DEF Init, Searches
<1>2. IInv /\ Searches => ClosestFound
  BY FoundClosest DEF IInv, MarketType
<1>3. (IInv /\ Searches) /\ [Next]_vars => (IInv /\ Searches)'
  BY MarketNext, SearchesNext
<1> QED
  BY <1>1, <1>2, <1>3, MarketInit, PTL DEF Spec
=============================================================================
