CONSTANTS
  Side = 5
  Workers <- TwoWorkers
  JobSize = 2
  PerBlock = 1
  Layouts <- BuiltLayouts
  Located <- SearchedLayouts
  Queries <- SomeQueries
SPECIFICATION Spec
CHECK_DEADLOCK FALSE
INVARIANTS
  Linked
  Delaunay
  CellsExact
  EachCellOnce
  ClosestFound
PROPERTY
  GridDone
