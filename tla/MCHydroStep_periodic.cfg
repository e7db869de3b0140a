CONSTANTS
  Layouts <- PeriodicSubgrid
  Executed <- PeriodicSubgrid
  MaxStep = 1
  Cells <- UnequalCells
SPECIFICATION FairSpec
PROPERTY
  StepsComplete
