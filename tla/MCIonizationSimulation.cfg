CONSTANTS
  MaxLevel = 2
  Grain = 4
  None = None
  Scenarios <- AllScenarios
  Thread = {1, 2}
SPECIFICATION FairSpec
INVARIANTS
TreeExact
NeighboursExact
PROPERTIES
PathExact
RunEnds
