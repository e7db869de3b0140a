CONSTANTS
  Thread = {t1, t2}
  NGrid = 2
  Capacity = 2
  NBuffer = 9
  Discrete <- TwoBatches
  Continuous <- NoBatches
  NBlock = 0
  Target = 3
  Reemission = TRUE
  MaxReemit = 1
  None = None
SYMMETRY Symmetry
SPECIFICATION Spec
INVARIANTS
  Conserved
  OneHolder
  ActiveBuffers
  Exclusive
  ExitClean
  Room
