CONSTANTS
  Thread = {t1, t2}
  NGrid = 2
  Capacity = 2
  NBuffer = 9
  Discrete <- NoBatches
  Continuous <- TwoBlocks
  NBlock = 2
  Target = 3
  Reemission = FALSE
  MaxReemit = 0
  None = None
SPECIFICATION FairSpec
INVARIANTS
  FlushOnce
  ExitFlushed
PROPERTY
  Terminates
