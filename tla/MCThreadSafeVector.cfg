CONSTANTS
  t1 = t1
  t2 = t2
  t3 = t3
  NoIndex = NoIndex
  Thread <- ThreeThreads
  Size = 2
  IndexWidth = 3
SPECIFICATION FairSpec
INVARIANTS
  Exclusive
  CounterExact
  FailureMeansFull
PROPERTY
  SomeSearchSucceeds
