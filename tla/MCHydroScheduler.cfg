CONSTANTS
  NThread = 2
  Layouts <- PeriodicPairs
  Layout <- PeriodicPair
  Selection <- TwoFaces
  Task <- TwoFaces
  Lock <- AllLocks
  Deps <- SomeDeps
  SubgridOf <- SomeSubgrid
  Children <- OurChildren
  NoTask = NoTask
SPECIFICATION FairSpec
INVARIANTS
  Exclusive
  QueueExclusive
  ExitComplete
PROPERTIES
  ImplementsPool
  AllTasksDone
