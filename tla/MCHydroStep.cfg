CONSTANTS
  Layouts <- SmallLayouts
  Executed <- SmallestLayouts
  MaxStep = 1
  Cells <- UnequalCells
SPECIFICATION Spec
INVARIANTS
  Exclusive
  NoneLeftOut
  PhasesOrdered
  EachInterfaceOnce
