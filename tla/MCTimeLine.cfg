CONSTANTS
  Bits = 4
  Minima <- SmallMinima
  Maxima <- SmallMaxima
  Requests <- AllRequests
  Limits <- SomeLimits
  MaxCrash = 2
SPECIFICATION Spec
INVARIANTS
Aligned
Accounted
