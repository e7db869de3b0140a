CONSTANTS
  Scenarios <- AllScenarios
  Packet = {1, 2, 3}
  Flights <- AllFlights
SPECIFICATION Spec
INVARIANTS
  FamiliesExact
  CopiesFresh
  CountersExact
PROPERTY
  ImplementsWalk
