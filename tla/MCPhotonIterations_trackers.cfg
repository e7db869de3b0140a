CONSTANTS
  Scenarios <- OnlyTracked
  Packet = {1, 2, 3}
  Flights <- AllFlights
SPECIFICATION Spec
INVARIANT
  TrackerExact
