SPECIFICATION Spec
CONSTANTS
  p1 = p1
  p2 = p2
  Peers = {p1, p2}
  Uses <- AllUses
  MaxRetransmit = 2
  MaxNodes = 3
  MaxFlight = 3
  MaxFlights = 3
INVARIANTS
  TypeOK
  FlightOrder
  Latency
PROPERTIES
  Backoff
  Drains
CHECK_DEADLOCK FALSE
