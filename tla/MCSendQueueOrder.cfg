SPECIFICATION Spec
CONSTANTS
  p1 = p1
  p2 = p2
  Peers = {p1, p2}
  Uses <- TwoPeers
  MaxRetransmit = 2
  MaxNodes = 4
  MaxFlight = 2
  MaxFlights = 2
INVARIANTS
  Ordered
CHECK_DEADLOCK FALSE
