SPECIFICATION Spec
CONSTANTS
  Sessions = {s1, s2}
  Peers = {p1, p2, p3}
  Params = {h1, h2}
  Nodes = {n1, n2}
  None = None
  Lost = Lost
SYMMETRY Symmetry
INVARIANTS OneSession
