CONSTANTS
  Conn = {c1, c2, c3, c4}
  Null = Null
  Priority = {1, 2, 3}
  MaxTrx = 2
  DeleteAny = TRUE
SPECIFICATION Spec
INVARIANT LastDecides
INVARIANT WalkVisitsAll
INVARIANT NoDangling
SYMMETRY Symmetry
CHECK_DEADLOCK FALSE
