CONSTANTS
  a = a
  b = b
  c = c
  n1 = n1
  n2 = n2
  Node = {n1, n2}
  Session = {a, b, c}
  NodeOf <- TwoNodes
  LongTrx = {a, b}
  Part = {1}
  Step = 2
  Mode <- OneAndZero
  Width = 64
  ColMax = 4
  Explicit = {3}
  Estimates = {0, 2}
  Faults = {"bulk"}
  MaxRows = 2
  UnknownRows = 1
  MaxStmt = 3
  MaxNext = 4
SPECIFICATION Spec
INVARIANT TypeOK
INVARIANT Exclusive
INVARIANT OwnClass
INVARIANT CursorNotBelow
PROPERTY ImplementsUniqueIds
SYMMETRY Symmetry
CHECK_DEADLOCK FALSE
