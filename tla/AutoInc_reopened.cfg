CONSTANTS
  a = a
  b = b
  c = c
  n1 = n1
  n2 = n2
  Node = {n1}
  Session = {a, b}
  NodeOf <- OneNode
  LongTrx = {}
  Part = {1, 2}
  Step = 2
  Mode <- One
  Width = 64
  ColMax = 9
  Explicit = {4}
  Estimates = {0}
  Faults = {"row"}
  MaxRows = 2
  UnknownRows = 2
  MaxStmt = 3
  MaxNext = 12
SPECIFICATION Spec
INVARIANT Unique
