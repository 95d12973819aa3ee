CONSTANTS
  s1 = s1
  s2 = s2
  b1 = b1
  b2 = b2
  c1 = c1
  c2 = c2
  None = None
  Session = {s1, s2}
  Backend = {b1, b2}
  Conn = {c1, c2}
  Target <- Targets
  RR = RR
  RC = RC
  UTC = UTC
  CST = CST
  Level = {RR, RC}
  Zone = {UTC, CST}
  DefaultLevel = RR
  DefaultZone = UTC
  TransRollback = {s1}
  Faults <- MCFaults
  MaxTrx = 2
  MaxSet = 1
SYMMETRY Symmetry
SPECIFICATION Spec
INVARIANT TypeOK
INVARIANT Durable
INVARIANT StaysRolledBack
INVARIANT CleanPool
PROPERTY RunsAsAsked
CHECK_DEADLOCK FALSE
