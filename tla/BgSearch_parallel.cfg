CONSTANTS
  s1 = s1
  s2 = s2
  a = a
  c = c
  Session = {s1, s2}
  Handler = {a, c}
  SessionOf <- OneEach
  Sorted = {c}
  Recycler = Recycler
  FreeEarly = FALSE
  MaxJob = 3
SPECIFICATION FairSpec
INVARIANT TypeOK
INVARIANT OneUser
INVARIANT TargetAlive
INVARIANT NextResultThere
INVARIANT RowsDelivered
INVARIANT LastErrorReported
PROPERTY ExecutedInOrder
PROPERTY WaitsEnd
