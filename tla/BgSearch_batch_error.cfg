CONSTANTS
  s1 = s1
  s2 = s2
  a = a
  c = c
  Session = {s1}
  Handler = {a}
  SessionOf <- OneOnly
  Sorted = {}
  Recycler = Recycler
  FreeEarly = FALSE
  MaxJob = 2
SPECIFICATION Spec
INVARIANT EveryErrorReported
