CONSTANTS
  N = 3
  MaxTrx = 2
  Faults <- DeciderCommits
  TransRollback = TRUE
  ForceCommit = 0
SPECIFICATION Spec
INVARIANT Atomic
INVARIANT Inv
