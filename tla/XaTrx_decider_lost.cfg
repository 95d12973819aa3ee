CONSTANTS
  N = 2
  MaxTrx = 1
  Faults <- DeciderLostOnly
  TransRollback = TRUE
  ForceCommit = 1
SPECIFICATION Spec
INVARIANT FailMeansUnmodified
