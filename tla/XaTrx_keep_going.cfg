CONSTANTS
  N = 3
  MaxTrx = 2
  Faults <- BranchesStart
  TransRollback = FALSE
  ForceCommit = 1
SPECIFICATION Spec
INVARIANT FailMeansUnmodified
PROPERTY ImplementsAtomicCommit
