CONSTANTS
  N = 4
  MaxTrx = 1
  Faults <- DeciderReachable
  TransRollback = TRUE
  ForceCommit = 2
SPECIFICATION FairSpec
INVARIANT TypeOK
INVARIANT SuccessMeansCommitted
PROPERTY ImplementsAtomicCommit
PROPERTY LoggedBeforeCommit
PROPERTY PreparedIsSettled
PROPERTY CommitIsCompleted
PROPERTY EveryCommitIsAnswered
