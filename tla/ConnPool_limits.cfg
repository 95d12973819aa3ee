CONSTANTS
  Session = {s1, s2, s3}
  NKey = 1
  NConn = 2
  NRecord = 2
  MaxConnections = 1
  Faults <- ShortLived
SPECIFICATION Spec
INVARIANT TypeOK
INVARIANT NoSharing
INVARIANT CountIsExact
INVARIANT RecordLimit
INVARIANT WaitersCounted
SYMMETRY Symmetry
