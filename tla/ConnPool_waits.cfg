CONSTANTS
  Session = {s1, s2}
  NKey = 2
  NConn = 2
  NRecord = 2
  MaxConnections = 1
  Faults <- Closing
SPECIFICATION FairSpec
INVARIANT NoSharing
PROPERTY IdleIsSettled
PROPERTY RequestsAnswered
