SPECIFICATION FairSpec
CONSTANTS
  Request = {r1}
  Email = {e1}
  Digits = {d1, d2}
  None = None
  MaxAttempts = 1
  CodeTTL = 1
  SessionTTL = 1
  SweepGrace = 1
  MaxTime = 3
  MaxCode = 1
  MaxUser = 1
  MaxSession = 1
  MaxFaults = 1
CHECK_DEADLOCK FALSE
PROPERTIES SweepSparesLive RequestsAnswered ExpiredReclaimed
