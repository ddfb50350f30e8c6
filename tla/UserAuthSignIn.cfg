SPECIFICATION Spec
CONSTANTS
  Request = {r1, r2}
  Email = {e1, e2}
  Digits = {d1, d2}
  None = None
  MaxAttempts = 1
  CodeTTL = 1
  SessionTTL = 1
  SweepGrace = 1
  MaxTime = 0
  MaxCode = 2
  MaxUser = 2
  MaxSession = 2
  MaxFaults = 0
SYMMETRY Symmetry
CHECK_DEADLOCK FALSE
INVARIANTS OneSessionPerCode SessionNamesItsOwner LogoutEndsSession GuessesBounded
PROPERTY ImplementsOneTimeCode
