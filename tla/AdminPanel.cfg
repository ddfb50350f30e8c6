CONSTANTS
  Request = {r1, r2}
  Email = {e1, e2}
  Digits = {d1, d2}
  None = None
  MaxAttempts = 2
  CodeTTL = 0
  SessionTTL = 0
  MaxClock = 1
  MaxIssues = 2
  MaxBoots = 2
  MaxEdits = 1
  MaxFailures = 1
SPECIFICATION Spec
INVARIANTS RevokedWithAdmin OneSessionPerIssue TriesBounded
SYMMETRY Symmetry
CHECK_DEADLOCK FALSE
