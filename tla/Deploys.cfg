CONSTANTS
  None = None
  p1 = p1
  p2 = p2
  Process = {p1, p2}
  WellFormed = {"en", "a@x.org", "x.org", "gru", "1gb", "app", "account", "cidr", "https"}
  Long = {"random", "typed"}
  Upper = {"SMTP", "SECRET", "OTHER"}
  Sources <- MCSources
  Versions <- MCVersions
  BatchSize = 1
  MaxRuns = 3
SYMMETRY Processes
SPECIFICATION MCSpec
INVARIANTS CleanDeployServes DeploymentsServable
PROPERTIES RedeployKeepsState
CHECK_DEADLOCK FALSE
