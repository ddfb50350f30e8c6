SPECIFICATION Spec
CONSTANTS
  Request = {r1, r2}
  Booter = Booter
  NCol = 3
  Version = {1, 2}
  Field <- Grow
  Unique <- AlwaysUnique
  None = None
  Value = {x, y}
  Mode = {TRUE}
  AuthEntity = TRUE
  MaxRow = 2
  MaxDeploy = 0
  MaxReload = 2
  MaxCrash = 0
  MaxFaults = 1
SYMMETRY Symmetry
CHECK_DEADLOCK FALSE
INVARIANTS ReloadFits
