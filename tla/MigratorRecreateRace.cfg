SPECIFICATION Spec
CONSTANTS
  Request = {r1, r2}
  Booter = Booter
  NCol = 3
  Version = {1, 2}
  Field <- Flip
  Unique <- NeverUnique
  None = None
  Value = {x}
  Mode = {FALSE}
  AuthEntity = FALSE
  MaxRow = 2
  MaxDeploy = 1
  MaxReload = 0
  MaxCrash = 0
  MaxFaults = 0
SYMMETRY Symmetry
CHECK_DEADLOCK FALSE
INVARIANTS NoRowDropped
