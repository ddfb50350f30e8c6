SPECIFICATION FairSpec
CONSTANTS
  Request = {r1, r2}
  Booter = Booter
  NCol = 3
  Version = {1, 2}
  Field <- FlipAndGrow
  Unique <- LaterUnique
  None = None
  Value = {x}
  Mode = {TRUE, FALSE}
  AuthEntity = FALSE
  MaxRow = 2
  MaxDeploy = 1
  MaxReload = 0
  MaxCrash = 1
  MaxFaults = 1
CHECK_DEADLOCK FALSE
INVARIANTS MigratedFits AuditComplete BootDropsNoRow IndexBeforeInsert ServesMigrated
PROPERTIES RunnersFinish
