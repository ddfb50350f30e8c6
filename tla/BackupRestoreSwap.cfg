SPECIFICATION Spec
CONSTANTS
  None = None
  Garbage = Garbage
  Interval = 2
  Keep = 1
  MaxSchema = 2
  MaxCommits = 2
  MaxNow = 4
  MaxStarts = 3
  MaxRestores = 1
  MaxFaults = 1
CHECK_DEADLOCK FALSE
INVARIANTS SwapExcludesServer DatabaseReadable
PROPERTIES RestoreInstallsBundle FailedRestoreKeepsDatabase NewestBackupStays
