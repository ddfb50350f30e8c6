SPECIFICATION FairSpec
CONSTANTS
  Tab = {t1, t2}
  None = None
  Kinds = {"good", "broken", "refused", "blocked"}
  QueueCap = 2
  MaxEdits = 2
  MaxLoads = 2
CHECK_DEADLOCK FALSE
INVARIANTS SettledTabCurrent
PROPERTIES LastSaveTakesEffect TabsSettle
