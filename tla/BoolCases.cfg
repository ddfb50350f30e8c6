\* Cases over a Bool, whose patterns are constructors and whose values are not.
CONSTANTS
  Parsed <- ParseText
  Checked <- CheckProject
  Loaded <- LoadModules
  Started <- StartPage
  Called <- CallFromOutside
  Performed <- Perform
  ApplyFor <- AppliedFor
  Programs <- BoolCases
  MaxInt = 7
  MaxCoef = 99999
  MaxExpansion = 5
  MaxCallDepth = 10
  MaxPageCalls = 5
  MaxStack = 16
SPECIFICATION Spec
CHECK_DEADLOCK FALSE
INVARIANT EveryCaseTotal
