\* A program from its text to the browser.
CONSTANTS
  Parsed <- ParseText
  Checked <- CheckProject
  Loaded <- LoadModules
  Started <- StartPage
  Called <- CallFromOutside
  Performed <- Perform
  ApplyFor <- AppliedFor
  Programs <- MCPrograms
  MaxInt = 7
  MaxCoef = 99999
  MaxExpansion = 5
  MaxCallDepth = 10
  MaxPageCalls = 5
  MaxStack = 16
SPECIFICATION Spec
CHECK_DEADLOCK FALSE
INVARIANTS ParsesBack CasesDecided CheckedProgramsRun BundleRunsSame GetServicesOnlyRead LintDecides
