SPECIFICATION Spec
CONSTANTS
  Tolerance = 1
  Material = 1
  Epsilon = 0
  Patience = 1
  MaxUnmeasured = 2
  First = 1
  MaxIterations = 2
  Limits <- MCLimits
  Ceiling <- MCCeiling
  MaxQueries = 2
  Scores <- MCScores
  Wall = 14
  Reserve = 1
  P95 = 2
  MaxFaults = 1
  MaxDeaths = 1
INVARIANTS
  TypeOK IncumbentEarned NothingUndecided WinnerKept MeasuredConvergence CutsExplained
  ResumeReconciles
PROPERTY SameVerdict
CHECK_DEADLOCK FALSE
