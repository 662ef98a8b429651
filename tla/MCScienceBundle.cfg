SPECIFICATION Spec
CONSTANTS
  Tolerance = 1
  Material = 1
  Epsilon = 0
  Patience = 1
  MaxUnmeasured = 2
  First = 1
  MaxIterations = 2
  Limits <- MCLimitsPunctual
  Ceiling <- MCCeilingScarce
  MaxQueries = 2
  Scores <- MCScores
  Wall = 14
  Reserve = 1
  P95 = 2
  MaxFaults = 0
  MaxDeaths = 0
INVARIANT BundleFits
CHECK_DEADLOCK FALSE
