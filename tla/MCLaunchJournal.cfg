SPECIFICATION Spec
CONSTANTS
  None = None
  t1 = t1
  t2 = t2
  Controllers = {a, b}
  Executions = {t1, t2}
  Trainings = {t1, t2}
  Misplaced = {t2}
  MaxLaunches = 1
  MaxCrashes = 2
SYMMETRY Symmetry
INVARIANTS TypeOK NoStrayCandidate
PROPERTIES OneProcess ImplementsLaunchBudget
CHECK_DEADLOCK FALSE
