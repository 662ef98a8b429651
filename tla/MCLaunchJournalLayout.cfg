SPECIFICATION FairSpec
CONSTANTS
  None = None
  t1 = t1
  t2 = t2
  Controllers = {a}
  Executions = {t1}
  Trainings = {t1}
  Misplaced = {t1}
  MaxLaunches = 1
  MaxCrashes = 1
PROPERTIES ReconcilesUnfinished
CHECK_DEADLOCK FALSE
