SPECIFICATION FairFiles
CONSTANTS
  None = None
  t1 = t1
  x1 = x1
  empty = empty
  checkpoint = checkpoint
  scores = scores
  Controllers = {a}
  Executions = {t1, x1}
  Trainings = {t1}
  Misplaced = {}
  MaxLaunches = 1
  MaxCrashes = 2
  Contents = {empty, checkpoint, scores}
  Log = empty
  Output <- MCOutput
  Reads <- MCReads
INVARIANTS RecordedReadable RefusalsLeaveNothing
PROPERTIES ResumesClean Reconciled
CHECK_DEADLOCK FALSE
