SPECIFICATION FairSpec
CONSTANTS
  MaxFaults = 1
  MaxDeaths = 2
  None = None
  Torn = Torn
INVARIANTS TypeOK Explained
PROPERTIES  Finishes
CHECK_DEADLOCK FALSE
