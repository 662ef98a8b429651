\* Resuming a campaign that died while it closed its research.
SPECIFICATION Spec
CONSTANTS
  first = first
  second = second
  None = None
  Controllers <- OneController
  Wall = 2
  Reserve = 1
  MaxNow = 2
  MaxCandidates = 1
  MaxPromotions = 1
  MaxCrashes = 1
PROPERTIES
  ResumeContinues
