\* Two commands at once on one live campaign, one death.
SPECIFICATION LiveSpec
CONSTANTS
  first = first
  second = second
  None = None
  Controllers <- TwoControllers
  Wall = 2
  Reserve = 1
  MaxNow = 2
  MaxCandidates = 1
  MaxPromotions = 1
  MaxCrashes = 1
INVARIANTS
  EvidenceAgrees
PROPERTIES
  EvidenceKept
SYMMETRY Commands
