\* One command at a time on a scripted or a live campaign, up to two deaths.
SPECIFICATION FairSpec
CONSTANTS
  first = first
  second = second
  None = None
  Controllers <- OneController
  Wall = 3
  Reserve = 1
  MaxNow = 3
  MaxCandidates = 2
  MaxPromotions = 2
  MaxCrashes = 2
INVARIANTS
  TypeOK
  WinnerHandedOff
PROPERTIES
  NoResearchAfterHandoff
  ImplementsPromise
  Terminates
