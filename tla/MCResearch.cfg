SPECIFICATION Spec
CONSTANTS
  Families <- MCFamilies
  Proposals <- MCProposals
  MaxIterations = 5
  Slots = 2
  MaxTransport = 2
  MaxMalformed = 1
  Reserve = 2
  MaxDeaths = 2
  None = None
  Torn = Torn
INVARIANTS
  TypeOK JournalGoverns CallBounded RefusalExplained AcceptedKept
CHECK_DEADLOCK FALSE
