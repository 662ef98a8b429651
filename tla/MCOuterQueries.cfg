SPECIFICATION Spec
CONSTANTS
  None = None
  c1 = c1
  c2 = c2
  f1 = f1
  p1 = p1
  p2 = p2
  p3 = p3
  Candidates = {k1, k2}
  Campaigns = {c1, c2}
  Configs = {f1}
  Controllers = {p1, p2, p3}
  Results = {r1, r2}
  ConfigOf <- MCConfigOf
  CampaignOf <- MCCampaignOf
  MaxQueries = 1
  LastSeed = 1
SYMMETRY Symmetry
INVARIANTS TypeOK Coherent FailedNeverPublished
PROPERTIES EvidenceFinal ImplementsPublicScores
