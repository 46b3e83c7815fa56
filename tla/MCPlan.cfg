SPECIFICATION PlanSpec
CONSTANTS
  m1 = m1
  m2 = m2
  None = None
  Mints <- TwoMints
  MAX = 255
  MSAT_PER_SAT = 10
  Defaults <- MCDefaults
  MaxProofs = 2
  NamesProofs = TRUE
  Groups <- MCGroups
  Published <- MCPublished
  Rates = {0, 200}
INVARIANTS
  MeltIsCovered
  FairQuoteAccepted
  ParamsAreThisMints
