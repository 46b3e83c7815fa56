SPECIFICATION Spec
CONSTANTS
  w1 = w1
  w2 = w2
  Worker = {w1, w2}
  Locations <- AllLocations
  MsatPerSat = 2
  Offers <- Prices
  Faults <- AnyFault
  MaxRequests = 3
  MaxChanges = 1
  MaxDeaths = 1
SYMMETRY Symmetry
INVARIANTS
  EveryRequestHasOneOutcome
  CountersMatchAnswers
  ForwardedByRight
  QuoteHonoured
CHECK_DEADLOCK FALSE
