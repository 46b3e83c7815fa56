SPECIFICATION ConfigSpec
CONSTANTS
  w1 = w1
  alice = alice
  ghost = ghost
  bobs = bobs
  Unset = Unset
  Garbled = Garbled
  Workers <- MCWorkers
  Depth = 3
  Files <- MCFiles
  Tenants <- MCTenants
  MaxCycle = 2
INVARIANTS
  NearestWins
  PaysWhereNamed
  RefusedIffBad
  ManifestMatches
CHECK_DEADLOCK FALSE
