SPECIFICATION FairSpec
CONSTANTS
  Generations <- FieldGenerations
  PutValues = {"installing", "updated"}
  MaxPuts = 2
  NetFaults = {"lose", "cut", "refuse", "odd", "garble", "upgrade"}
INVARIANTS
  PutsAreRecordedOnce
  PutReachesEveryServer
  UpdatedIsNotAssumed
PROPERTIES
  TokenIsFetched
