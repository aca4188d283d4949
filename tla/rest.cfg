SPECIFICATION FairSpec
CONSTANTS
  s1 = s1
  bad = bad
  v1 = v1
  v2 = v2
  w1 = w1
  w2 = w2
  Workers = {w1, w2}
  Urls = {s1, bad}
  BadUrl = bad
  Versions = {v1, v2}
  NoVersion = NoVersion
  Posted <- Bodies
  Kinds = {"update_version", "update_version_force", "check", "status"}
  OldLicence = TRUE
  MaxRequests = 2
  RestFaults = {"kill", "panic", "network", "save"}
INVARIANTS
  NewCredentialsAreTaken
PROPERTIES
  ServesAgain
  FalseFailureIsCorrected
