SPECIFICATION FairSpec
CONSTANTS
  MsiVersions = {v1, v2}
  Absent = Absent
  MaxWaits = 2
  MsiFaults = {"file", "exec", "late", "unlisted", "other", "kill"}
INVARIANTS
  OkIsInstalled
  FailedInstallRestores
PROPERTIES
  MsiCallsReturn
