SPECIFICATION FairSpec
CONSTANTS
  SnapVersions = {v1, v2}
  Absent = Absent
  SnapFaults = {"file", "exec", "lost", "undo", "kill"}
INVARIANTS
  DisabledStaysDisabled
PROPERTIES
  KeepsPackagePromise
  CallsReturn
  RepeatedInstallSucceeds
