SPECIFICATION FairSpec
CONSTANTS
  va = va
  vb = vb
  Files = {f1, f2}
  Versions <- TwoVersions
  Size <- SameSize
  Attempts = 2
  Space = 7
  NetFaults = {"kill", "fail", "break", "whole", "swap", "silent"}
  Idle = Idle
  Junk = Junk
INVARIANTS
  DownloadTypeOK
PROPERTIES
  KeepsPromise
  PartsAreKept
  FilesArrive
