SPECIFICATION FairSpec
CONSTANTS
  Configs <- ShortConfig
  DefaultRetention = 1
  WordSize = 8
  MaxDay = 2
  Zone <- West
  MaxAttempts = 1
  StartFaults = {"kill", "clear", "clock", "second", "command", "server"}
INVARIANTS
  LogIsOnDisk
  EditIsInForce
PROPERTIES
  YoungLogIsKept
  TimeIsKept
