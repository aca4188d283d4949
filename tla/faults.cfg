SPECIFICATION Spec
CONSTANTS
  core = core
  webview = webview
  player = player
  launcher = launcher
  a = a
  b = b
  Comps <- MixComps
  Meta <- MixMeta
  ByVersion <- MixMeta
  Tars <- NoComps
  Snaps <- MixSnaps
  Servers = {s1}
  Sums = {a, b}
  NoSum = NoSum
  KeepAsIs = KeepAsIs
  NoManifest = NoManifest
  NoServer = NoServer
  Unnamed = Unnamed
  Hardcoded <- MixSide
  Faults = {"dirty", "rollback", "uninstall", "auth", "remove", "put", "panic", "file"}
  IsOperator = TRUE
  Requests = {"UpdateVersionForce"}
  MaxRequests = 1
  ServerLists <- MixLists
  FirstVersion = 1
INVARIANTS
  RolledBackIsRecorded
  SuccessIsReal
PROPERTIES
  ChangesAreMarked
