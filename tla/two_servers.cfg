SPECIFICATION Spec
CONSTANTS
  core = core
  webview = webview
  player = player
  launcher = launcher
  a = a
  b = b
  Comps <- JustCore
  Meta <- NoComps
  ByVersion <- NoComps
  Tars <- NoComps
  Snaps <- MCSnaps
  Servers = {s1, s2}
  Sums = {a, b}
  NoSum = NoSum
  KeepAsIs = KeepAsIs
  NoManifest = NoManifest
  NoServer = NoServer
  Unnamed = Unnamed
  Hardcoded <- CoreOnly
  Faults = {"crash", "torn", "license", "auth", "remove", "backup", "file"}
  IsOperator = TRUE
  Requests = {}
  MaxRequests = 0
  ServerLists <- SnapOrAgent
  FirstVersion = 1
INVARIANTS
  InterruptedIsForgotten
  MarkedWhileInstalling
