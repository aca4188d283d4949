SPECIFICATION FairSpec
CONSTANTS
  core = core
  webview = webview
  player = player
  launcher = launcher
  a = a
  b = b
  Comps <- MCComps
  Meta <- NoComps
  ByVersion <- NoComps
  Tars <- MCTars
  Snaps <- MCSnaps
  Servers = {s1}
  Sums = {a, b}
  NoSum = NoSum
  KeepAsIs = KeepAsIs
  NoManifest = NoManifest
  NoServer = NoServer
  Unnamed = Unnamed
  Hardcoded <- TwoSides
  Faults = {"crash", "file"}
  IsOperator = TRUE
  Requests = {"UpdateBothSides", "UpdateVersion"}
  MaxRequests = 2
  ServerLists <- SharedLists
  FirstVersion = 1
INVARIANTS
  StageDecidesSide
PROPERTIES
  OperatorStageFirst
  BothStagesEnd
