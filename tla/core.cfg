SPECIFICATION FairSpec
CONSTANTS
  core = core
  webview = webview
  player = player
  launcher = launcher
  a = a
  b = b
  Comps <- MCComps
  Meta <- NoComps
  ByVersion <- NoComps
  Tars <- MCTars
  Snaps <- MCSnaps
  Servers = {s1}
  Sums = {a, b}
  NoSum = NoSum
  KeepAsIs = KeepAsIs
  NoManifest = NoManifest
  NoServer = NoServer
  Unnamed = Unnamed
  Hardcoded <- OneSide
  Faults = {"crash", "torn", "panic", "silent"}
  IsOperator = TRUE
  Requests = {"UpdateVersion"}
  MaxRequests = 1
  ServerLists <- AgentLists
  FirstVersion = 1
INVARIANTS
  TypeOK
  StuckAgentIsReported
  RecordedIsInstalled
  SavedIsRecorded
  StatusesAgree
PROPERTIES
  Converges
  RequestsAreTaken
  KeepsUpdatePromise
