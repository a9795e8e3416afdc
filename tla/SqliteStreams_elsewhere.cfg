SPECIFICATION StreamsFairSpec
CONSTANTS
  p1 = p1
  p2 = p2
  r1 = r1
  c1 = c1
  c2 = c2
  NoHolder = NoHolder
  NoRun = NoRun
  NoKey = NoKey
  NoServer = NoServer
  Procs = {p1, p2}
  Runs = {r1}
  Keys = {}
  Clients = {c1}
  Key <- NoKeys
  Catalog <- FullCatalog
  Watch <- WatchIt
  Workflow <- OneDelay
  ClaimTtl = 1
  HeartbeatInterval = 1
  MayCrash = {}
  MayStall = {}
  MaxTime = 0
PROPERTIES
  StreamEndsWithRun
CHECK_DEADLOCK FALSE
