SPECIFICATION Spec
CONSTANTS
  p1 = p1
  p2 = p2
  p3 = p3
  r1 = r1
  r2 = r2
  k1 = k1
  NoHolder = NoHolder
  NoRun = NoRun
  NoKey = NoKey
  Procs = {p1, p2}
  Runs = {r1}
  Keys = {}
  Workflow <- OneDelay
  Key <- NoKeys
  Catalog <- FullCatalog
  ClaimTtl = 1
  HeartbeatInterval = 1
  MayCrash = {p1}
  MayStall = {}
  MaxTime = 2
PROPERTIES
  CancelSticks
CHECK_DEADLOCK FALSE
