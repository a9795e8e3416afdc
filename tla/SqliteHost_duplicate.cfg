SPECIFICATION Spec
CONSTANTS
  p1 = p1
  p2 = p2
  p3 = p3
  r1 = r1
  r2 = r2
  k1 = k1
  NoHolder = NoHolder
  NoRun = NoRun
  NoKey = NoKey
  Procs = {p1, p2}
  Runs = {r1, r2}
  Keys = {k1}
  Workflow <- OneNoop
  Key <- SameKey
  Catalog <- FullCatalog
  ClaimTtl = 1
  HeartbeatInterval = 1
  MayCrash = {p1}
  MayStall = {}
  MaxTime = 1
INVARIANTS
  OneRunPerKey
CHECK_DEADLOCK FALSE
