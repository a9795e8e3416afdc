SPECIFICATION ScenarioSpec
CONSTANTS
  pA = pA
  pB = pB
  r1 = r1
  NoHolder = NoHolder
  NoRun = NoRun
  NoKey = NoKey
  Procs = {pA, pB}
  Runs = {r1}
  Keys = {}
  Key <- NoKeys
  Catalog <- FullCatalog
  Workflow <- OneDelay
  ClaimTtl = 4
  HeartbeatInterval = 1
  MayCrash = {pB}
  MayStall = {}
  MaxTime = 72
  A = pA
  B = pB
  Run = r1
  Delay = 10
  ReadyTimeout = 20
  RunningTimeout = 10
  TerminalTimeout = 30
  KillBackstop = 2
  ExitBackstop = 10
INVARIANTS
  NothingRecovered
PROPERTIES
  ScenarioPasses
CHECK_DEADLOCK FALSE
