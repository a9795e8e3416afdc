SPECIFICATION Spec
CONSTANTS
  p1 = p1
  p2 = p2
  p3 = p3
  r1 = r1
  r2 = r2
  k1 = k1
  NoHolder = NoHolder
  NoRun = NoRun
  NoKey = NoKey
  Procs = {p1, p2, p3}
  Runs = {r1}
  Keys = {}
  Workflow <- NoopThenDelay
  Key <- NoKeys
  Catalog <- PartCatalog
  ClaimTtl = 2
  HeartbeatInterval = 2
  MayCrash = {p1, p2}
  MayStall = {}
  MaxTime = 4
INVARIANTS
  TypeOK
  ExclusiveExecution
  LeaseHeld
  StartedOnce
  AppendNeverConflicts
  StoppedHoldsNothing
  StatusMatchesLog
PROPERTIES
  TerminalFrozen
  CancelledOnRequest
  ImplementsLifecycle
CHECK_DEADLOCK FALSE
