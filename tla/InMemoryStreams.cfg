SPECIFICATION FairSpec
CONSTANTS
  r1 = r1
  r2 = r2
  b1 = b1
  b2 = b2
  c1 = c1
  c2 = c2
  NoKey = NoKey
  NoEntry = NoEntry
  NoServer = NoServer
  Runs = {r1, r2}
  Keys = {}
  Bodies = {b1, b2}
  Workflow <- TwoWorkflows
  CacheTtl = 0
  MaxTime = 0
  Clients = {c1, c2}
  Watch <- WatchEach
INVARIANTS
  CancelAtOnce
  LogTellsExecution
  TerminalEventIsLast
  GotPrefix
  DoneHasAll
PROPERTIES
  ImplementsLifecycle
  StreamsEnd
CHECK_DEADLOCK FALSE
