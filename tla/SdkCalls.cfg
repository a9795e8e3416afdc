SPECIFICATION Spec
CONSTANTS
  r1 = r1
  r2 = r2
  b1 = b1
  b2 = b2
  c1 = c1
  c2 = c2
  k1 = k1
  NoKey = NoKey
  NoEntry = NoEntry
  NoRun = NoRun
  Runs = {r1, r2}
  Keys = {k1}
  Key = k1
  Bodies = {b1, b2}
  Workflow <- OneNode
  CacheTtl = 0
  MaxTime = 1
  Callers = {c1, c2}
  Wants <- AllTheWay
  Asks <- Rival
  MaxTries = 2
INVARIANTS
  OneRunPerWindow
  AnswersAreRight
  SaidIsTrue
PROPERTIES
  RetriesAgree
CHECK_DEADLOCK FALSE
