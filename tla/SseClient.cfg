SPECIFICATION Spec
CONSTANTS
  Parsers = {"ts", "py", "go", "conf", "example"}
  MaxFrames = 2
  Kinds = {"event", "message", "split", "batch", "comment", "vendor"}
  Bare = {4}
  Big = {9}
  ChanCap = 1
INVARIANTS
  TypeOK
  InOrder
  NothingMissing
  CutIsTold
PROPERTIES
  StreamEnds
CHECK_DEADLOCK FALSE
