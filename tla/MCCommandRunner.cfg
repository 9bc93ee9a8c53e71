SPECIFICATION RunnerSpec
CONSTANTS
  Cmds = {c1, c2}
CHECK_DEADLOCK FALSE
INVARIANTS
  RecordIsHonest
  NobodyIsOrphaned
PROPERTIES
  KeepsPromise
