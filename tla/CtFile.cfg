\* A key file from its creation on: faults, deaths, a clock of whole seconds.
SPECIFICATION Spec
CONSTANTS
  p1 = p1  p2 = p2
  Free = Free  Orphan = Orphan
  Absent = Absent  Empty = Empty  Torn = Torn  NoCtx = NoCtx
  Proc = {p1, p2}
  MaxEvents = 5
  MaxOpen = 2
  MaxKeys = 2
  MaxSeq = 2
  Counters = {0}
  MaxTime = 3
  Faults = {"crash", "disk", "pin"}
INVARIANTS TypeOK FileIntact NumbersFresh NoSilentLoss CacheCurrent
           ContextLive LockReleased
SYMMETRY Processes
CHECK_DEADLOCK FALSE
