\* All faults, no forced removal: mutual exclusion and the abstract lock.
SPECIFICATION Spec
CONSTANTS
  a = a  b = b  c = c  p1 = p1  p2 = p2  p3 = p3
  Obj = {a, b, c}
  Proc = {p1, p2}
  ProcOf <- TwoInOne
  Timeouts = {"none", "finite", "forever"}
  Timeout = 1
  TimeoutAsk = 0
  Interactive = {c}
  Remover = {}
  Faults = {"crash", "stat", "link", "lostReply", "leak"}
  MaxCount = 1
  MaxUsage = 1
  MaxCrashes = 1
  NoFile = NoFile
  Stale = Stale
INVARIANTS TypeOK MutualExclusion
PROPERTY ServiceSpec
