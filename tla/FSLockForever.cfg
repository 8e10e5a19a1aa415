SPECIFICATION FairSpec
CONSTANTS
  a = a  b = b  c = c  p1 = p1  p2 = p2  p3 = p3
  Obj = {a, b}
  Proc = {p1, p2}
  ProcOf <- OneEach
  Timeouts = {"forever"}
  Timeout = 2
  TimeoutAsk = 1
  Interactive = {}
  Remover = {}
  Faults = {}
  MaxCount = 1
  MaxUsage = 1
  MaxCrashes = 0
  NoFile = NoFile
  Stale = Stale
PROPERTY ForeverWaiterWakes
