\* Forced removals, unreliable link(), no death: clean-up and termination.
SPECIFICATION FairSpec
CONSTANTS
  a = a  b = b  c = c  p1 = p1  p2 = p2  p3 = p3
  Obj = {a, b}
  Proc = {p1, p2}
  ProcOf <- OneEach
  Timeouts = {"none", "finite", "forever"}
  Timeout = 2
  TimeoutAsk = 1
  Interactive = {a, b}
  Remover = {a, b}
  Faults = {"link", "lostReply"}
  MaxCount = 2
  MaxUsage = 2
  MaxCrashes = 0
  NoFile = NoFile
  Stale = Stale
INVARIANTS MutexUntilStolen HolderOwnsFile NothingLeftBehind
PROPERTY LockReturns
