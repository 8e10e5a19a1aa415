\* Callers go on after an object of size 5 did not fit into four bytes.
SPECIFICATION Spec
CONSTANTS
  t1 = t1  t2 = t2  d1 = d1  d2 = d2  d3 = d3
  Type = {t1, t2}
  Id = {1, 2}
  Data = {d1, d2, d3}
  SizeOf <- Sizes
  Param = {0}
  NoParam = 0
  MaxSize = 4
  WordMod = 12
  MaxHeld = 2
  GoOn = TRUE
  None = None
INVARIANT CallersObjectsLive
