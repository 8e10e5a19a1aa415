\* Two processes, no faults: the first numbers of a new group.
SPECIFICATION Spec
CONSTANTS
  m1 = m1  m2 = m2  v1 = v1  v2 = v2
  Free = Free  Orphan = Orphan  Absent = Absent  Empty = Empty  Unread = Unread
  Mgr = {m1, m2}
  Sub = {1}
  Value = {v1, v2}
  MaxId = 2
  Faults = {}
  MaxCrashes = 0
INVARIANT UniqueIds
