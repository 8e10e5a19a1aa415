\* Deaths, failing file operations and the removal of orphaned locks.
SPECIFICATION Spec
CONSTANTS
  m1 = m1  m2 = m2  v1 = v1  v2 = v2
  Free = Free  Orphan = Orphan  Absent = Absent  Empty = Empty  Unread = Unread
  Mgr = {m1, m2}
  Sub = {1}
  Value = {v1, v2}
  MaxId = 2
  Faults = {"crash", "disk"}
  MaxCrashes = 1
INVARIANTS TypeOK NewIdIsFresh StableUnderLock LockedReadCurrent
SYMMETRY Managers
