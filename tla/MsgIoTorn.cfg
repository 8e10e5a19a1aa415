SPECIFICATION Spec
CONSTANTS
  Msg <- Messages
  HdrLen = 2
  PosMod = 2
  Capacity = 3
  MaxQueued <- Queued
  MaxBreaks = 1
INVARIANT SizeKnown
