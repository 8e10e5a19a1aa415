\* Two messages and an answer, two ends of a connection.  Both applications
\* may have nothing left to do.
SPECIFICATION FairSpec
CONSTANTS
  Msg <- Messages
  HdrLen = 2
  PosMod = 2
  Capacity = 3
  MaxQueued <- Queued
  MaxBreaks = 2
INVARIANTS TypeOK FramesIntact SizeKnownUntilTorn
PROPERTIES AllDelivered ClientDrains
CHECK_DEADLOCK FALSE
