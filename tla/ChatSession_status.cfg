SPECIFICATION FairSpec
CONSTANTS
  r1 = r1
  r2 = r2
  r3 = r3
  Requests = {r1, r2, r3}
  NoReq = NoReq
  NoHandoff = NoHandoff
  Last = 2
  Asks <- TurnAndChanges
  Faults = TRUE
CHECK_DEADLOCK FALSE
PROPERTIES ReopenedByCaughtOnly SlotIsFreed
