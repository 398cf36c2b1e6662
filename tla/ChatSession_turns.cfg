SPECIFICATION Spec
CONSTANTS
  r1 = r1
  r2 = r2
  r3 = r3
  Requests = {r1, r2, r3}
  NoReq = NoReq
  NoHandoff = NoHandoff
  Last = 2
  Asks <- TurnsAndRollback
  Faults = TRUE
SYMMETRY RequestSymmetry
CHECK_DEADLOCK FALSE
INVARIANTS TypeOK TurnsSeeEachOther AnsweredStepsArmed
PROPERTIES ImplementsSlots HandoffIsConsumed
