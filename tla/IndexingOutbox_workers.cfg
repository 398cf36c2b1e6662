SPECIFICATION Spec
CONSTANTS
  e1 = e1
  e2 = e2
  d1 = d1
  w1 = w1
  w2 = w2
  Events = {e1}
  Workers = {w1, w2}
  Docs = {d1}
  Doc <- SameDoc
  Old = Old
  NoDoc = NoDoc
  NoEvent = NoEvent
  MaxFaults = 3
INVARIANTS OneWorkerEach DeathAbandons
PROPERTY ImplementsQueue
