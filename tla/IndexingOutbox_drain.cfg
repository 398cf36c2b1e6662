SPECIFICATION FairSpec
CONSTANTS
  e1 = e1
  e2 = e2
  d1 = d1
  w1 = w1
  w2 = w2
  Events = {e1, e2}
  Workers = {w1}
  Docs = {d1}
  Doc <- SameDoc
  Old = Old
  NoDoc = NoDoc
  NoEvent = NoEvent
  MaxFaults = 1
INVARIANT TypeOK
PROPERTIES CompletionsAreIndexed CompletedIsFinal PublishedIsTried ImplementsQueue
