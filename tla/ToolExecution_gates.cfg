SPECIFICATION Spec
CONSTANTS
  c1 = c1
  c2 = c2
  k1 = k1
  b1 = b1
  b2 = b2
  Calls = {c1, c2}
  Keys = {k1}
  Bodies = {b1, b2}
  MaxAttempts = 2
  Asks <- OneKey
  NoAnswer = NoAnswer
  NoRecord = NoRecord
CHECK_DEADLOCK FALSE
PROPERTY GatedEffects
