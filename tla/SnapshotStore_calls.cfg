SPECIFICATION Spec
CONSTANTS
  p1 = p1
  p2 = p2
  s1 = s1
  s2 = s2
  g1 = g1
  g2 = g2
  Procs = {p1, p2}
  Saves = {s1, s2}
  Gets = {g1, g2}
  Home <- Homes
  Old = Old
  NoSnap = NoSnap
  MaxFaults = 2
CONSTRAINT SecondGetWithoutFaults
CHECK_DEADLOCK FALSE
INVARIANTS TypeOK ReadsAreRegular LossIsExplained
