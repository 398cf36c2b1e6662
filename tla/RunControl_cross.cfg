SPECIFICATION Spec
CONSTANTS
  p1 = p1
  p2 = p2
  w1 = w1
  w2 = w2
  w3 = w3
  k1 = k1
  Procs = {p1, p2}
  Convs = {c1}
  Msgs = {m1, m2}
  Workers = {w1, w2, w3}
  Cancellers = {}
  Home <- MCHome
  NoRun = NoRun
  NoLease = NoLease
  Strict = FALSE
  RedisFails = TRUE
  Crashes = TRUE
  LeaseLapses = TRUE
  ReuseIds = TRUE
SYMMETRY MsgSymmetry
INVARIANTS TypeOK LocalExclusion OverlapIsExplained
PROPERTY ImplementsSlots
