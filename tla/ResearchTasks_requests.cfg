SPECIFICATION Spec
CONSTANTS
  p1 = p1
  p2 = p2
  c1 = c1
  c2 = c2
  g1 = g1
  x1 = x1
  a1 = a1
  k1 = k1
  body1 = body1
  body2 = body2
  Creates = {c1, c2}
  Polls = {g1}
  Cancels = {x1}
  Archives = {a1}
  Key <- OneKey
  Payloads = {body1, body2}
  Procs = {p1, p2}
  Home <- Homes
  None = None
  MaxCrashes = 1
SYMMETRY AnyBody
ACTION_CONSTRAINT NothingToRefuse
CHECK_DEADLOCK FALSE
INVARIANTS TypeOK RowsAreCoherent OneTaskPerKey SharedStoreIsSafe
PROPERTIES EndedIsFinal ImplementsBoard
