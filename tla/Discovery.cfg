SPECIFICATION Spec
CONSTANTS
  Managed = {m}
  Unmanaged = {u}
  NoPidfile = {}
  Pids = {p1, p2}
  Grace = 2
  ScanInterval = 2
  States <- MCStates
  MaxLag = 1
  MaxBoots = 2
  MaxTime = 4
SYMMETRY MCSymmetry
INVARIANTS
  HandOver
  GraceExact
  NoGhost
  StaleClaimBound
CHECK_DEADLOCK FALSE
