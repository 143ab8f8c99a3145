SPECIFICATION ProbesSpec
CONSTANTS
  Tgids = {g1, g2}
  Tids = {t1}
  CPUs = {c1}
  MaxTargets = 2
  MaxTime = 3
  Nil = nil
  Reqs = {r1, r2}
  Sectors = {s1, s2}
  BlkTime = 1
  RlCPUs = {k1, k2}
  Gap = 8
  MaxDelay = 2
  Width = 64
  RlTime = 17
SYMMETRY MCSymmetry
INVARIANTS
  LatencyTrue
  BlockLatencyTrue
  FewPerWindow
PROPERTIES
  LimitedByRecent
CHECK_DEADLOCK FALSE
