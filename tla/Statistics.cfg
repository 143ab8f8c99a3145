SPECIFICATION Spec
CONSTANTS
  None = None
  Nil = Nil
  CPUs = {c1, c2, c3}
  Kinds = {"drop", "exit", "vm", "vcpu", "halt", "error"}
  MaxHits = 4
  MaxTicks = 4
  DomIDs = {i1, i2}
  XmlRefresh = 2
  DevTime = 5
  MaxTap = 3
  MaxRx = 2
  Pids = {1}
  Tids = {1, 2, 3}
  Indexes = {0, 1}
  ThreadRefresh = 2
  ThrTime = 4
  MaxChanges = 3
SYMMETRY MCSymmetry
INVARIANTS
  RatesTrue
  FewLost
  HotplugSeen
  LatencyOwn
PROPERTIES
  ThreadRecent
CHECK_DEADLOCK FALSE
