SPECIFICATION Spec
CONSTANTS
  VMs = {v1}
  Host = host
  Messages <- MCAll
  LogSize = 2
  Replay = 1
  Dedup = 2
  MaxLag = 1
  MaxTime = 2
  MaxSeq = 3
INVARIANTS
  AllRead
  OneOom
PROPERTIES
  SeverityKept
CHECK_DEADLOCK FALSE
