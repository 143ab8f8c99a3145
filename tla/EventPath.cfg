SPECIFICATION LiveSpec
CONSTANTS
  Procs = {p1}
  Workers = {w1}
  RingSize = 1
  ChanSize = 1
INVARIANTS
  TimelyReported
  ExitOnce
PROPERTIES
  Delivered
  CloseStops
CHECK_DEADLOCK FALSE
