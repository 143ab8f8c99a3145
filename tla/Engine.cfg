SPECIFICATION ReaderSpec
CONSTANTS
  CondKeys = {"runq"}
  EventKeys = {"oom"}
  Muted = {}
  Poller = poller
  Sources = {ebpf}
  Free = free
  Level <- MCLevel
  Values <- MCFewValues
  RatioNum = 1
  RatioDen = 2
  RaiseAfter = 1
  ClearAfter = 1
  Dedup = 3
  HistoryLimit = 2
  MaxSkew = 1
  MaxTime = 5
  MaxAlerts = 3
  EventSeverities = {2}
  MaxCalls = 3
INVARIANTS
  DedupSpacing
  CountConserved
  SubscribersCaughtUp
PROPERTIES
  NoEarlyRaise
  NoEarlyClear
  CondNoticeOrder
  RecentExact
CHECK_DEADLOCK FALSE
