SPECIFICATION Spec
CONSTANTS
  IDs <- MCTwoIDs
  Match <- MCTwoMatch
  Sorts = 2
  BaseTabs = 2
  AlertLists <- MCAlerts
  Lines = {1, 3}
  Rows = {0, 2}
  Page = 2
  Far = 3
  MaxScroll = 3
  None = none
INVARIANTS
  NoPanic
PROPERTIES
  SelectionKept
CHECK_DEADLOCK FALSE
