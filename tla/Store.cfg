SPECIFICATION Spec
CONSTANTS
  Size = 2
  Value = {0, 1, 3}
  IDs = {v1}
  Series = {"cpu"}
  Snap <- MCSnap
  Empty <- MCEmpty
  Total <- MCTotal
  HostStats = {0, 1}
  MaxCommits = 5
PROPERTIES
  Implements
CHECK_DEADLOCK FALSE
