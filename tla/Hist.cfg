SPECIFICATION Spec
CONSTANTS
  CPUs = {c1, c2}
  Kinds = {"vm", "tid"}
  Slots = 2
  MinAge = 1
  Width = 8
  MaxAdds = 2
  MaxLives = 1
  MaxTicks = 4
  MaxTime = 2
SYMMETRY MCSymmetry
INVARIANTS
  Conserved
  WindowBounds
  WindowAge
CHECK_DEADLOCK FALSE
