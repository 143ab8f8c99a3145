SPECIFICATION Spec
CONSTANTS
  Defs <- MCDefs
  AllFeatures <- MCFeatures
INVARIANTS
  StatusListed
CHECK_DEADLOCK FALSE
