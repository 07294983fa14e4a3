SPECIFICATION Spec
CONSTANTS
  Slots <- MCSlots
  Workers = 2
  Plans <- MCPlans
  MaxFaults = 1
  Doublings = 2
PROPERTY
  ReloadReplaces
CHECK_DEADLOCK FALSE
