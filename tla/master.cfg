SPECIFICATION FairSpec
CONSTANTS
  Slots <- MCSlots
  Workers = 2
  Plans <- MCPlans
  MaxFaults = 1
  Doublings = 2
INVARIANTS
  TypeOK
  NoOrphans
PROPERTIES
  StaffedAgain
  ShutsDown
CHECK_DEADLOCK FALSE
