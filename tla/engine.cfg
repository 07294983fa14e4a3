SPECIFICATION FairEngineSpec
CONSTANTS
  Client = {c1, c2}
  Message = {m1}
  Packet = {p1}
  None = None
  RadioMayFail = TRUE
INVARIANTS EngineTypeOK ExactlyOnePlace
PROPERTY ShutdownReturns
CHECK_DEADLOCK FALSE
