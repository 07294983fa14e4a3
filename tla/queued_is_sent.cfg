SPECIFICATION FairSpec
CONSTANTS
  Main = main
  Client = {main, h1, h2}
  Message = {m1, m2}
  Packet = {p1}
  None = None
  RadioMayFail = FALSE
  ToSend <- NoFile
  SaveMayFail = FALSE
  TornWrites = FALSE
  MaxRestarts = 0
PROPERTY EveryMessageTransmitted
CHECK_DEADLOCK FALSE
