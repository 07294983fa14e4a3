SPECIFICATION FairSpec
CONSTANTS
  Main = main
  Client = {main, h1, h2}
  Message = {m1, m2}
  Packet = {p1}
  None = None
  RadioMayFail = TRUE
  ToSend <- NoFile
  SaveMayFail = TRUE
  TornWrites = TRUE
  MaxRestarts = 1
INVARIANTS TypeOK IInv TransmitFindsMessage TransmitOnlyInCall FeedNeverPartial
PROPERTIES NeverIdleAgain OutboxSpec ListensAgain
CHECK_DEADLOCK FALSE
