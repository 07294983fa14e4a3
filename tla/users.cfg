SPECIFICATION FairSpec
CONSTANTS
  c1 = c1
  c2 = c2
  Client = {c1, c2}
  ann = ann
  bob = bob
  Username = {ann, bob}
  p1 = p1
  p2 = p2
  Passphrase = {p1, p2}
  Status = {"active", "off"}
  Accounts <- MCAccounts
  None = None
  MaxRequests = 3
  MaxFaults = 1
INVARIANTS TypeOK LoginJustified AuditExact StampsOwnRow
PROPERTY EveryRequestAnswered
CHECK_DEADLOCK FALSE
