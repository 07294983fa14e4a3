SPECIFICATION FairSpec
CONSTANTS
  p1 = p1
  p2 = p2
  Peer = {p1, p2}
  Weight <- MCWeight
  MaxFails <- MCMaxFails
  MaxConns <- MCMaxConns
  Down = {}
  FailTimeout = 0
  Upstreams <- MCUpstreams
  c1 = c1
  c2 = c2
  w1 = w1
  w2 = w2
  Client = {c1, c2}
  Homes <- MCHomes
  Serves <- MCServes
  Worker = {w1, w2}
  NextUpstream = {"error", "timeout", "http_500", "http_404"}
  NextTries = 0
  NextTimeout = TRUE
  NoPeer = NoPeer
INVARIANTS
  TypeOK
  ConnsExact
  WeightsBalance
  SentOnce
  CachedWhole
PROPERTIES
  ProbesRare
  EveryRequestEnds
