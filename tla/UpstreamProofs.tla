--------------------------- MODULE UpstreamProofs ---------------------------
(***************************************************************************)
(* Proofs about Upstream, for any clients and workers, any servers with    *)
(* any weights and limits, and any configuration of retries: conns is      *)
(* exact, a request that must not be repeated reaches a server whole at    *)
(* most once, no connection is cached in the middle of a request, and the  *)
(* current weights of the servers balance.                                 *)
(***************************************************************************)
EXTENDS Upstream, FiniteSetTheorems, TLAPS

(* What the first proofs need to know of the peers; of the weights, which  *)
(* are sums over sets, nothing is asked before TableInv.                   *)
PeersInv ==
  /\ DOMAIN peers = Peer
  /\ \A p \in Peer :
       /\ DOMAIN peers[p] = {"fails", "age", "probing", "effective_weight",
                             "current_weight", "conns"}
       /\ peers[p].conns \in Int

(* A request holds a peer exactly while an attempt is under way.           *)
HoldsInv ==
  \A c \in Client : req[c].peer = NoPeer <=> req[c].st \in {"idle", "connect"}

Holders(p) == {c \in Client : req[c].peer = p}

(* Once a server may have the whole of a request that must not be sent     *)
(* again, the request never comes to another attempt.                      *)
CopiesInv ==
  \A c \in Client :
    /\ req[c].st = "waiting" => req[c].request_sent
    /\ copies[c] \in {0, 1}
    /\ copies[c] = 1 => req[c].st \in {"idle", "waiting", "reading"}
    /\ copies[c] = 1 /\ req[c].st = "waiting" => Once(req[c])

TypeInv ==
  /\ servers \in Upstreams
  /\ home \in Homes[servers] /\ home \in [Client -> Worker]
  /\ req \in [Client -> Request]
  /\ copies \in [Client -> Nat]
  /\ cache \in [Worker -> Seq(Connection)]

IInv == TypeInv /\ PeersInv /\ HoldsInv /\ ConnsExact /\ CopiesInv /\ CachedWhole

-----------------------------------------------------------------------------
(* The request of one client changes: who holds which peer.                *)

(* A request that keeps what it holds changes no number of holders.        *)
LEMMA HoldersKept ==
  ASSUME NEW c \in Client, req \in [Client -> Request], NEW q, Becomes(c, q),
         q.peer = req[c].peer, NEW p \in Peer
  PROVE  Holders(p)' = Holders(p)
BY DEF Holders, Becomes

(* A request that held nothing and takes peer b is one more holder of b.   *)
LEMMA HoldersGained ==
  ASSUME NEW c \in Client, req \in [Client -> Request], NEW q, Becomes(c, q),
         req[c].peer = NoPeer, NEW b \in Peer, q.peer = b, NEW p \in Peer
  PROVE  Cardinality(Holders(p)') = Cardinality(Holders(p)) + (IF p = b THEN 1 ELSE 0)
<1>1. IsFiniteSet(Holders(p))
  BY FS_Subset, UpstreamAssumption DEF Holders
<1>2. c \notin Holders(p)
  BY UpstreamAssumption DEF Holders
<1>3. CASE p = b
  <2>1. Holders(p)' = Holders(p) \cup {c} BY <1>3 DEF Holders, Becomes
  <2>2. Cardinality(Holders(p) \cup {c}) = Cardinality(Holders(p)) + 1
    BY <1>1, <1>2, FS_AddElement
  <2> QED BY <1>3, <2>1, <2>2
<1>4. CASE p # b
  <2>1. Holders(p)' = Holders(p) BY <1>4, UpstreamAssumption DEF Holders, Becomes
  <2>2. Cardinality(Holders(p)) \in Nat BY <1>1, FS_CardinalityType
  <2> QED BY <1>4, <2>1, <2>2
<1> QED BY <1>3, <1>4

(* A request that lets peer b go is one holder of b less.                  *)
LEMMA HoldersLost ==
  ASSUME NEW c \in Client, req \in [Client -> Request], NEW q, Becomes(c, q),
         NEW b \in Peer, req[c].peer = b, q.peer = NoPeer, NEW p \in Peer
  PROVE  Cardinality(Holders(p)') = Cardinality(Holders(p)) - (IF p = b THEN 1 ELSE 0)
<1>1. IsFiniteSet(Holders(p))
  BY FS_Subset, UpstreamAssumption DEF Holders
<1>2. CASE p = b
  <2>1. Holders(p)' = Holders(p) \ {c}
    BY <1>2, UpstreamAssumption DEF Holders, Becomes
  <2>2. c \in Holders(p) BY <1>2 DEF Holders
  <2> QED BY <1>1, <1>2, <2>1, <2>2, FS_RemoveElement
<1>3. CASE p # b
  <2>1. Holders(p)' = Holders(p) BY <1>3, UpstreamAssumption DEF Holders, Becomes
  <2>2. Cardinality(Holders(p)) \in Nat BY <1>1, FS_CardinalityType
  <2> QED BY <1>3, <2>1, <2>2
<1> QED BY <1>2, <1>3

-----------------------------------------------------------------------------
(* The table of peers                                                      *)

(* free takes one connection off its peer and none off the others.         *)
LEMMA FreeCounts ==
  ASSUME PeersInv, NEW b \in Peer, NEW failed \in BOOLEAN, peers' = AfterFree(b, failed)
  PROVE  /\ PeersInv'
         /\ \A p \in Peer : peers'[p].conns = peers[p].conns - (IF p = b THEN 1 ELSE 0)
<1> USE DEF PeersInv
<1> DEFINE noted == IF Single THEN [peers[b] EXCEPT !.fails = 0]
                    ELSE IF failed THEN Failed(b, peers[b])
                    ELSE [peers[b] EXCEPT !.fails = IF peers[b].probing THEN 0 ELSE @]
<1>1. /\ DOMAIN noted = DOMAIN peers[b]
      /\ noted.conns = peers[b].conns
  <2>1. CASE Single BY <2>1
  <2>2. CASE ~Single /\ failed BY <2>2 DEF Failed
  <2>3. CASE ~Single /\ ~failed BY <2>3
  <2> QED BY <2>1, <2>2, <2>3
<1>2. peers' = [peers EXCEPT ![b] = [noted EXCEPT !.conns = @ - 1]]
  BY DEF AfterFree
<1> HIDE DEF noted
<1>3. /\ DOMAIN peers'[b] = DOMAIN peers[b]
      /\ peers'[b].conns = peers[b].conns - 1
  BY <1>1, <1>2
<1>4. \A p \in Peer \ {b} : peers'[p] = peers[p]
  BY <1>2
<1> QED BY <1>2, <1>3, <1>4

(* get adds one connection to the peer it picked and none to the others.   *)
LEMMA GetCounts ==
  ASSUME PeersInv, NEW list, NEW tried, NEW b \in Peer, peers' = AfterGet(list, tried, b)
  PROVE  /\ PeersInv'
         /\ \A p \in Peer : peers'[p].conns = peers[p].conns + (IF p = b THEN 1 ELSE 0)
<1> USE DEF PeersInv
<1> DEFINE Looped(p) == IF p \in Eligible(list, tried) /\ ~Single
                        THEN AfterLoop(list, tried, b, p) ELSE peers[p]
           Won(s) == [(IF Single THEN s ELSE Stamped(s)) EXCEPT !.conns = @ + 1]
<1>1. ASSUME NEW p \in Peer
      PROVE  DOMAIN Looped(p) = DOMAIN peers[p] /\ Looped(p).conns = peers[p].conns
  BY <1>1 DEF AfterLoop
<1>2. ASSUME NEW s, DOMAIN s = DOMAIN peers[b], s.conns \in Int
      PROVE  DOMAIN Won(s) = DOMAIN s /\ Won(s).conns = s.conns + 1
  BY <1>2 DEF Stamped
<1>3. peers' = [p \in Peer |-> IF p = b THEN Won(Looped(p)) ELSE Looped(p)]
  BY DEF AfterGet
<1> HIDE DEF Looped, Won
<1>4. DOMAIN peers'[b] = DOMAIN peers[b] /\ peers'[b].conns = peers[b].conns + 1
  BY <1>1, <1>2, <1>3
<1>5. ASSUME NEW p \in Peer, p # b
      PROVE  DOMAIN peers'[p] = DOMAIN peers[p] /\ peers'[p].conns = peers[p].conns
  BY <1>1, <1>3, <1>5
<1> QED BY <1>3, <1>4, <1>5

-----------------------------------------------------------------------------
(* Three ways in which the table of peers and the requests move together   *)

(* conns in terms of Holders                                               *)
LEMMA ConnsByHolders ==
  ConnsExact <=> \A p \in Peer : /\ peers[p].conns = Cardinality(Holders(p))
                                 /\ MaxConns[p] > 0 => peers[p].conns <= MaxConns[p]
BY DEF ConnsExact, Holders

(* A request goes on without getting or freeing a peer.                    *)
LEMMA KeepStep ==
  ASSUME IInv, NEW c \in Client, NEW q, Becomes(c, q), q.peer = req[c].peer,
         peers' = peers
  PROVE  PeersInv' /\ ConnsExact'
<1>1. PeersInv' BY DEF IInv, PeersInv
<1>2. \A p \in Peer : Holders(p)' = Holders(p)
  BY HoldersKept DEF IInv, TypeInv
<1>3. ConnsExact'
  BY <1>2, ConnsByHolders DEF IInv, ConnsExact, Holders
<1> QED BY <1>1, <1>3

(* An attempt ends: its peer is freed.                                     *)
LEMMA ReleaseStep ==
  ASSUME IInv, NEW c \in Client, NEW q, Becomes(c, q), q.peer = NoPeer,
         req[c].st \notin {"idle", "connect"},
         NEW failed \in BOOLEAN, Release(c, failed)
  PROVE  PeersInv' /\ ConnsExact'
<1> DEFINE b == req[c].peer
<1>1. b \in Peer
  BY DEF IInv, TypeInv, HoldsInv, Request
<1>2. /\ PeersInv'
      /\ \A p \in Peer : peers'[p].conns = peers[p].conns - (IF p = b THEN 1 ELSE 0)
  BY <1>1, FreeCounts DEF Release, IInv
<1>3. \A p \in Peer : Cardinality(Holders(p)') = Cardinality(Holders(p)) - (IF p = b THEN 1 ELSE 0)
  BY <1>1, HoldersLost DEF IInv, TypeInv
<1>4. \A p \in Peer : peers[p].conns \in Int BY DEF IInv, PeersInv
<1>5. \A p \in Peer : MaxConns[p] \in Nat BY RoundRobinAssumption
<1>6. \A p \in Peer : /\ peers[p].conns = Cardinality(Holders(p))
                      /\ MaxConns[p] > 0 => peers[p].conns <= MaxConns[p]
  BY ConnsByHolders DEF IInv
<1>7. \A p \in Peer : /\ peers'[p].conns = Cardinality(Holders(p)')
                      /\ MaxConns[p] > 0 => peers'[p].conns <= MaxConns[p]
  BY <1>2, <1>3, <1>4, <1>5, <1>6
<1>8. ConnsExact' BY <1>7 DEF ConnsExact, Holders
<1> QED BY <1>2, <1>8

(* An attempt begins: its peer was picked, which is not Full.              *)
LEMMA PickStep ==
  ASSUME IInv, NEW c \in Client, req[c].st = "connect", NEW list, NEW tried,
         ToSet(list) \subseteq Peer, NEW b \in Best(list, tried), peers' = AfterGet(list, tried, b),
         NEW q, Becomes(c, q), q.peer = b
  PROVE  PeersInv' /\ ConnsExact'
<1>1. b \in Peer /\ ~Full(b)
  BY DEF Best, Eligible
<1>2. /\ PeersInv'
      /\ \A p \in Peer : peers'[p].conns = peers[p].conns + (IF p = b THEN 1 ELSE 0)
  BY <1>1, GetCounts DEF IInv
<1>3. req[c].peer = NoPeer BY DEF IInv, HoldsInv
<1>4. \A p \in Peer : Cardinality(Holders(p)') = Cardinality(Holders(p)) + (IF p = b THEN 1 ELSE 0)
  BY <1>1, <1>3, HoldersGained DEF IInv, TypeInv
<1>5. \A p \in Peer : peers[p].conns \in Int BY DEF IInv, PeersInv
<1>6. \A p \in Peer : MaxConns[p] \in Nat BY RoundRobinAssumption
<1>7. \A p \in Peer : /\ peers[p].conns = Cardinality(Holders(p))
                      /\ MaxConns[p] > 0 => peers[p].conns <= MaxConns[p]
  BY ConnsByHolders DEF IInv
<1>8. MaxConns[b] > 0 => peers[b].conns < MaxConns[b]
  BY <1>1, <1>5, <1>6 DEF Full
<1>9. \A p \in Peer : /\ peers'[p].conns = Cardinality(Holders(p)')
                      /\ MaxConns[p] > 0 => peers'[p].conns <= MaxConns[p]
  BY <1>1, <1>2, <1>4, <1>5, <1>6, <1>7, <1>8
<1>10. ConnsExact' BY <1>9 DEF ConnsExact, Holders
<1> QED BY <1>2, <1>10

-----------------------------------------------------------------------------
(* What every step of a request has to show for the invariant              *)
LEMMA RequestStep ==
  ASSUME IInv, NEW c \in Client, NEW q \in Request, Becomes(c, q),
         servers' = servers, home' = home, PeersInv', ConnsExact',
         q.peer = NoPeer <=> q.st \in {"idle", "connect"},
         cache' \in [Worker -> Seq(Connection)], CachedWhole',
         NEW n \in {0, 1}, copies' = [copies EXCEPT ![c] = n],
         q.st = "waiting" => q.request_sent,
         n = 1 => q.st \in {"idle", "waiting", "reading"},
         n = 1 /\ q.st = "waiting" => Once(q)
  PROVE  IInv'
<1>1. TypeInv' BY DEF IInv, TypeInv, Becomes
<1>2. HoldsInv' BY DEF IInv, TypeInv, HoldsInv, Becomes
<1>3. CopiesInv'
  <2> SUFFICES ASSUME NEW v \in Client
               PROVE  /\ req'[v].st = "waiting" => req'[v].request_sent
                      /\ copies'[v] \in {0, 1}
                      /\ copies'[v] = 1 => req'[v].st \in {"idle", "waiting", "reading"}
                      /\ copies'[v] = 1 /\ req'[v].st = "waiting" => Once(req[v])'
    BY DEF CopiesInv
  <2>1. CASE v = c
    <3>1. req'[c] = q /\ copies'[c] = n BY DEF IInv, TypeInv, Becomes
    <3>2. Once(req[c])' <=> Once(q) BY <3>1 DEF Once
    <3> QED BY <2>1, <3>1, <3>2
  <2>2. CASE v # c
    <3>1. req'[v] = req[v] /\ copies'[v] = copies[v]
      BY <2>2 DEF IInv, TypeInv, Becomes
    <3>2. Once(req[v])' <=> Once(req[v]) BY <3>1 DEF Once
    <3> QED BY <3>1, <3>2 DEF IInv, CopiesInv
  <2> QED BY <2>1, <2>2
<1> QED BY <1>1, <1>2, <1>3 DEF IInv

(* tries of a request is a number.                                         *)
LEMMA TriesType == servers \in Upstreams => Tries \in Nat
<1> SUFFICES ASSUME servers \in Upstreams PROVE Tries \in Nat
  OBVIOUS
<1>1. servers.primary \in Seq(Peer) /\ servers.backup \in Seq(Peer)
  BY RoundRobinAssumption
<1>2. ToSet(servers.primary) \subseteq Peer /\ ToSet(servers.backup) \subseteq Peer
  BY <1>1 DEF ToSet
<1>3. IsFiniteSet((ToSet(servers.primary) \cup ToSet(servers.backup)) \ Down)
  BY <1>2, FS_Subset, RoundRobinAssumption
<1> QED BY <1>3, FS_CardinalityType DEF Tries

(* What is left of a sequence when an element is taken out.                *)
LEMMA RemoveAtType ==
  ASSUME NEW S, NEW s \in Seq(S), NEW i \in DOMAIN s
  PROVE  RemoveAt(s, i) \in Seq(S)
BY DEF RemoveAt

(* The cache, its connections being whole                                  *)
Whole == {conn \in Connection : conn.whole}

LEMMA WholeSeq ==
  ASSUME NEW s \in Seq(Connection)
  PROVE  (\A i \in DOMAIN s : s[i].whole) <=> s \in Seq(Whole)
<1>1. ASSUME \A i \in DOMAIN s : s[i].whole PROVE s \in Seq(Whole)
  <2>1. s \in [1 .. Len(s) -> Connection] /\ Len(s) \in Nat /\ DOMAIN s = 1 .. Len(s)
    OBVIOUS
  <2>2. \A i \in 1 .. Len(s) : s[i] \in Whole BY <1>1, <2>1 DEF Whole
  <2>3. s \in [1 .. Len(s) -> Whole] BY <2>1, <2>2
  <2> QED BY <2>1, <2>3
<1>2. ASSUME s \in Seq(Whole), NEW i \in DOMAIN s PROVE s[i].whole
  <2>1. s[i] \in Whole BY <1>2
  <2> QED BY <2>1 DEF Whole
<1> QED BY <1>1, <1>2

LEMMA WholeCache ==
  ASSUME cache \in [Worker -> Seq(Connection)]
  PROVE  CachedWhole <=> cache \in [Worker -> Seq(Whole)]
BY WholeSeq DEF CachedWhole

(* Whole connections are connections, and primed the same.                 *)
LEMMA WholeNext ==
  ASSUME cache' \in [Worker -> Seq(Whole)]
  PROVE  cache' \in [Worker -> Seq(Connection)] /\ CachedWhole'
<1>1. Whole \subseteq Connection BY DEF Whole
<1>2. \A w \in Worker : cache'[w] \in Seq(Connection) BY <1>1
<1>3. \A w \in Worker : \A i \in DOMAIN cache'[w] : cache'[w][i].whole
  BY <1>2, WholeSeq
<1> QED BY <1>2, <1>3 DEF CachedWhole

(* A connection that is taken out or closed leaves the others as they are. *)
LEMMA CacheShrinks ==
  ASSUME IInv, NEW w \in Worker, NEW i \in DOMAIN cache[w],
         cache' = [cache EXCEPT ![w] = RemoveAt(@, i)]
  PROVE  cache' \in [Worker -> Seq(Connection)] /\ CachedWhole'
<1>1. cache \in [Worker -> Seq(Whole)] BY WholeCache DEF IInv, TypeInv
<1>2. RemoveAt(cache[w], i) \in Seq(Whole) BY <1>1, RemoveAtType
<1>3. cache' \in [Worker -> Seq(Whole)] BY <1>1, <1>2
<1> QED BY <1>3, WholeNext

(* The idle connections after one more was put in front of them            *)
LEMMA StoredType ==
  ASSUME NEW c \in Client, home \in [Client -> Worker],
         cache \in [Worker -> Seq(Whole)], servers.keepalive \in Nat,
         NEW conn \in Whole
  PROVE  Stored(c, conn) \in Seq(Whole)
<1> DEFINE idle == cache[home[c]]
           s == <<conn>> \o idle
           n == Smaller(Len(idle) + 1, servers.keepalive)
<1>1. idle \in Seq(Whole) OBVIOUS
<1> HIDE DEF idle
<1>2. s \in Seq(Whole) /\ Len(s) = Len(idle) + 1 BY <1>1
<1>3. n \in Nat /\ n <= Len(s) BY <1>1, <1>2 DEF Smaller
<1> HIDE DEF s, n
<1>4. SubSeq(s, 1, n) \in Seq(Whole)
  <2>1. \A i \in 1 .. n : s[i] \in Whole BY <1>2, <1>3
  <2> QED BY <1>2, <1>3, <2>1
<1> QED BY <1>4 DEF Stored, s, n, idle

(* What is kept of an attempt went out whole.                              *)
LEMMA RetireStep ==
  ASSUME IInv, NEW c \in Client, req[c].st \notin {"idle", "connect"},
         NEW kept \in BOOLEAN, Retire(c, kept)
  PROVE  cache' \in [Worker -> Seq(Connection)] /\ CachedWhole'
<1> DEFINE conn == [peer |-> req[c].peer, whole |-> req[c].request_body_sent]
<1>1. cache \in [Worker -> Seq(Whole)] BY WholeCache DEF IInv, TypeInv
<1>2. CASE ~Kept(c, kept)
  BY <1>2 DEF Retire, IInv, TypeInv, CachedWhole
<1>3. CASE Kept(c, kept)
  <2>1. conn \in Whole
    BY <1>3 DEF Kept, Whole, Connection, IInv, TypeInv, HoldsInv, Request
  <2>2. cache' = [cache EXCEPT ![home[c]] = Stored(c, conn)] BY <1>3 DEF Retire
  <2>3. servers.keepalive \in Nat BY RoundRobinAssumption DEF IInv, TypeInv
  <2>4. home \in [Client -> Worker] BY DEF IInv, TypeInv
  <2> HIDE DEF conn
  <2>5. Stored(c, conn) \in Seq(Whole) BY <1>1, <2>1, <2>3, <2>4, StoredType
  <2>6. cache' \in [Worker -> Seq(Whole)] BY <1>1, <2>2, <2>5
  <2> QED BY <2>6, WholeNext
<1> QED BY <1>2, <1>3

(* Once a server may have all of a request that must not be repeated, the  *)
(* next attempt is refused.                                                *)
LEMMA OnceStops ==
  ASSUME NEW r \in Request, r.request_sent, Once(r), NEW ft, NEW tries
  PROVE  Stops(r, ft, tries)
BY DEF Once, Stops, Types

(* An attempt that fails keeps the invariant.                              *)
LEMMA NextPeerStep ==
  ASSUME IInv, NEW c \in Client, req[c].st \notin {"idle", "connect", "reading"},
         NEW ft, NextPeer(c, ft)
  PROVE  IInv'
<1> DEFINE r == req[c]
           tries == TriesAfterFree(r.tries) + (IF r.cached /\ ft = "error" THEN 1 ELSE 0)
           again == [r EXCEPT !.st = "connect", !.peer = NoPeer,
                              !.tries = tries, !.open = FALSE]
<1>1. r \in Request BY DEF IInv, TypeInv
<1>2. tries \in Nat BY <1>1 DEF Request, TriesAfterFree
<1>3. PICK q \in {Idle, again} : Becomes(c, q) /\ (q = Idle \/ ~Stops(r, ft, tries))
  BY DEF NextPeer
<1>4. /\ Release(c, ft # "http_404")
      /\ IF ft = "http_404" THEN \E kept \in BOOLEAN : Retire(c, kept)
                            ELSE UNCHANGED cache
      /\ UNCHANGED <<servers, picked, home, copies>>
  BY DEF NextPeer
<1> HIDE DEF tries
<1>5. again \in Request /\ again.peer = NoPeer /\ again.st = "connect"
  BY <1>1, <1>2 DEF Request
<1>6. Idle \in Request /\ Idle.peer = NoPeer /\ Idle.st = "idle"
  BY DEF Idle, Request, Method
<1> HIDE DEF again
<1>7. q \in Request /\ q.peer = NoPeer /\ q.st \in {"idle", "connect"}
  BY <1>5, <1>6
<1>8. copies[c] = 1 => q.st = "idle"
  <2>1. ASSUME copies[c] = 1 PROVE Stops(r, ft, tries)
    <3>1. r.st = "waiting" /\ r.request_sent /\ Once(r)
      BY <2>1 DEF IInv, CopiesInv
    <3> QED BY <1>1, <3>1, OnceStops
  <2> QED BY <1>3, <1>6, <2>1
<1>9. (ft # "http_404") \in BOOLEAN OBVIOUS
<1>10. PeersInv' /\ ConnsExact' BY <1>3, <1>4, <1>7, <1>9, ReleaseStep
<1>11. copies' = [copies EXCEPT ![c] = copies[c]] /\ copies[c] \in {0, 1}
  BY <1>4 DEF IInv, TypeInv, CopiesInv
<1>12. cache' \in [Worker -> Seq(Connection)] /\ CachedWhole'
  <2>1. CASE ft = "http_404" BY <1>4, <2>1, RetireStep
  <2>2. CASE ft # "http_404" BY <1>4, <2>2 DEF IInv, TypeInv, CachedWhole
  <2> QED BY <2>1, <2>2
<1> QED BY <1>3, <1>4, <1>7, <1>8, <1>10, <1>11, <1>12, RequestStep

(* A request that is given up keeps the invariant.                         *)
LEMMA FinalizeStep ==
  ASSUME IInv, NEW c \in Client, req[c].st \notin {"idle", "connect"}, Finalize(c)
  PROVE  IInv'
<1>1. Idle \in Request /\ Idle.peer = NoPeer /\ Idle.st = "idle"
  BY DEF Idle, Request, Method
<1>2. PeersInv' /\ ConnsExact' BY <1>1, ReleaseStep DEF Finalize
<1>3. copies' = [copies EXCEPT ![c] = copies[c]] /\ copies[c] \in {0, 1}
  BY DEF IInv, TypeInv, CopiesInv, Finalize
<1>4. cache' \in [Worker -> Seq(Connection)] /\ CachedWhole'
  BY DEF IInv, TypeInv, CachedWhole, Finalize
<1> QED BY <1>1, <1>2, <1>3, <1>4, RequestStep DEF Finalize

(* A header that is passed on keeps the invariant.                         *)
LEMMA ReadsStep ==
  ASSUME IInv, NEW c \in Client, req[c].st \in {"sending", "waiting"}, Reads(c)
  PROVE  IInv'
<1> DEFINE q == [req[c] EXCEPT !.st = "reading"]
<1>1. /\ q \in Request /\ q.peer = req[c].peer /\ q.st = "reading"
  BY DEF IInv, TypeInv, Request, Waits
<1>2. q.peer # NoPeer BY <1>1 DEF IInv, HoldsInv
<1>3. Becomes(c, q) /\ UNCHANGED <<servers, peers, picked, home, cache, copies>> BY DEF Reads
<1> HIDE DEF q
<1>4. PeersInv' /\ ConnsExact' BY <1>1, <1>3, KeepStep
<1>5. copies' = [copies EXCEPT ![c] = copies[c]] /\ copies[c] \in {0, 1}
  BY <1>3 DEF IInv, TypeInv, CopiesInv
<1>6. cache' \in [Worker -> Seq(Connection)] /\ CachedWhole'
  BY <1>3 DEF IInv, TypeInv, CachedWhole
<1> QED BY <1>1, <1>2, <1>3, <1>4, <1>5, <1>6, RequestStep

(* Whatever a call of send_request does, the request keeps its peer.       *)
LEMMA SendsType ==
  ASSUME NEW r \in Request, NEW q \in Sends(r)
  PROVE  /\ q \in Request /\ q.peer = r.peer
         /\ q.st \in {"broken", "sending", "waiting"}
         /\ q.st = "waiting" => q.request_sent
<1> DEFINE s == [r EXCEPT !.request_sent = TRUE]
<1>1. s \in Request /\ s.peer = r.peer /\ s.request_sent BY DEF Request
<1>2. \/ q = [r EXCEPT !.st = "broken"]
      \/ q = [s EXCEPT !.st = "broken"]
      \/ q = [s EXCEPT !.st = "sending"]
      \/ q = [s EXCEPT !.st = "waiting", !.request_body_sent = TRUE]
  BY DEF Sends
<1> HIDE DEF s
<1>3. CASE q = [r EXCEPT !.st = "broken"] BY <1>3 DEF Request
<1>4. CASE q = [s EXCEPT !.st = "broken"] BY <1>1, <1>4 DEF Request
<1>5. CASE q = [s EXCEPT !.st = "sending"] BY <1>1, <1>5 DEF Request, Waits
<1>6. CASE q = [s EXCEPT !.st = "waiting", !.request_body_sent = TRUE]
  BY <1>1, <1>6 DEF Request, Waits
<1> QED BY <1>2, <1>3, <1>4, <1>5, <1>6

(* The copy a server may get in a step of a request that had none.         *)
LEMMA SentCopies ==
  ASSUME IInv, NEW c \in Client, NEW q, Sent(c, q), copies[c] = 0
  PROVE  \E n \in {0, 1} : /\ copies' = [copies EXCEPT ![c] = n]
                           /\ n = 1 => Once(q) /\ q.st = "waiting"
<1> DEFINE n == IF Once(q) /\ q.st = "waiting" /\ q.open THEN 1 ELSE 0
<1>1. copies' = [copies EXCEPT ![c] = n] BY DEF Sent
<1>2. n \in {0, 1} /\ (n = 1 => Once(q) /\ q.st = "waiting") OBVIOUS
<1> HIDE DEF n
<1> QED BY <1>1, <1>2

(* Every outcome of connecting a request that holds peer p is a request    *)
(* under way that holds it.                                                *)
LEMMA OutcomesType ==
  ASSUME NEW r \in Request, NEW hit \in BOOLEAN, NEW q \in ConnectOutcomes(r, hit)
  PROVE  /\ q \in Request /\ q.peer = r.peer
         /\ q.st \notin {"idle", "connect"}
         /\ q.st = "waiting" => q.request_sent
<1>1. CASE hit
  <2>1. PICK open \in BOOLEAN : q \in Sends(Fresh(r, TRUE, open))
    BY <1>1 DEF ConnectOutcomes
  <2>2. Fresh(r, TRUE, open) \in Request /\ Fresh(r, TRUE, open).peer = r.peer
    BY DEF Fresh, Request
  <2> QED BY <2>1, <2>2, SendsType
<1>2. CASE ~hit
  <2> DEFINE f == Fresh(r, FALSE, TRUE)
  <2>1. f \in Request /\ f.peer = r.peer BY DEF Fresh, Request
  <2>2. \/ q = [r EXCEPT !.st = "broken"]
        \/ q = [r EXCEPT !.st = "failed"]
        \/ q = [f EXCEPT !.st = "connecting"]
    BY <1>2 DEF ConnectOutcomes
  <2> HIDE DEF f
  <2>3. CASE q = [r EXCEPT !.st = "broken"] BY <2>3 DEF Request
  <2>4. CASE q = [r EXCEPT !.st = "failed"] BY <2>4 DEF Request
  <2>5. CASE q = [f EXCEPT !.st = "connecting"] BY <2>1, <2>5 DEF Request, Waits
  <2> QED BY <2>2, <2>3, <2>4, <2>5
<1> QED BY <1>1, <1>2

(* The beginning of an attempt keeps the invariant.                        *)
LEMMA ConnectStep ==
  ASSUME IInv, NEW c \in Client, Connect(c)
  PROVE  IInv'
<1> DEFINE r == req[c]
           list == List(r)
           tried == TriedOf(r)
<1>1. r \in Request /\ r.st = "connect" /\ servers' = servers /\ home' = home
  BY DEF Connect, IInv, TypeInv
<1>2. PICK p \in Best(list, tried) :
        /\ \E q \in ConnectOutcomes(Got(r, p), Found(c, p) # {}) : Sent(c, q)
        /\ peers' = AfterGet(list, tried, p)
        /\ IF Found(c, p) = {} THEN UNCHANGED cache
           ELSE \E i \in Found(c, p) : cache' = [cache EXCEPT ![home[c]] = RemoveAt(@, i)]
  BY DEF Connect
<1>3. servers \in Upstreams BY DEF IInv, TypeInv
<1>4. ToSet(list) \subseteq Peer
  BY <1>3, RoundRobinAssumption DEF List, ToSet
<1>5. p \in Peer BY <1>4 DEF Best, Eligible
<1>6. Got(r, p) \in Request /\ Got(r, p).peer = p
  <2>1. FromBackup(r) \in BOOLEAN BY <1>1 DEF FromBackup, Request
  <2>2. TriedOf(r) \subseteq Peer BY <1>1 DEF TriedOf, Request
  <2> QED BY <1>1, <1>5, <2>1, <2>2 DEF Got, Request
<1>7. PICK q \in ConnectOutcomes(Got(r, p), Found(c, p) # {}) : Sent(c, q)
  BY <1>2
<1>8. /\ q \in Request /\ q.peer = p
      /\ q.st \notin {"idle", "connect"}
      /\ q.st = "waiting" => q.request_sent
  BY <1>6, <1>7, OutcomesType
<1>9. q.peer # NoPeer BY <1>5, <1>8, UpstreamAssumption
<1>10. Becomes(c, q) BY <1>7 DEF Sent
<1>11. PeersInv' /\ ConnsExact' BY <1>1, <1>2, <1>4, <1>8, <1>10, PickStep
<1>12. copies[c] = 0 BY <1>1 DEF IInv, CopiesInv
<1>13. PICK n \in {0, 1} : /\ copies' = [copies EXCEPT ![c] = n]
                           /\ n = 1 => Once(q) /\ q.st = "waiting"
  BY <1>7, <1>12, SentCopies
<1>14. cache' \in [Worker -> Seq(Connection)] /\ CachedWhole'
  <2>1. CASE Found(c, p) = {} BY <1>2, <2>1 DEF IInv, TypeInv, CachedWhole
  <2>2. CASE Found(c, p) # {}
    <3>1. PICK i \in DOMAIN cache[home[c]] : cache' = [cache EXCEPT ![home[c]] = RemoveAt(@, i)]
      BY <1>2, <2>2 DEF Found
    <3>2. home[c] \in Worker BY DEF IInv, TypeInv
    <3> QED BY <3>1, <3>2, CacheShrinks
  <2> QED BY <2>1, <2>2
<1> QED BY <1>1, <1>8, <1>9, <1>10, <1>11, <1>13, <1>14, RequestStep

(* A request that begins                                                   *)
LEMMA InitRequestStep ==
  ASSUME IInv, NEW c \in Client, NEW method \in Method, NEW no_buffering \in BOOLEAN,
         InitRequest(c, method, no_buffering)
  PROVE  IInv'
<1> DEFINE t == IF NextTries > 0 THEN Smaller(Tries, NextTries) ELSE Tries
           q == [Idle EXCEPT !.st = "connect", !.method = method,
                             !.no_buffering = no_buffering, !.tries = t]
<1>1. t \in Nat
  BY TriesType, UpstreamAssumption DEF IInv, TypeInv, Smaller
<1>2. /\ Becomes(c, q) /\ copies' = [copies EXCEPT ![c] = 0]
      /\ req[c].st = "idle" /\ UNCHANGED <<servers, peers, picked, home, cache>>
  BY DEF InitRequest
<1> HIDE DEF t
<1>3. q \in Request /\ q.peer = NoPeer /\ q.st = "connect"
  BY <1>1 DEF Idle, Request
<1>4. q.peer = req[c].peer BY <1>2, <1>3 DEF IInv, HoldsInv
<1> HIDE DEF q
<1>5. PeersInv' /\ ConnsExact' BY <1>2, <1>4, KeepStep
<1>6. cache' \in [Worker -> Seq(Connection)] /\ CachedWhole'
  BY <1>2 DEF IInv, TypeInv, CachedWhole
<1>7. servers' = servers /\ home' = home /\ Becomes(c, q) /\ copies' = [copies EXCEPT ![c] = 0]
  BY <1>2
<1>8. q \in Request /\ (q.peer = NoPeer <=> q.st \in {"idle", "connect"}) /\ q.st # "waiting"
  BY <1>3
<1>9. 0 \in {0, 1} /\ 0 # 1 OBVIOUS
<1> QED BY <1>5, <1>6, <1>7, <1>8, <1>9, RequestStep

(* No server is left: the request is given up and holds nothing.           *)
LEMMA ConnectBusyStep ==
  ASSUME IInv, NEW c \in Client, ConnectBusy(c)
  PROVE  IInv'
<1>1. Idle \in Request /\ Idle.peer = NoPeer /\ Idle.st = "idle"
  BY DEF Idle, Request, Method
<1>2. /\ Becomes(c, Idle) /\ req[c].peer = NoPeer
      /\ UNCHANGED <<servers, peers, picked, home, cache, copies>>
  BY DEF ConnectBusy, IInv, HoldsInv
<1>3. PeersInv' /\ ConnsExact' BY <1>1, <1>2, KeepStep
<1>4. copies' = [copies EXCEPT ![c] = copies[c]] /\ copies[c] \in {0, 1}
  BY <1>2 DEF IInv, TypeInv, CopiesInv
<1>5. cache' \in [Worker -> Seq(Connection)] /\ CachedWhole'
  BY <1>2 DEF IInv, TypeInv, CachedWhole
<1> QED BY <1>1, <1>2, <1>3, <1>4, <1>5, RequestStep

(* More of the request is written.                                         *)
LEMMA SendRequestStep ==
  ASSUME IInv, NEW c \in Client, SendRequest(c)
  PROVE  IInv'
<1>1. /\ req[c].st \in {"connecting", "sending"}
      /\ UNCHANGED <<servers, peers, picked, home, cache>>
  BY DEF SendRequest
<1>2. PICK q \in Sends(req[c]) : Sent(c, q) BY DEF SendRequest
<1>3. /\ q \in Request /\ q.peer = req[c].peer
      /\ q.st \in {"broken", "sending", "waiting"}
      /\ q.st = "waiting" => q.request_sent
  BY <1>2, SendsType DEF IInv, TypeInv
<1>4. q.peer # NoPeer BY <1>1, <1>3 DEF IInv, HoldsInv
<1>5. Becomes(c, q) BY <1>2 DEF Sent
<1>6. PeersInv' /\ ConnsExact' BY <1>1, <1>3, <1>5, KeepStep
<1>7. copies[c] = 0 BY <1>1 DEF IInv, CopiesInv
<1>8. PICK n \in {0, 1} : /\ copies' = [copies EXCEPT ![c] = n]
                          /\ n = 1 => Once(q) /\ q.st = "waiting"
  BY <1>2, <1>7, SentCopies
<1>9. cache' \in [Worker -> Seq(Connection)] /\ CachedWhole'
  BY <1>1 DEF IInv, TypeInv, CachedWhole
<1> QED BY <1>1, <1>3, <1>4, <1>5, <1>6, <1>8, <1>9, RequestStep

(* A response that is complete: its connection is kept, if the request     *)
(* went out whole, or closed.                                              *)
LEMMA DoneStep ==
  ASSUME IInv, NEW c \in Client, NEW kept \in BOOLEAN, Done(c, kept)
  PROVE  IInv'
<1>1. Idle \in Request /\ Idle.peer = NoPeer /\ Idle.st = "idle"
  BY DEF Idle, Request, Method
<1>2. /\ req[c].st = "reading" /\ Release(c, FALSE) /\ Becomes(c, Idle)
      /\ UNCHANGED <<servers, picked, home, copies>>
  BY DEF Done
<1>3. PeersInv' /\ ConnsExact' BY <1>1, <1>2, ReleaseStep
<1>4. copies' = [copies EXCEPT ![c] = copies[c]] /\ copies[c] \in {0, 1}
  BY <1>2 DEF IInv, TypeInv, CopiesInv
<1>5. cache' \in [Worker -> Seq(Connection)] /\ CachedWhole'
  BY <1>2, RetireStep DEF Done
<1> QED BY <1>1, <1>2, <1>3, <1>4, <1>5, RequestStep

(* An idle connection is closed.                                           *)
LEMMA KeepaliveCloseStep ==
  ASSUME IInv, NEW w \in Worker, KeepaliveClose(w)
  PROVE  IInv'
<1>1. PICK i \in DOMAIN cache[w] : cache' = [cache EXCEPT ![w] = RemoveAt(@, i)]
  BY DEF KeepaliveClose
<1>2. UNCHANGED <<servers, peers, picked, home, req, copies>> BY DEF KeepaliveClose
<1>3. cache' \in [Worker -> Seq(Connection)] /\ CachedWhole' BY <1>1, CacheShrinks
<1>4. TypeInv' BY <1>2, <1>3 DEF IInv, TypeInv
<1>5. PeersInv' /\ HoldsInv' /\ ConnsExact'
  BY <1>2 DEF IInv, PeersInv, HoldsInv, ConnsExact
<1>6. CopiesInv' BY <1>2 DEF IInv, CopiesInv, Once
<1> QED BY <1>3, <1>4, <1>5, <1>6 DEF IInv

(* Time changes ages only.                                                 *)
LEMMA TimePassesStep ==
  ASSUME IInv, TimePasses
  PROVE  IInv'
<1>1. UNCHANGED <<servers, home, req, cache, copies>> BY DEF TimePasses, Tick
<1>2. \A p \in Peer : /\ DOMAIN peers'[p] = DOMAIN peers[p]
                      /\ peers'[p].conns = peers[p].conns
  BY DEF TimePasses, Tick, IInv, PeersInv
<1>3. DOMAIN peers' = Peer BY DEF TimePasses, Tick
<1>4. PeersInv' BY <1>2, <1>3 DEF IInv, PeersInv
<1>5. ConnsExact' BY <1>1, <1>2 DEF IInv, ConnsExact
<1>6. TypeInv' /\ HoldsInv' /\ CachedWhole'
  BY <1>1 DEF IInv, TypeInv, HoldsInv, CachedWhole
<1>7. CopiesInv' BY <1>1 DEF IInv, CopiesInv, Once
<1> QED BY <1>4, <1>5, <1>6, <1>7 DEF IInv

-----------------------------------------------------------------------------
(* The invariant                                                           *)

LEMMA InitInv == Init => IInv
<1> SUFFICES ASSUME Init PROVE IInv OBVIOUS
<1> USE DEF Init, RRInit
<1>1. Idle \in Request /\ Idle.st = "idle" /\ Idle.peer = NoPeer
  BY DEF Idle, Request, Method
<1>2. home \in [Client -> Worker]
  BY UpstreamAssumption
<1>3. TypeInv /\ CachedWhole
  BY <1>1, <1>2 DEF TypeInv, CachedWhole
<1>4. PeersInv BY DEF PeersInv
<1>5. HoldsInv /\ CopiesInv BY <1>1 DEF HoldsInv, CopiesInv
<1>6. ASSUME NEW p \in Peer
      PROVE  {c \in Client : req[c].peer = p} = {} /\ peers[p].conns = 0
  BY <1>1, <1>6, UpstreamAssumption
<1>7. ConnsExact
  <2> SUFFICES ASSUME NEW p \in Peer
               PROVE  /\ peers[p].conns = Cardinality({c \in Client : req[c].peer = p})
                      /\ MaxConns[p] > 0 => peers[p].conns <= MaxConns[p]
    BY DEF ConnsExact
  <2> HIDE DEF Init, RRInit
  <2>1. Cardinality({c \in Client : req[c].peer = p}) = 0 BY <1>6, FS_EmptySet
  <2>2. MaxConns[p] \in Nat BY RoundRobinAssumption
  <2> QED BY <1>6, <2>1, <2>2
<1> QED BY <1>3, <1>4, <1>5, <1>7 DEF IInv

(* One step per action                                                     *)
LEMMA NextInv == IInv /\ [Next]_vars => IInv'
<1> SUFFICES ASSUME IInv, [Next]_vars PROVE IInv' OBVIOUS
<1>1. ASSUME NEW c \in Client, NEW method \in Serves[c], NEW no_buffering \in BOOLEAN,
             InitRequest(c, method, no_buffering)
      PROVE  IInv'
  <2>1. method \in Method BY UpstreamAssumption
  <2> QED BY <1>1, <2>1, InitRequestStep
<1>2. ASSUME NEW c \in Client, Handles(c) PROVE IInv'
  <2>1. CASE ConnectBusy(c) BY <2>1, ConnectBusyStep
  <2>2. CASE Connect(c) BY <2>2, ConnectStep
  <2>3. CASE AttemptBroken(c)
    BY <2>3, NextPeerStep DEF AttemptBroken
  <2>4. CASE NoSocket(c) BY <2>4, FinalizeStep DEF NoSocket
  <2> QED BY <1>2, <2>1, <2>2, <2>3, <2>4 DEF Handles
<1>3. ASSUME NEW c \in Client, Event(c) PROVE IInv'
  <2>1. CASE SendRequest(c) BY <2>1, SendRequestStep
  <2>2. CASE BodyTimesOut(c) BY <2>2, FinalizeStep DEF BodyTimesOut
  <2>3. CASE TimesOut(c)
    <3>1. CASE req[c].st \in {"connecting", "sending", "waiting"} /\ NextPeer(c, "timeout")
      BY <3>1, NextPeerStep
    <3>2. CASE req[c].st = "reading" /\ Finalize(c)
      BY <3>2, FinalizeStep
    <3> QED BY <2>3, <3>1, <3>2 DEF TimesOut
  <2>4. CASE ClosedEarly(c) BY <2>4, NextPeerStep DEF ClosedEarly
  <2>5. CASE HeaderInvalid(c) BY <2>5, NextPeerStep DEF HeaderInvalid
  <2>6. CASE HeaderOk(c) BY <2>6, ReadsStep DEF HeaderOk
  <2>7. ASSUME NEW ft \in {"http_500", "http_404"}, HeaderError(c, ft)
        PROVE  IInv'
    <3>1. req[c].st \in {"sending", "waiting"} BY <2>7 DEF HeaderError
    <3>2. CASE NextPeer(c, ft) BY <3>1, <3>2, NextPeerStep
    <3>3. CASE Reads(c) BY <3>1, <3>3, ReadsStep
    <3> QED BY <2>7, <3>2, <3>3 DEF HeaderError
  <2>8. ASSUME NEW kept \in BOOLEAN, Done(c, kept) PROVE IInv'
    BY <2>8, DoneStep
  <2>9. CASE ResponseCut(c) BY <2>9, FinalizeStep DEF ResponseCut
  <2>10. CASE ClientAborts(c) BY <2>10, FinalizeStep DEF ClientAborts, Waits
  <2> QED BY <1>3, <2>1, <2>2, <2>3, <2>4, <2>5, <2>6, <2>7, <2>8, <2>9, <2>10 DEF Event
<1>4. ASSUME NEW w \in Worker, KeepaliveClose(w) PROVE IInv'
  BY <1>4, KeepaliveCloseStep
<1>5. CASE TimePasses BY <1>5, TimePassesStep
<1>6. CASE UNCHANGED vars
  <2>1. UNCHANGED <<servers, peers, picked, home, req, cache, copies>>
    BY <1>6 DEF vars
  <2>2. TypeInv' /\ PeersInv' /\ HoldsInv'
    BY <2>1 DEF IInv, TypeInv, PeersInv, HoldsInv
  <2>3. ConnsExact' /\ CachedWhole' BY <2>1 DEF IInv, ConnsExact, CachedWhole
  <2>4. CopiesInv' BY <2>1 DEF IInv, CopiesInv, Once
  <2> QED BY <2>2, <2>3, <2>4 DEF IInv
<1> QED BY <1>1, <1>2, <1>3, <1>4, <1>5, <1>6 DEF Next

(* Every state of the proxy satisfies the invariant: the shape of requests *)
(* and caches, the peers held, and what follows of them.                   *)
THEOREM Invariant == Spec => []IInv
BY InitInv, NextInv, PTL DEF Spec

(* conns of every server is the number of attempts under way to it, and    *)
(* stays within max_conns: ngx_http_upstream_next, finalize_request and    *)
(* process_header free what get_round_robin_peer took exactly once.        *)
THEOREM ConnsAreExact == Spec => []ConnsExact
<1>1. IInv => ConnsExact BY DEF IInv
<1> QED BY <1>1, Invariant, PTL

(* However often a request is tried again, a server gets a POST, or a      *)
(* request with an unbuffered body, whole at most once:                    *)
(* ngx_http_upstream_next gives such a request up once it was sent.        *)
THEOREM SentAtMostOnce == Spec => []SentOnce
<1>1. IInv => SentOnce BY DEF IInv, CopiesInv, SentOnce
<1> QED BY <1>1, Invariant, PTL

(* A connection waits for reuse only after the whole request was written   *)
(* to it (ngx_http_upstream_free_keepalive_peer), whatever is taken out,   *)
(* closed or pushed out by newer ones afterwards.                          *)
THEOREM CacheIsWhole == Spec => []CachedWhole
<1>1. IInv => CachedWhole BY DEF IInv
<1> QED BY <1>1, Invariant, PTL

-----------------------------------------------------------------------------
(* When failed servers are picked                                          *)

(* A server that is out counts its fail_timeout from a time that is not    *)
(* before its last pick.  A server in service may have been picked later   *)
(* than it was stamped, so this needs the count of failures.               *)
AgeInv ==
  /\ picked \in [Peer -> Age]
  /\ \A p \in Peer :
       /\ peers[p].fails \in Nat /\ peers[p].age \in Age
       /\ ~Single /\ MaxFails[p] > 0 /\ peers[p].fails >= MaxFails[p]
            => peers[p].age <= picked[p]

Frees == \E b \in Peer, failed \in BOOLEAN :
           peers' = AfterFree(b, failed) /\ UNCHANGED <<servers, picked>>

Gets(b) == /\ \E list \in {servers.primary, servers.backup} : \E tried :
                b \in Best(list, tried) /\ peers' = AfterGet(list, tried, b)
           /\ picked' = [picked EXCEPT ![b] = 0]
           /\ UNCHANGED servers

(* Every step frees one peer, gets one, lets time pass or leaves the table *)
(* alone.                                                                  *)
LEMMA TableMoves ==
  ASSUME IInv, [Next]_vars
  PROVE  \/ UNCHANGED <<servers, peers, picked>>
         \/ Frees
         \/ \E b \in Peer : Gets(b)
         \/ Tick
<1>1. ASSUME NEW c \in Client, req[c].st \notin {"idle", "connect"},
             NEW failed \in BOOLEAN, Release(c, failed), UNCHANGED <<servers, picked>>
      PROVE  Frees
  <2>1. req[c].peer \in Peer BY <1>1 DEF IInv, TypeInv, HoldsInv, Request
  <2> QED BY <1>1, <2>1 DEF Release, Frees
<1>2. ASSUME NEW c \in Client, NEW ft, req[c].st \notin {"idle", "connect"}, NextPeer(c, ft)
      PROVE  Frees
  <2>1. (ft # "http_404") \in BOOLEAN OBVIOUS
  <2> QED BY <1>1, <1>2, <2>1 DEF NextPeer
<1>3. ASSUME NEW c \in Client, req[c].st \notin {"idle", "connect"}, Finalize(c)
      PROVE  Frees
  BY <1>1, <1>3 DEF Finalize
<1>4. ASSUME NEW c \in Client, Connect(c)
      PROVE  \E b \in Peer : Gets(b)
  <2> DEFINE list == List(req[c])
             tried == TriedOf(req[c])
  <2>1. PICK p \in Best(list, tried) : /\ peers' = AfterGet(list, tried, p)
                                       /\ picked' = [picked EXCEPT ![p] = 0]
    BY <1>4 DEF Connect
  <2>2. servers' = servers BY <1>4 DEF Connect
  <2>3. servers \in Upstreams BY DEF IInv, TypeInv
  <2>4. ToSet(list) \subseteq Peer
    BY <2>3, RoundRobinAssumption DEF List, ToSet
  <2>5. p \in Peer BY <2>4 DEF Best, Eligible
  <2>6. list \in {servers.primary, servers.backup} BY DEF List
  <2> HIDE DEF list, tried
  <2> QED BY <2>1, <2>2, <2>5, <2>6 DEF Gets
<1>5. ASSUME NEW c \in Client, Handles(c)
      PROVE  \/ UNCHANGED <<servers, peers, picked>>
             \/ Frees
             \/ \E b \in Peer : Gets(b)
  <2>1. CASE ConnectBusy(c) BY <2>1 DEF ConnectBusy
  <2>2. CASE Connect(c) BY <1>4, <2>2
  <2>3. CASE AttemptBroken(c) BY <1>2, <2>3 DEF AttemptBroken
  <2>4. CASE NoSocket(c) BY <1>3, <2>4 DEF NoSocket
  <2> QED BY <1>5, <2>1, <2>2, <2>3, <2>4 DEF Handles
<1>6. ASSUME NEW c \in Client, NEW ft, HeaderError(c, ft)
      PROVE  UNCHANGED <<servers, peers, picked>> \/ Frees
  <2>1. req[c].st \in {"sending", "waiting"} BY <1>6 DEF HeaderError
  <2>2. NextPeer(c, ft) \/ Reads(c) BY <1>6 DEF HeaderError
  <2> QED BY <1>2, <2>1, <2>2 DEF Reads
<1>7. ASSUME NEW c \in Client, NEW kept \in BOOLEAN, Done(c, kept)
      PROVE  Frees
  BY <1>1, <1>7 DEF Done
<1>8. ASSUME NEW c \in Client,
             \/ BodyTimesOut(c) \/ TimesOut(c) \/ ClosedEarly(c) \/ HeaderInvalid(c)
             \/ ResponseCut(c) \/ ClientAborts(c)
      PROVE  Frees
  BY <1>2, <1>3, <1>8
     DEF BodyTimesOut, TimesOut, ClosedEarly, HeaderInvalid, ResponseCut, ClientAborts, Waits
<1>9. ASSUME NEW c \in Client, Event(c)
      PROVE  UNCHANGED <<servers, peers, picked>> \/ Frees
  <2>1. CASE SendRequest(c) \/ HeaderOk(c) BY <2>1 DEF SendRequest, HeaderOk, Reads
  <2> QED BY <1>6, <1>7, <1>8, <1>9, <2>1 DEF Event
<1>10. ASSUME NEW c \in Client, NEW method \in Serves[c], NEW no_buffering \in BOOLEAN,
              InitRequest(c, method, no_buffering)
       PROVE  UNCHANGED <<servers, peers, picked>>
  BY <1>10 DEF InitRequest
<1>11. ASSUME NEW w \in Worker, KeepaliveClose(w)
       PROVE  UNCHANGED <<servers, peers, picked>>
  BY <1>11 DEF KeepaliveClose
<1>12. CASE TimePasses BY <1>12 DEF TimePasses
<1>13. CASE UNCHANGED vars BY <1>13 DEF vars
<1> QED BY <1>5, <1>9, <1>12, <1>13, <1>10, <1>11 DEF Next

(* A failure stamps the peer; a success only lowers its failures.          *)
LEMMA FreeAges ==
  ASSUME PeersInv, AgeInv, Frees
  PROVE  AgeInv'
<1>1. PICK b \in Peer, failed \in BOOLEAN :
        peers' = AfterFree(b, failed) /\ UNCHANGED <<servers, picked>>
  BY DEF Frees
<1>2. Single' = Single BY <1>1 DEF Single
<1>3. \A p \in Peer \ {b} : peers'[p] = peers[p]
  BY <1>1 DEF AfterFree, PeersInv
<1>4. MaxFails[b] \in Nat /\ FailTimeout \in Nat BY RoundRobinAssumption
<1>5. CASE Single
  <2>1. peers'[b].fails = 0 /\ peers'[b].age = peers[b].age
    BY <1>1, <1>5 DEF AfterFree, PeersInv
  <2> QED BY <1>1, <1>2, <1>3, <1>5, <2>1 DEF AgeInv
<1>6. CASE ~Single /\ failed
  <2>1. /\ peers'[b].fails = Smaller(peers[b].fails + 1, MaxFails[b])
        /\ peers'[b].age = 0
    BY <1>1, <1>6 DEF AfterFree, Failed, PeersInv
  <2>2. peers'[b].fails \in Nat BY <1>4, <2>1 DEF AgeInv, Smaller
  <2>3. 0 \in Age /\ 0 <= picked[b] BY <1>4 DEF AgeInv, Age
  <2> QED BY <1>1, <1>2, <1>3, <2>1, <2>2, <2>3 DEF AgeInv
<1>7. CASE ~Single /\ ~failed
  <2>1. /\ peers'[b].fails = IF peers[b].probing THEN 0 ELSE peers[b].fails
        /\ peers'[b].age = peers[b].age
    BY <1>1, <1>7 DEF AfterFree, PeersInv
  <2> QED BY <1>1, <1>2, <1>3, <1>4, <2>1 DEF AgeInv
<1> QED BY <1>5, <1>6, <1>7

(* A peer that is picked though it failed too often is stamped with the    *)
(* pick; one that did not fail too often is not spoken of.                 *)
LEMMA GetAges ==
  ASSUME PeersInv, AgeInv, NEW b \in Peer, Gets(b)
  PROVE  /\ AgeInv'
         /\ ~Single /\ MaxFails[b] > 0 /\ peers[b].fails >= MaxFails[b]
              => peers[b].age > FailTimeout
<1>1. PICK list, tried : b \in Best(list, tried) /\ peers' = AfterGet(list, tried, b)
  BY DEF Gets
<1>2. ~Single => ~Disabled(b) BY <1>1 DEF Best, Eligible
<1>3. /\ MaxFails[b] \in Nat /\ FailTimeout \in Nat
      /\ peers[b].fails \in Nat /\ peers[b].age \in Int
  BY RoundRobinAssumption DEF AgeInv, Age
<1>4. ~Single /\ MaxFails[b] > 0 /\ peers[b].fails >= MaxFails[b]
        => peers[b].age > FailTimeout
  BY <1>2, <1>3 DEF Disabled
<1>5. \A p \in Peer \ {b} : peers'[p].fails = peers[p].fails /\ peers'[p].age = peers[p].age
  BY <1>1 DEF AfterGet, AfterLoop, PeersInv
<1>6. /\ peers'[b].fails = peers[b].fails
      /\ peers'[b].age = IF ~Single /\ peers[b].age > FailTimeout THEN 0 ELSE peers[b].age
  BY <1>1 DEF AfterGet, AfterLoop, Stamped, PeersInv
<1>7. picked' = [picked EXCEPT ![b] = 0] /\ Single' = Single BY DEF Gets, Single
<1>8. 0 \in Age BY <1>3 DEF Age
<1>9. picked' \in [Peer -> Age] BY <1>7, <1>8 DEF AgeInv
<1>10. ASSUME NEW p \in Peer
       PROVE  /\ peers'[p].fails \in Nat /\ peers'[p].age \in Age
              /\ ~Single /\ MaxFails[p] > 0 /\ peers'[p].fails >= MaxFails[p]
                   => peers'[p].age <= picked'[p]
  <2>1. CASE p = b
    <3>1. picked'[b] = 0 BY <1>7 DEF AgeInv
    <3>2. peers'[b].age \in Age BY <1>6, <1>8 DEF AgeInv
    <3> QED BY <1>4, <1>6, <1>3, <2>1, <3>1, <3>2
  <2>2. CASE p # b
    <3>1. picked'[p] = picked[p] BY <1>7, <2>2 DEF AgeInv
    <3> QED BY <1>5, <2>2, <3>1 DEF AgeInv
  <2> QED BY <2>1, <2>2
<1>11. AgeInv' BY <1>7, <1>9, <1>10 DEF AgeInv
<1> QED BY <1>4, <1>11

(* Time makes both ages grow, up to the same bound.                        *)
LEMMA TickAges ==
  ASSUME PeersInv, AgeInv, Tick
  PROVE  AgeInv'
<1>1. /\ picked' = [p \in Peer |-> Older(picked[p])]
      /\ Single' = Single
  BY DEF Tick, Single
<1>2. \A p \in Peer : peers'[p].fails = peers[p].fails /\ peers'[p].age = Older(peers[p].age)
  BY DEF Tick, PeersInv
<1>3. FailTimeout \in Nat BY RoundRobinAssumption
<1>4. \A a \in Age : Older(a) \in Age BY <1>3 DEF Age, Older
<1>5. \A a, c \in Age : a <= c => Older(a) <= Older(c) BY <1>3 DEF Age, Older
<1>6. picked' \in [Peer -> Age] BY <1>1, <1>4 DEF AgeInv
<1>7. \A p \in Peer : picked'[p] = Older(picked[p]) BY <1>1
<1> QED BY <1>1, <1>2, <1>4, <1>5, <1>6, <1>7 DEF AgeInv

(* A server that failed max_fails times is picked once in a fail_timeout,  *)
(* by whichever worker: ngx_http_upstream_get_peer stamps it under the     *)
(* lock before the attempt is made.                                        *)
THEOREM ProbesAreRare == Spec => ProbesRare
<1> DEFINE A == \A p \in Peer :
                  ( /\ peers'[p].conns > peers[p].conns
                    /\ ~Single /\ MaxFails[p] > 0 /\ peers[p].fails >= MaxFails[p] )
                  => picked[p] > FailTimeout
<1>1. Init => AgeInv
  <2> SUFFICES ASSUME Init PROVE AgeInv OBVIOUS
  <2>1. FailTimeout + 1 \in Age /\ FailTimeout \in Nat
    BY RoundRobinAssumption DEF Age
  <2>2. picked = [p \in Peer |-> FailTimeout + 1] BY DEF Init, RRInit
  <2>3. \A p \in Peer : peers[p].fails = 0 /\ peers[p].age = FailTimeout + 1
    BY DEF Init, RRInit
  <2> QED BY <2>1, <2>2, <2>3 DEF AgeInv
<1>2. IInv /\ AgeInv /\ [Next]_vars => AgeInv'
  <2> SUFFICES ASSUME IInv, AgeInv, [Next]_vars PROVE AgeInv' OBVIOUS
  <2>1. PeersInv BY DEF IInv
  <2>2. CASE UNCHANGED <<servers, peers, picked>>
    BY <2>2 DEF AgeInv, Single
  <2>3. CASE Tick BY <2>1, <2>3, TickAges
  <2> QED BY <2>1, <2>2, <2>3, TableMoves, FreeAges, GetAges
<1>3. IInv /\ AgeInv /\ [Next]_vars => A
  <2> SUFFICES ASSUME IInv, AgeInv, [Next]_vars, NEW p \in Peer,
                      peers'[p].conns > peers[p].conns,
                      ~Single, MaxFails[p] > 0, peers[p].fails >= MaxFails[p]
               PROVE  picked[p] > FailTimeout
    OBVIOUS
  <2>1. PeersInv /\ peers[p].conns \in Int BY DEF IInv, PeersInv
  <2>2. peers'[p].conns # peers[p].conns BY <2>1
  <2>3. ~UNCHANGED <<servers, peers, picked>> BY <2>2
  <2>4. ~Tick BY <2>1, <2>2 DEF Tick, PeersInv
  <2>5. ~Frees
    <3> SUFFICES ASSUME NEW b \in Peer, NEW failed \in BOOLEAN, peers' = AfterFree(b, failed)
                 PROVE  FALSE
      BY DEF Frees
    <3>1. peers'[p].conns = peers[p].conns - (IF p = b THEN 1 ELSE 0)
      BY <2>1, FreeCounts
    <3> QED BY <2>1, <3>1
  <2>6. PICK b \in Peer : Gets(b) BY <2>3, <2>4, <2>5, TableMoves
  <2>7. p = b
    <3>1. PICK list, tried : peers' = AfterGet(list, tried, b) BY <2>6 DEF Gets
    <3>2. peers'[p].conns = peers[p].conns + (IF p = b THEN 1 ELSE 0)
      BY <2>1, <3>1, GetCounts
    <3> QED BY <2>2, <2>1, <3>2
  <2>8. peers[p].age > FailTimeout BY <2>1, <2>6, <2>7, GetAges
  <2>9. /\ peers[p].age <= picked[p] /\ peers[p].age \in Int /\ picked[p] \in Int
        /\ FailTimeout \in Int
    BY RoundRobinAssumption DEF AgeInv, Age
  <2> QED BY <2>8, <2>9
<1>4. Spec => [][A]_vars
  BY <1>1, <1>2, <1>3, Invariant, PTL DEF Spec
<1> QED BY <1>4 DEF ProbesRare

-----------------------------------------------------------------------------
(* Sums over finite sets                                                   *)

(* A set of numbers with 0 and the successor of every member is Nat.       *)
LEMMA NatByInduction ==
  ASSUME NEW S \in SUBSET Nat, 0 \in S, \A n \in S : n + 1 \in S
  PROVE  S = Nat
<1> DEFINE T == Nat \ S
           R == OpToRel(<, Nat)
<1> SUFFICES ASSUME T # {} PROVE FALSE OBVIOUS
<1>1. PICK m \in T : \A k \in T : ~(<<k, m>> \in R)
  <2>1. IsWellFoundedOn(R, Nat) BY NatLessThanWellFounded
  <2>2. T \subseteq Nat OBVIOUS
  <2> HIDE DEF T, R
  <2> QED BY <2>1, <2>2, WFMin
<1>2. m # 0 /\ m - 1 \in Nat /\ (m - 1) + 1 = m OBVIOUS
<1>3. m - 1 \notin T
  <2>1. <<m - 1, m>> \in R BY <1>2 DEF OpToRel
  <2> QED BY <1>1, <2>1
<1>4. (m - 1) + 1 \in S BY <1>2, <1>3
<1> QED BY <1>1, <1>2, <1>4

(* A family of subsets of a finite set that has every set it has all the   *)
(* smaller ones of has them all.                                           *)
LEMMA SubsetInduction ==
  ASSUME NEW S, IsFiniteSet(S), NEW P \in SUBSET (SUBSET S),
         \A T \in SUBSET S : (\A U \in SUBSET T : U # T => U \in P) => T \in P
  PROVE  P = SUBSET S
<1> DEFINE Q == (SUBSET S) \ P
           R == StrictSubsetOrdering(S)
<1> SUFFICES ASSUME Q # {} PROVE FALSE OBVIOUS
<1>1. PICK m \in Q : \A k \in Q : ~(<<k, m>> \in R)
  <2>1. IsWellFoundedOn(R, SUBSET S)
    <3> DEFINE F == FiniteSubsetsOf(S)
               W == SUBSET S
    <3>1. F = W BY FS_FiniteSubsetsOfFinite
    <3>2. IsWellFoundedOn(R, F) BY FS_StrictSubsetOrderingWellFounded
    <3> HIDE DEF F, W, R
    <3>3. IsWellFoundedOn(R, W) BY <3>1, <3>2
    <3> QED BY <3>3 DEF W
  <2>2. Q \subseteq SUBSET S OBVIOUS
  <2> HIDE DEF Q, R
  <2> QED BY <2>1, <2>2, WFMin
<1>2. ASSUME NEW U \in SUBSET m, U # m PROVE U \in P
  <2>1. <<U, m>> \in R BY <1>2 DEF StrictSubsetOrdering
  <2> QED BY <1>1, <2>1
<1> QED BY <1>1, <1>2

Pick(T) == CHOOSE x \in T : TRUE

(* h gives the sum of f over every subset of S, as MapThenSumSet does.     *)
SumsTo(h, f, S) ==
  \A T \in SUBSET S : h[T] = IF T = {} THEN 0 ELSE f[Pick(T)] + h[T \ {Pick(T)}]

(* The same for numbers, so that the sums are numbers too.                 *)
IsSum(h, f, S) ==
  /\ IsFiniteSet(S) /\ h \in [SUBSET S -> Int] /\ \A x \in S : f[x] \in Int
  /\ SumsTo(h, f, S)

LEMMA SumsExist ==
  ASSUME NEW S, IsFiniteSet(S), NEW f, \A x \in S : f[x] \in Int
  PROVE  \E h : IsSum(h, f, S)
<1> DEFINE G(n) == {T \in SUBSET S : Cardinality(T) <= n}
           Upto(h, n) == \A T \in G(n) :
             h[T] = IF T = {} THEN 0 ELSE f[Pick(T)] + h[T \ {Pick(T)}]
           N == {n \in Nat : \E h \in [G(n) -> Int] : Upto(h, n)}
<1>1. \A T \in SUBSET S : IsFiniteSet(T) /\ Cardinality(T) \in Nat
  BY FS_Subset, FS_CardinalityType
<1>2. ASSUME NEW T \in SUBSET S, T # {}
      PROVE  /\ Pick(T) \in S /\ f[Pick(T)] \in Int /\ T \ {Pick(T)} \in SUBSET S
             /\ Cardinality(T \ {Pick(T)}) = Cardinality(T) - 1
  <2>1. Pick(T) \in T BY <1>2 DEF Pick
  <2> QED BY <1>1, <2>1, FS_RemoveElement
<1>3. 0 \in N
  <2> DEFINE h == [T \in G(0) |-> 0]
  <2>1. \A T \in G(0) : T = {} BY <1>1, FS_EmptySet
  <2>2. h \in [G(0) -> Int] /\ Upto(h, 0) BY <2>1
  <2> HIDE DEF h
  <2> QED BY <2>2
<1>4. ASSUME NEW n \in N PROVE n + 1 \in N
  <2>1. n \in Nat /\ n + 1 \in Nat OBVIOUS
  <2>2. PICK h \in [G(n) -> Int] : Upto(h, n) OBVIOUS
  <2> DEFINE g == [T \in G(n + 1) |->
                     IF T = {} THEN 0 ELSE f[Pick(T)] + h[T \ {Pick(T)}]]
  <2>3. ASSUME NEW T \in G(n + 1), T # {}
        PROVE  T \ {Pick(T)} \in G(n) /\ f[Pick(T)] \in Int
    BY <1>1, <1>2, <2>1, <2>3
  <2>4. g \in [G(n + 1) -> Int]
    <3>1. \A T \in G(n) : h[T] \in Int BY <2>2
    <3> HIDE DEF G
    <3> QED BY <2>3, <3>1
  <2>5. \A T \in G(n) : T \in G(n + 1) /\ g[T] = h[T]
    <3>1. \A T \in G(n) : T \in G(n + 1) BY <1>1, <2>1
    <3> HIDE DEF G
    <3> QED BY <2>2, <3>1
  <2>6. Upto(g, n + 1)
    <3> SUFFICES ASSUME NEW T \in G(n + 1)
                 PROVE  g[T] = IF T = {} THEN 0 ELSE f[Pick(T)] + g[T \ {Pick(T)}]
      OBVIOUS
    <3>1. T # {} => g[T \ {Pick(T)}] = h[T \ {Pick(T)}] BY <2>3, <2>5
    <3> HIDE DEF G
    <3> QED BY <3>1
  <2> HIDE DEF g, G, Upto
  <2> QED BY <2>1, <2>4, <2>6
<1>5. Cardinality(S) \in N
  <2> HIDE DEF N
  <2>1. N \in SUBSET Nat BY DEF N
  <2>2. N = Nat BY <1>3, <1>4, <2>1, NatByInduction
  <2> QED BY <1>1, <2>2
<1>6. G(Cardinality(S)) = SUBSET S BY <1>1, FS_Subset
<1>7. PICK h \in [SUBSET S -> Int] : Upto(h, Cardinality(S))
  <2> HIDE DEF G, Upto
  <2> QED BY <1>5, <1>6
<1>8. SumsTo(h, f, S) BY <1>6, <1>7 DEF SumsTo
<1> QED BY <1>8 DEF IsSum

(* Sums of the same numbers are the same.                                  *)
LEMMA SumsAgree ==
  ASSUME NEW S, IsFiniteSet(S), NEW f, NEW e, NEW h, NEW g,
         SumsTo(h, f, S), SumsTo(g, e, S), \A x \in S : f[x] = e[x]
  PROVE  h[S] = g[S]
<1> DEFINE P == {T \in SUBSET S : h[T] = g[T]}
<1>1. ASSUME NEW T \in SUBSET S, \A U \in SUBSET T : U # T => U \in P
      PROVE  T \in P
  <2>1. CASE T = {} BY <2>1 DEF SumsTo
  <2>2. CASE T # {}
    <3>1. Pick(T) \in T BY <2>2 DEF Pick
    <3>2. h[T] = f[Pick(T)] + h[T \ {Pick(T)}] BY <2>2 DEF SumsTo
    <3>3. g[T] = e[Pick(T)] + g[T \ {Pick(T)}] BY <2>2 DEF SumsTo
    <3>4. T \ {Pick(T)} \in P BY <1>1, <3>1
    <3>5. h[T \ {Pick(T)}] = g[T \ {Pick(T)}] BY <3>4
    <3>6. f[Pick(T)] = e[Pick(T)] BY <3>1
    <3> QED BY <3>2, <3>3, <3>5, <3>6
  <2> QED BY <2>1, <2>2
<1>2. P = SUBSET S
  <2> HIDE DEF P
  <2>1. P \in SUBSET (SUBSET S) BY DEF P
  <2> QED BY <1>1, <2>1, SubsetInduction
<1> QED BY <1>2

(* One more element adds its number, whichever element is picked first.    *)
Adds(h, f, S) ==
  \A T \in SUBSET S : \A x \in S : x \notin T => h[T \cup {x}] = h[T] + f[x]

LEMMA SumsAdd ==
  ASSUME NEW S, NEW f, NEW h, IsSum(h, f, S)
  PROVE  Adds(h, f, S)
<1> USE DEF IsSum
<1> DEFINE P == {A \in SUBSET S : \A y \in S \ A : h[A \cup {y}] = h[A] + f[y]}
<1>1. ASSUME NEW A \in SUBSET S, \A U \in SUBSET A : U # A => U \in P
      PROVE  A \in P
  <2> SUFFICES ASSUME NEW y \in S \ A PROVE h[A \cup {y}] = h[A] + f[y]
    OBVIOUS
  <2> DEFINE B == A \cup {y}
             z == Pick(B)
             D == B \ {z}
  <2>1. z \in B /\ B \in SUBSET S BY DEF Pick
  <2>2. h[B] = f[z] + h[D] BY <2>1 DEF SumsTo
  <2> HIDE DEF z
  <2>3. f[z] \in Int /\ f[y] \in Int /\ h[A] \in Int BY <2>1
  <2> SUFFICES h[B] = h[A] + f[y] OBVIOUS
  <2>4. CASE z = y
    <3>1. D = A BY <2>4
    <3> HIDE DEF B, D
    <3> QED BY <2>2, <2>3, <2>4, <3>1
  <2>5. CASE z # y
    <3> DEFINE C == A \ {z}
               Cz == C \cup {z}
               Cy == C \cup {y}
    <3>1. C \in SUBSET A /\ C # A /\ z \in S \ C /\ y \in S \ C BY <2>1, <2>5
    <3>2. C \in P BY <1>1, <3>1
    <3>3. h[Cz] = h[C] + f[z] /\ h[Cy] = h[C] + f[y] BY <3>1, <3>2
    <3>4. Cz = A /\ Cy = D BY <2>1, <2>5
    <3>5. h[C] \in Int BY <3>1
    <3> HIDE DEF B, C, D, Cz, Cy
    <3>6. h[A] = h[C] + f[z] /\ h[D] = h[C] + f[y] BY <3>3, <3>4
    <3> QED BY <2>2, <2>3, <3>5, <3>6
  <2> QED BY <2>4, <2>5
<1>2. P = SUBSET S
  <2> HIDE DEF P
  <2>1. P \in SUBSET (SUBSET S) BY DEF P
  <2> QED BY <1>1, <2>1, SubsetInduction
<1>3. \A A \in SUBSET S : A \in P BY <1>2
<1> QED BY <1>3 DEF Adds

(* If the elements of E each gain what d says, and one of them pays t, the *)
(* sum has gained the sum of d over E less t.                              *)
LEMMA SumsMove ==
  ASSUME NEW S, NEW E \in SUBSET S, NEW b \in E, NEW t \in Int,
         NEW f, NEW e, NEW d, NEW h, NEW g, NEW k,
         IsSum(h, f, S), IsSum(g, e, S), IsSum(k, d, S),
         \A x \in S : e[x] = f[x] + (IF x \in E THEN d[x] ELSE 0) - (IF x = b THEN t ELSE 0)
  PROVE  g[S] = h[S] + k[E] - t
<1> DEFINE due(T) == IF b \in T THEN t ELSE 0
           P == {T \in SUBSET S : g[T] = h[T] + k[T \cap E] - due(T)}
<1>a. Adds(h, f, S) /\ Adds(g, e, S) /\ Adds(k, d, S) BY SumsAdd
<1> USE DEF IsSum
<1>1. ASSUME NEW T \in SUBSET S, \A U \in SUBSET T : U # T => U \in P
      PROVE  T \in P
  <2>1. CASE T = {}
    <3>1. g[{}] = 0 /\ h[{}] = 0 /\ k[{}] = 0 BY DEF SumsTo
    <3>2. T \cap E = {} BY <2>1
    <3> QED BY <2>1, <3>1, <3>2
  <2>2. CASE T # {}
    <3>1. PICK x \in T : TRUE BY <2>2
    <3> DEFINE U == T \ {x}
               Ux == U \cup {x}
               V == U \cap E
               Vx == V \cup {x}
               W == T \cap E
    <3>2. /\ U \in SUBSET S /\ x \in S \ U /\ Ux = T /\ U \in SUBSET T /\ U # T
          /\ V \in SUBSET S /\ x \in S \ V
          /\ x \in E => Vx = W
          /\ x \notin E => V = W
      BY <3>1
    <3>3. U \in P BY <1>1, <3>2
    <3>4. g[U] = h[U] + k[V] - due(U) BY <3>3
    <3>5. e[x] = f[x] + (IF x \in E THEN d[x] ELSE 0) - (IF x = b THEN t ELSE 0)
      BY <3>2
    <3>6. f[x] \in Int /\ d[x] \in Int BY <3>2
    <3>8. due(T) = due(U) + (IF x = b THEN t ELSE 0) BY <3>2
    <3>9. due(U) \in Int /\ due(T) \in Int OBVIOUS
    <3> HIDE DEF due, U, V
    <3>10. g[Ux] = g[U] + e[x] BY <1>a, <3>2 DEF Adds
    <3>11. h[Ux] = h[U] + f[x] BY <1>a, <3>2 DEF Adds
    <3>12. k[Vx] = k[V] + d[x] BY <1>a, <3>2 DEF Adds
    <3>13. g[U] \in Int /\ h[U] \in Int /\ k[V] \in Int BY <3>2
    <3> HIDE DEF Ux, Vx
    <3>14. g[T] = g[U] + e[x] /\ h[T] = h[U] + f[x] BY <3>2, <3>10, <3>11
    <3>15. k[W] = k[V] + (IF x \in E THEN d[x] ELSE 0)
      <4> HIDE DEF W
      <4> QED BY <3>2, <3>6, <3>12, <3>13
    <3>16. g[T] = h[T] + k[W] - due(T)
      <4> HIDE DEF W
      <4> QED BY <3>4, <3>5, <3>6, <3>8, <3>9, <3>13, <3>14, <3>15
    <3> QED BY <3>16
  <2> QED BY <2>1, <2>2
<1>2. P = SUBSET S
  <2> HIDE DEF P
  <2>1. P \in SUBSET (SUBSET S) BY DEF P
  <2> QED BY <1>1, <2>1, SubsetInduction
<1>3. S \in P BY <1>2
<1>4. S \cap E = E /\ due(S) = t OBVIOUS
<1> QED BY <1>3, <1>4

CurrentSum(t, S) == MapThenSumSet(LAMBDA p : t[p].current_weight, S)

EffectiveSum(t, S) == MapThenSumSet(LAMBDA p : t[p].effective_weight, S)

(* Both are the sum any h that adds up the same numbers gives.             *)
LEMMA CurrentSumIs ==
  ASSUME NEW S, NEW t, NEW f, NEW h, IsSum(h, f, S),
         \A p \in S : f[p] = t[p].current_weight
  PROVE  CurrentSum(t, S) = h[S]
<1> USE DEF IsSum
<1> DEFINE Eqn(u) == u = [T \in SUBSET S |->
                           IF T = {} THEN 0
                           ELSE t[Pick(T)].current_weight + u[T \ {Pick(T)}]]
           v == CHOOSE u : Eqn(u)
           e == [p \in S |-> t[p].current_weight]
<1>1. \A T \in SUBSET S : T # {} => Pick(T) \in S BY DEF Pick
<1>2. Eqn(h) BY <1>1 DEF SumsTo
<1>3. Eqn(v) BY <1>2
<1>4. CurrentSum(t, S) = v[S]
  BY DEF CurrentSum, MapThenSumSet, MapThenFoldSet, Pick
<1> HIDE DEF v
<1>5. SumsTo(v, e, S) BY <1>1, <1>3 DEF SumsTo
<1>6. \A x \in S : e[x] = f[x] OBVIOUS
<1> HIDE DEF e
<1>7. v[S] = h[S] BY <1>5, <1>6, SumsAgree
<1> QED BY <1>4, <1>7

LEMMA EffectiveSumIs ==
  ASSUME NEW S, NEW t, NEW f, NEW h, IsSum(h, f, S),
         \A p \in S : f[p] = t[p].effective_weight
  PROVE  EffectiveSum(t, S) = h[S]
<1> USE DEF IsSum
<1> DEFINE Eqn(u) == u = [T \in SUBSET S |->
                           IF T = {} THEN 0
                           ELSE t[Pick(T)].effective_weight + u[T \ {Pick(T)}]]
           v == CHOOSE u : Eqn(u)
           e == [p \in S |-> t[p].effective_weight]
<1>1. \A T \in SUBSET S : T # {} => Pick(T) \in S BY DEF Pick
<1>2. Eqn(h) BY <1>1 DEF SumsTo
<1>3. Eqn(v) BY <1>2
<1>4. EffectiveSum(t, S) = v[S]
  BY DEF EffectiveSum, MapThenSumSet, MapThenFoldSet, Pick
<1> HIDE DEF v
<1>5. SumsTo(v, e, S) BY <1>1, <1>3 DEF SumsTo
<1>6. \A x \in S : e[x] = f[x] OBVIOUS
<1> HIDE DEF e
<1>7. v[S] = h[S] BY <1>5, <1>6, SumsAgree
<1> QED BY <1>4, <1>7

(* A table in which the same peers have the same current weights           *)
LEMMA CurrentSumKept ==
  ASSUME NEW S, IsFiniteSet(S), NEW t, NEW u,
         \A p \in S : t[p].current_weight \in Int /\ u[p].current_weight = t[p].current_weight
  PROVE  CurrentSum(u, S) = CurrentSum(t, S)
<1> DEFINE f == [p \in S |-> t[p].current_weight]
<1>1. \A p \in S : f[p] \in Int /\ f[p] = t[p].current_weight /\ f[p] = u[p].current_weight
  OBVIOUS
<1> HIDE DEF f
<1>2. PICK h : IsSum(h, f, S) BY <1>1, SumsExist
<1>3. CurrentSum(t, S) = h[S] BY <1>1, <1>2, CurrentSumIs
<1>4. CurrentSum(u, S) = h[S] BY <1>1, <1>2, CurrentSumIs
<1> QED BY <1>3, <1>4

(* What is won and paid in a round leaves the sum as it was.               *)
LEMMA CurrentSumPaid ==
  ASSUME NEW S, IsFiniteSet(S), NEW E \in SUBSET S, NEW b \in E, NEW t, NEW u,
         \A p \in S : t[p].current_weight \in Int /\ t[p].effective_weight \in Int,
         \A p \in S : u[p].current_weight =
                        t[p].current_weight + (IF p \in E THEN t[p].effective_weight ELSE 0)
                          - (IF p = b THEN EffectiveSum(t, E) ELSE 0)
  PROVE  CurrentSum(u, S) = CurrentSum(t, S)
<1> DEFINE paid == EffectiveSum(t, E)
           f == [p \in S |-> t[p].current_weight]
           d == [p \in S |-> t[p].effective_weight]
           e == [p \in S |-> u[p].current_weight]
<1> HIDE DEF paid
<1>1. \A p \in S : f[p] \in Int /\ f[p] = t[p].current_weight
  OBVIOUS
<1>2. \A p \in S : d[p] \in Int /\ d[p] = t[p].effective_weight
  OBVIOUS
<1>3. \A p \in S : e[p] = u[p].current_weight OBVIOUS
<1>4. \A p \in S : e[p] = f[p] + (IF p \in E THEN d[p] ELSE 0) - (IF p = b THEN paid ELSE 0)
  BY DEF paid
<1> HIDE DEF f, d, e
<1>5. IsFiniteSet(E) BY FS_Subset
<1>6. PICK h : IsSum(h, f, S) BY <1>1, SumsExist
<1>7. PICK k : IsSum(k, d, S) BY <1>2, SumsExist
<1>8. \A p \in E : d[p] \in Int /\ d[p] = t[p].effective_weight BY <1>2
<1>9. PICK j : IsSum(j, d, E) BY <1>5, <1>8, SumsExist
<1>10. paid = j[E] BY <1>8, <1>9, EffectiveSumIs DEF paid
<1>11. j[E] = k[E]
  <2>1. SumsTo(k, d, E) BY <1>7 DEF IsSum, SumsTo
  <2>2. SumsTo(j, d, E) BY <1>9 DEF IsSum
  <2>3. \A x \in E : d[x] = d[x] OBVIOUS
  <2> QED BY <1>5, <2>1, <2>2, <2>3, SumsAgree
<1>12. k[E] \in Int BY <1>7 DEF IsSum
<1>13. paid \in Int BY <1>10, <1>11, <1>12
<1>14. \A p \in S : e[p] \in Int BY <1>1, <1>2, <1>4, <1>13
<1>15. PICK g : IsSum(g, e, S) BY <1>14, SumsExist
<1>16. g[S] = h[S] + k[E] - paid
  BY <1>4, <1>6, <1>7, <1>13, <1>15, SumsMove
<1>17. h[S] \in Int BY <1>6 DEF IsSum
<1>18. g[S] = h[S] BY <1>10, <1>11, <1>12, <1>16, <1>17
<1>19. CurrentSum(t, S) = h[S] BY <1>1, <1>6, CurrentSumIs
<1>20. CurrentSum(u, S) = g[S] BY <1>3, <1>15, CurrentSumIs
<1> QED BY <1>18, <1>19, <1>20

-----------------------------------------------------------------------------
(* The table of peers and the weights in it                                *)

(* A row of the table, of which ConnsExact knows that conns is a Nat       *)
Row == [fails : Nat, age : Age, probing : BOOLEAN,
        effective_weight : Int, current_weight : Int, conns : Int]

TableInv ==
  /\ peers \in [Peer -> Row]
  /\ picked \in [Peer -> Age]
  /\ \A p \in Peer : peers[p].effective_weight \in 0 .. Weight[p]
  /\ \A list \in {servers.primary, servers.backup} : CurrentSum(peers, ToSet(list)) = 0

(* The peers of a list                                                     *)
LEMMA ListPeers ==
  ASSUME servers \in Upstreams, NEW list \in {servers.primary, servers.backup}
  PROVE  ToSet(list) \subseteq Peer /\ IsFiniteSet(ToSet(list))
<1>1. ToSet(list) \subseteq Peer BY RoundRobinAssumption DEF ToSet
<1> QED BY <1>1, FS_Subset, RoundRobinAssumption

(* A step that leaves all current weights alone keeps their sums.          *)
LEMMA SumsKept ==
  ASSUME TableInv, servers \in Upstreams, servers' = servers,
         \A p \in Peer : peers'[p].current_weight = peers[p].current_weight
  PROVE  \A list \in {servers'.primary, servers'.backup} : CurrentSum(peers', ToSet(list)) = 0
<1> SUFFICES ASSUME NEW list \in {servers.primary, servers.backup}
             PROVE  CurrentSum(peers', ToSet(list)) = 0
  OBVIOUS
<1> DEFINE S == ToSet(list)
<1>1. S \subseteq Peer /\ IsFiniteSet(S) BY ListPeers
<1>2. \A p \in S : /\ peers[p].current_weight \in Int
                   /\ peers'[p].current_weight = peers[p].current_weight
  BY <1>1 DEF TableInv, Row
<1>3. CurrentSum(peers, S) = 0 BY DEF TableInv
<1> HIDE DEF S
<1>4. CurrentSum(peers', S) = CurrentSum(peers, S) BY <1>1, <1>2, CurrentSumKept
<1> QED BY <1>3, <1>4 DEF S

(* A failure takes weight off, but not below 0; nothing else changes       *)
(* weights.                                                                *)
LEMMA FreeTable ==
  ASSUME TableInv, servers \in Upstreams, Frees
  PROVE  TableInv'
<1>1. PICK b \in Peer, failed \in BOOLEAN :
        peers' = AfterFree(b, failed) /\ UNCHANGED <<servers, picked>>
  BY DEF Frees
<1> DEFINE s == peers[b]
           noted == IF Single THEN [s EXCEPT !.fails = 0]
                    ELSE IF failed THEN Failed(b, s)
                    ELSE [s EXCEPT !.fails = IF s.probing THEN 0 ELSE @]
<1>2. s \in Row /\ s.effective_weight \in 0 .. Weight[b] BY DEF TableInv
<1>3. Weight[b] \in Nat /\ MaxFails[b] \in Nat /\ FailTimeout \in Nat
  BY RoundRobinAssumption
<1>4. 0 \in Age BY <1>3 DEF Age
<1>5. /\ noted \in Row /\ noted.effective_weight \in 0 .. Weight[b]
      /\ noted.current_weight = s.current_weight
  <2> HIDE DEF s
  <2>1. CASE Single BY <1>2, <2>1 DEF Row
  <2>2. CASE ~Single /\ failed
    <3> DEFINE left == Larger(0, IF MaxFails[b] > 0
                                 THEN s.effective_weight - Weight[b] \div MaxFails[b]
                                 ELSE s.effective_weight)
               fails == Smaller(s.fails + 1, MaxFails[b])
    <3>1. MaxFails[b] > 0 => Weight[b] \div MaxFails[b] \in Nat BY <1>3
    <3>2. left \in 0 .. Weight[b] BY <1>2, <1>3, <3>1 DEF Larger
    <3>3. fails \in Nat BY <1>2, <1>3 DEF Smaller, Row
    <3>4. noted = [s EXCEPT !.fails = fails, !.age = 0, !.probing = FALSE,
                            !.effective_weight = left]
      BY <1>2, <2>2 DEF Failed, Row
    <3> HIDE DEF left, fails, noted
    <3>5. left \in Int BY <1>3, <3>2
    <3>6. noted \in Row BY <1>2, <1>4, <3>3, <3>4, <3>5 DEF Row
    <3>7. noted.effective_weight = left /\ noted.current_weight = s.current_weight
      BY <1>2, <3>4 DEF Row
    <3> QED BY <3>2, <3>6, <3>7
  <2>3. CASE ~Single /\ ~failed BY <1>2, <2>3 DEF Row
  <2> QED BY <2>1, <2>2, <2>3
<1>6. peers' = [peers EXCEPT ![b] = [noted EXCEPT !.conns = @ - 1]]
  BY <1>1 DEF AfterFree
<1> HIDE DEF noted
<1>7. /\ [noted EXCEPT !.conns = @ - 1] \in Row
      /\ [noted EXCEPT !.conns = @ - 1].effective_weight \in 0 .. Weight[b]
      /\ [noted EXCEPT !.conns = @ - 1].current_weight = s.current_weight
  BY <1>5 DEF Row
<1>8. peers' \in [Peer -> Row] BY <1>6, <1>7 DEF TableInv
<1>9. \A p \in Peer : /\ peers'[p].effective_weight \in 0 .. Weight[p]
                      /\ peers'[p].current_weight = peers[p].current_weight
  BY <1>6, <1>7 DEF TableInv
<1>10. \A list \in {servers'.primary, servers'.backup} : CurrentSum(peers', ToSet(list)) = 0
  BY <1>1, <1>9, SumsKept
<1> QED BY <1>1, <1>8, <1>9, <1>10 DEF TableInv

(* Time changes ages only.                                                 *)
LEMMA TickTable ==
  ASSUME TableInv, servers \in Upstreams, Tick
  PROVE  TableInv'
<1>1. /\ peers' = [p \in Peer |-> [peers[p] EXCEPT !.age = Older(@)]]
      /\ picked' = [p \in Peer |-> Older(picked[p])]
      /\ servers' = servers
  BY DEF Tick
<1>2. FailTimeout \in Nat BY RoundRobinAssumption
<1>3. \A a \in Age : Older(a) \in Age BY <1>2 DEF Age, Older
<1>4. ASSUME NEW p \in Peer
      PROVE  /\ [peers[p] EXCEPT !.age = Older(@)] \in Row
             /\ [peers[p] EXCEPT !.age = Older(@)].effective_weight = peers[p].effective_weight
             /\ [peers[p] EXCEPT !.age = Older(@)].current_weight = peers[p].current_weight
  BY <1>3 DEF TableInv, Row
<1>5. peers' \in [Peer -> Row] BY <1>1, <1>4
<1>6. picked' \in [Peer -> Age] BY <1>1, <1>3 DEF TableInv
<1>7. \A p \in Peer : /\ peers'[p].effective_weight = peers[p].effective_weight
                      /\ peers'[p].current_weight = peers[p].current_weight
  BY <1>1, <1>4
<1>8. \A list \in {servers'.primary, servers'.backup} : CurrentSum(peers', ToSet(list)) = 0
  BY <1>1, <1>7, SumsKept
<1> QED BY <1>5, <1>6, <1>7, <1>8 DEF TableInv


(* The rows of a table after get                                           *)
LEMMA GetRows ==
  ASSUME TableInv, NEW list, NEW tried, NEW b \in Peer, EffectiveSum(peers, Eligible(list, tried)) \in Int,
         peers' = AfterGet(list, tried, b)
  PROVE  /\ peers' \in [Peer -> Row]
         /\ \A p \in Peer : peers'[p].effective_weight \in 0 .. Weight[p]
         /\ \A p \in Peer : Single => peers'[p].current_weight = peers[p].current_weight
         /\ \A p \in Peer : ~Single =>
              peers'[p].current_weight =
                IF p \in Eligible(list, tried)
                THEN Raised(p) - (IF p = b THEN EffectiveSum(peers, Eligible(list, tried)) ELSE 0)
                ELSE peers[p].current_weight
<1> DEFINE E == Eligible(list, tried)
           total == EffectiveSum(peers, E)
           Looped(p) == IF p \in E /\ ~Single
                        THEN AfterLoop(list, tried, b, p) ELSE peers[p]
           Won(s) == [(IF Single THEN s ELSE Stamped(s)) EXCEPT !.conns = @ + 1]
<1>1. TotalWeight(list, tried) = total BY DEF TotalWeight, EffectiveSum
<1>2. total \in Int OBVIOUS
<1> HIDE DEF E, total
<1>3. 0 \in Age BY RoundRobinAssumption DEF Age
<1>4. ASSUME NEW p \in Peer
      PROVE  /\ Looped(p) \in Row
             /\ Looped(p).effective_weight \in 0 .. Weight[p]
             /\ Looped(p).current_weight =
                  IF p \in E /\ ~Single THEN Raised(p) - (IF p = b THEN total ELSE 0)
                  ELSE peers[p].current_weight
  <2> DEFINE s == peers[p]
             c == Raised(p) - (IF p = b THEN total ELSE 0)
             w == IF s.effective_weight < Weight[p] THEN s.effective_weight + 1
                  ELSE s.effective_weight
  <2>1. s \in Row /\ s.effective_weight \in 0 .. Weight[p] BY DEF TableInv
  <2>2. CASE ~(p \in E /\ ~Single) BY <2>1, <2>2
  <2>3. CASE p \in E /\ ~Single
    <3>1. c \in Int BY <1>2, <2>1 DEF Raised, Row
    <3>2. Weight[p] \in Nat BY RoundRobinAssumption
    <3>3. w \in 0 .. Weight[p] BY <2>1, <3>2
    <3>4. w \in Int BY <3>2, <3>3
    <3>5. Looped(p) = [s EXCEPT !.current_weight = c, !.effective_weight = w]
      BY <1>1, <2>1, <2>3 DEF AfterLoop, Row
    <3> HIDE DEF s, c, w, Looped
    <3>6. Looped(p) \in Row BY <2>1, <3>1, <3>4, <3>5 DEF Row
    <3>7. Looped(p).current_weight = c /\ Looped(p).effective_weight = w
      BY <2>1, <3>5 DEF Row
    <3> QED BY <2>3, <3>3, <3>6, <3>7 DEF c
  <2> QED BY <2>2, <2>3
<1>5. ASSUME NEW s \in Row
      PROVE  /\ Won(s) \in Row
             /\ Won(s).effective_weight = s.effective_weight
             /\ Won(s).current_weight = s.current_weight
  <2> DEFINE m == IF Single THEN s ELSE Stamped(s)
  <2>1. s.age > FailTimeout => [s EXCEPT !.age = 0, !.probing = TRUE] \in Row
    BY <1>3, <1>5 DEF Row
  <2>2. /\ m \in Row
        /\ m.effective_weight = s.effective_weight
        /\ m.current_weight = s.current_weight
    BY <1>5, <2>1 DEF Stamped, Row
  <2>3. Won(s) = [m EXCEPT !.conns = @ + 1] OBVIOUS
  <2> HIDE DEF m, Won
  <2> QED BY <2>2, <2>3 DEF Row
<1>6. peers' = [p \in Peer |-> IF p = b THEN Won(Looped(p)) ELSE Looped(p)]
  BY DEF AfterGet, E
<1> HIDE DEF Looped, Won
<1>7. \A p \in Peer : /\ peers'[p] \in Row
                      /\ peers'[p].effective_weight = Looped(p).effective_weight
                      /\ peers'[p].current_weight = Looped(p).current_weight
  BY <1>4, <1>5, <1>6
<1>8. peers' \in [Peer -> Row] BY <1>6, <1>7
<1>9. \A p \in Peer : peers'[p].effective_weight \in 0 .. Weight[p] BY <1>4, <1>7
<1>10. \A p \in Peer :
         peers'[p].current_weight =
           IF p \in E /\ ~Single THEN Raised(p) - (IF p = b THEN total ELSE 0)
           ELSE peers[p].current_weight
  BY <1>4, <1>7
<1> QED BY <1>8, <1>9, <1>10 DEF E, total

(* A sum of weights is a number.                                           *)
LEMMA EffectiveSumType ==
  ASSUME TableInv, NEW E \in SUBSET Peer
  PROVE  EffectiveSum(peers, E) \in Int
<1> DEFINE f == [p \in E |-> peers[p].effective_weight]
<1>1. IsFiniteSet(E) BY FS_Subset, RoundRobinAssumption
<1>2. \A p \in E : f[p] \in Int /\ f[p] = peers[p].effective_weight
  BY DEF TableInv, Row
<1> HIDE DEF f
<1>3. PICK h : IsSum(h, f, E) BY <1>1, <1>2, SumsExist
<1>4. EffectiveSum(peers, E) = h[E] BY <1>2, <1>3, EffectiveSumIs
<1> QED BY <1>3, <1>4 DEF IsSum

(* The peers that were looked at gain their weights and the one that is    *)
(* picked pays them all; the other list is left alone.                     *)
LEMMA GetTable ==
  ASSUME TableInv, servers \in Upstreams, NEW b \in Peer, Gets(b)
  PROVE  TableInv'
<1>1. /\ picked' = [picked EXCEPT ![b] = 0] /\ servers' = servers
  BY DEF Gets
<1>0. PICK chosen \in {servers.primary, servers.backup} : \E tried :
        b \in Best(chosen, tried) /\ peers' = AfterGet(chosen, tried, b)
  BY DEF Gets
<1>2. PICK tried : b \in Best(chosen, tried) /\ peers' = AfterGet(chosen, tried, b)
  BY <1>0
<1> DEFINE E == Eligible(chosen, tried)
           total == EffectiveSum(peers, E)
<1>3. ToSet(chosen) \subseteq Peer BY ListPeers
<1>4. E \subseteq ToSet(chosen) /\ b \in E BY <1>2 DEF Best, Eligible
<1>5. total \in Int BY <1>3, <1>4, EffectiveSumType
<1>6. /\ peers' \in [Peer -> Row]
      /\ \A p \in Peer : peers'[p].effective_weight \in 0 .. Weight[p]
      /\ \A p \in Peer : Single => peers'[p].current_weight = peers[p].current_weight
      /\ \A p \in Peer : ~Single =>
           peers'[p].current_weight =
             IF p \in E THEN Raised(p) - (IF p = b THEN total ELSE 0)
             ELSE peers[p].current_weight
  BY <1>2, <1>5, GetRows
<1> HIDE DEF E, total
<1>7. 0 \in Age BY RoundRobinAssumption DEF Age
<1>8. picked' \in [Peer -> Age] BY <1>1, <1>7 DEF TableInv
<1>9. ASSUME NEW list \in {servers.primary, servers.backup}
      PROVE  CurrentSum(peers', ToSet(list)) = 0
  <2> DEFINE S == ToSet(list)
  <2>1. S \subseteq Peer /\ IsFiniteSet(S) BY ListPeers
  <2>2. CurrentSum(peers, S) = 0 BY DEF TableInv
  <2>3. \A p \in S : peers[p].current_weight \in Int /\ peers[p].effective_weight \in Int
    BY <2>1 DEF TableInv, Row
  <2>4. CASE Single \/ S \cap ToSet(chosen) = {}
    <3>1. \A p \in S : peers'[p].current_weight = peers[p].current_weight
      BY <1>4, <1>6, <2>1, <2>4
    <3> HIDE DEF S
    <3>2. CurrentSum(peers', S) = CurrentSum(peers, S) BY <2>1, <2>3, <3>1, CurrentSumKept
    <3> QED BY <2>2, <3>2 DEF S
  <2>5. CASE ~Single /\ list = chosen
    <3>1. E \in SUBSET S /\ b \in E BY <1>4, <2>5
    <3>2. \A p \in S : peers'[p].current_weight =
            peers[p].current_weight + (IF p \in E THEN peers[p].effective_weight ELSE 0)
              - (IF p = b THEN total ELSE 0)
      <4> SUFFICES ASSUME NEW p \in S
                   PROVE  peers'[p].current_weight =
                            peers[p].current_weight
                              + (IF p \in E THEN peers[p].effective_weight ELSE 0)
                              - (IF p = b THEN total ELSE 0)
        OBVIOUS
      <4>1. p \in Peer BY <2>1
      <4>2. CASE p \in E BY <1>5, <1>6, <2>3, <2>5, <4>1, <4>2 DEF Raised
      <4>3. CASE p \notin E
        <5>1. p # b BY <1>4, <4>3
        <5> QED BY <1>6, <2>3, <2>5, <4>1, <4>3, <5>1
      <4> QED BY <4>2, <4>3
    <3> HIDE DEF S
    <3>3. CurrentSum(peers', S) = CurrentSum(peers, S)
      BY <2>1, <2>3, <3>1, <3>2, CurrentSumPaid DEF total
    <3> QED BY <2>2, <3>3 DEF S
  <2>6. list = chosen \/ S \cap ToSet(chosen) = {}
    <3>1. ToSet(servers.primary) \cap ToSet(servers.backup) = {} BY RoundRobinAssumption
    <3>2. \/ list = chosen
          \/ list = servers.primary /\ chosen = servers.backup
          \/ list = servers.backup /\ chosen = servers.primary
      OBVIOUS
    <3> QED BY <3>1, <3>2
  <2> QED BY <2>4, <2>5, <2>6
<1> QED BY <1>1, <1>6, <1>8, <1>9 DEF TableInv

LEMMA InitTable == Init => TableInv
<1> SUFFICES ASSUME Init PROVE TableInv OBVIOUS
<1> DEFINE row(p) == [fails |-> 0, age |-> FailTimeout + 1, probing |-> FALSE,
                      effective_weight |-> Weight[p], current_weight |-> 0, conns |-> 0]
<1>1. /\ servers \in Upstreams /\ peers = [p \in Peer |-> row(p)]
      /\ picked = [p \in Peer |-> FailTimeout + 1]
  BY DEF Init, RRInit
<1>2. FailTimeout + 1 \in Age BY RoundRobinAssumption DEF Age
<1>3. \A p \in Peer : Weight[p] \in Nat BY RoundRobinAssumption
<1>4. \A p \in Peer : row(p) \in Row BY <1>2, <1>3 DEF Row
<1>5. peers \in [Peer -> Row] BY <1>1, <1>4
<1>6. \A p \in Peer : /\ peers[p].effective_weight \in 0 .. Weight[p]
                      /\ peers[p].current_weight = 0
  BY <1>1, <1>3
<1>7. ASSUME NEW list \in {servers.primary, servers.backup}
      PROVE  CurrentSum(peers, ToSet(list)) = 0
  <2> DEFINE S == ToSet(list)
             f == [p \in S |-> 0]
             zero == [T \in SUBSET S |-> 0]
  <2>1. S \subseteq Peer /\ IsFiniteSet(S) BY <1>1, ListPeers
  <2>2. \A T \in SUBSET S : T # {} => Pick(T) \in S BY DEF Pick
  <2>3. SumsTo(zero, f, S) BY <2>2 DEF SumsTo
  <2>4. IsSum(zero, f, S) BY <2>1, <2>3 DEF IsSum
  <2>5. \A p \in S : f[p] = peers[p].current_weight BY <1>6, <2>1
  <2>6. zero[S] = 0 OBVIOUS
  <2> HIDE DEF S, f, zero
  <2>7. CurrentSum(peers, S) = zero[S] BY <2>4, <2>5, CurrentSumIs
  <2> QED BY <2>6, <2>7 DEF S
<1> QED BY <1>1, <1>2, <1>5, <1>6, <1>7 DEF TableInv

LEMMA TableHolds == Spec => []TableInv
<1>1. IInv /\ TableInv /\ [Next]_vars => TableInv'
  <2> SUFFICES ASSUME IInv, TableInv, [Next]_vars PROVE TableInv' OBVIOUS
  <2>1. servers \in Upstreams BY DEF IInv, TypeInv
  <2>2. CASE UNCHANGED <<servers, peers, picked>> BY <2>2 DEF TableInv
  <2> QED BY <2>1, <2>2, TableMoves, FreeTable, GetTable, TickTable
<1> QED BY <1>1, InitTable, Invariant, PTL DEF Spec

(* Whatever attempts succeed, fail or are skipped, the current weights of  *)
(* a list add up to zero: what get_round_robin_peer's loop gives to the    *)
(* peers it looks at is what the best one pays, for any weights and any    *)
(* number of servers, and no effective weight leaves 0 .. weight.          *)
THEOREM WeightsAlwaysBalance == Spec => []WeightsBalance
<1>1. TableInv => WeightsBalance
  BY DEF TableInv, WeightsBalance, CurrentSum
<1> QED BY <1>1, TableHolds, PTL

-----------------------------------------------------------------------------
(* How many idle connections a worker keeps                                *)

CacheInv == \A w \in Worker : Len(cache[w]) <= servers.keepalive

(* A cache from which one connection is taken, or in which one is put      *)
Shrinks == \E w \in Worker : \E i \in DOMAIN cache[w] :
             cache' = [cache EXCEPT ![w] = RemoveAt(@, i)]

Stores == \E c \in Client, conn \in Connection :
            cache' = [cache EXCEPT ![home[c]] = Stored(c, conn)]

LEMMA CacheMoves ==
  ASSUME IInv, [Next]_vars
  PROVE  servers' = servers /\ (cache' = cache \/ Shrinks \/ Stores)
<1> DEFINE Moves == servers' = servers /\ (cache' = cache \/ Shrinks \/ Stores)
<1> HIDE DEF Shrinks, Stores
<1>1. \A c \in Client : home[c] \in Worker BY DEF IInv, TypeInv
<1>2. ASSUME NEW c \in Client, req[c].st \notin {"idle", "connect"},
             NEW kept \in BOOLEAN, Retire(c, kept)
      PROVE  cache' = cache \/ Stores
  <2> DEFINE conn == [peer |-> req[c].peer, whole |-> req[c].request_body_sent]
  <2>1. conn \in Connection
    BY <1>2 DEF Connection, IInv, TypeInv, HoldsInv, Request
  <2>2. cache' = cache \/ cache' = [cache EXCEPT ![home[c]] = Stored(c, conn)]
    BY <1>2 DEF Retire
  <2> HIDE DEF conn
  <2> QED BY <2>1, <2>2 DEF Stores
<1>3. ASSUME NEW c \in Client, NEW ft, req[c].st \notin {"idle", "connect"}, NextPeer(c, ft)
      PROVE  Moves
  BY <1>2, <1>3 DEF NextPeer
<1>4. ASSUME NEW c \in Client, Finalize(c) PROVE Moves
  BY <1>4 DEF Finalize
<1>5. ASSUME NEW c \in Client, Connect(c)
      PROVE  Moves
  <2>1. PICK p \in Best(List(req[c]), TriedOf(req[c])) :
          IF Found(c, p) = {} THEN UNCHANGED cache
          ELSE \E i \in Found(c, p) : cache' = [cache EXCEPT ![home[c]] = RemoveAt(@, i)]
    BY <1>5 DEF Connect
  <2>2. servers' = servers BY <1>5 DEF Connect
  <2>3. CASE Found(c, p) = {} BY <2>1, <2>2, <2>3
  <2>4. CASE Found(c, p) # {}
    <3>1. PICK i \in DOMAIN cache[home[c]] : cache' = [cache EXCEPT ![home[c]] = RemoveAt(@, i)]
      BY <2>1, <2>4 DEF Found
    <3> QED BY <1>1, <2>2, <3>1 DEF Shrinks
  <2> QED BY <2>3, <2>4
<1>6. ASSUME NEW c \in Client, Handles(c)
      PROVE  Moves
  <2>1. CASE ConnectBusy(c) BY <2>1 DEF ConnectBusy
  <2>2. CASE Connect(c) BY <1>5, <2>2
  <2>3. CASE AttemptBroken(c) BY <1>3, <2>3 DEF AttemptBroken
  <2>4. CASE NoSocket(c) BY <1>4, <2>4 DEF NoSocket
  <2> QED BY <1>6, <2>1, <2>2, <2>3, <2>4 DEF Handles
<1>7. ASSUME NEW c \in Client, Event(c)
      PROVE  Moves
  <2>1. ASSUME NEW kept \in BOOLEAN, Done(c, kept) PROVE Moves
    BY <1>2, <2>1 DEF Done
  <2>2. ASSUME NEW ft, HeaderError(c, ft) PROVE Moves
    BY <1>3, <2>2 DEF HeaderError, Reads
  <2>3. CASE \/ BodyTimesOut(c) \/ TimesOut(c) \/ ClosedEarly(c) \/ HeaderInvalid(c)
             \/ ResponseCut(c) \/ ClientAborts(c)
    BY <1>3, <1>4, <2>3
       DEF BodyTimesOut, TimesOut, ClosedEarly, HeaderInvalid, ResponseCut, ClientAborts
  <2>4. CASE SendRequest(c) \/ HeaderOk(c) BY <2>4 DEF SendRequest, HeaderOk, Reads
  <2> QED BY <1>7, <2>1, <2>2, <2>3, <2>4 DEF Event
<1>8. ASSUME NEW w \in Worker, KeepaliveClose(w)
      PROVE  Moves
  BY <1>8 DEF KeepaliveClose, Shrinks
<1>9. ASSUME NEW c \in Client, NEW method \in Serves[c], NEW no_buffering \in BOOLEAN,
             InitRequest(c, method, no_buffering)
      PROVE  Moves
  BY <1>9 DEF InitRequest
<1>10. CASE TimePasses BY <1>10 DEF TimePasses, Tick
<1>11. CASE UNCHANGED vars BY <1>11 DEF vars
<1> QED BY <1>6, <1>7, <1>8, <1>9, <1>10, <1>11 DEF Next

(* One connection less, or as many as keepalive lets stay                  *)
LEMMA CacheFits ==
  ASSUME IInv, CacheInv, [Next]_vars
  PROVE  CacheInv'
<1>1. cache \in [Worker -> Seq(Connection)] /\ servers.keepalive \in Nat
  BY RoundRobinAssumption DEF IInv, TypeInv
<1>2. servers' = servers BY CacheMoves
<1>3. CASE cache' = cache BY <1>2, <1>3 DEF CacheInv
<1>4. CASE Shrinks
  <2>1. PICK v \in Worker : \E j \in DOMAIN cache[v] :
          cache' = [cache EXCEPT ![v] = RemoveAt(@, j)]
    BY <1>4 DEF Shrinks
  <2>2. PICK i \in DOMAIN cache[v] : cache' = [cache EXCEPT ![v] = RemoveAt(@, i)]
    BY <2>1
  <2>3. cache[v] \in Seq(Connection) BY <1>1
  <2>4. Len(RemoveAt(cache[v], i)) <= Len(cache[v])
    BY <2>3 DEF RemoveAt
  <2>5. Len(RemoveAt(cache[v], i)) \in Nat /\ Len(cache[v]) \in Nat
    BY <2>3, RemoveAtType
  <2>6. cache'[v] = RemoveAt(cache[v], i) /\ \A w \in Worker \ {v} : cache'[w] = cache[w]
    BY <1>1, <2>2
  <2>7. Len(cache'[v]) <= servers.keepalive
    BY <1>1, <2>4, <2>5, <2>6 DEF CacheInv
  <2> QED BY <1>2, <2>6, <2>7 DEF CacheInv
<1>5. CASE Stores
  <2>1. PICK c \in Client, conn \in Connection :
          cache' = [cache EXCEPT ![home[c]] = Stored(c, conn)]
    BY <1>5 DEF Stores
  <2> DEFINE v == home[c]
             s == <<conn>> \o cache[v]
             n == Smaller(Len(cache[v]) + 1, servers.keepalive)
  <2>2. v \in Worker BY DEF IInv, TypeInv
  <2>3. Stored(c, conn) = SubSeq(s, 1, n) BY DEF Stored
  <2> HIDE DEF v
  <2>4. cache[v] \in Seq(Connection) BY <1>1, <2>2
  <2>5. s \in Seq(Connection) /\ Len(s) = Len(cache[v]) + 1 BY <2>4
  <2>6. n \in Nat /\ n <= Len(s) /\ n <= servers.keepalive
    BY <1>1, <2>4, <2>5 DEF Smaller
  <2>7. cache'[v] = Stored(c, conn) /\ \A w \in Worker \ {v} : cache'[w] = cache[w]
    BY <1>1, <2>1, <2>2 DEF v
  <2> HIDE DEF s, n
  <2>8. Len(SubSeq(s, 1, n)) = n BY <2>5, <2>6
  <2>9. Len(cache'[v]) <= servers.keepalive BY <2>3, <2>6, <2>7, <2>8
  <2> QED BY <1>2, <2>7, <2>9 DEF CacheInv
<1> QED BY <1>3, <1>4, <1>5, CacheMoves

(* The shape of every state: the rows of the table, requests with their    *)
(* tries, and at most keepalive idle connections of a worker, however they *)
(* are taken, closed and pushed out (ngx_http_upstream_get_keepalive_peer  *)
(* and ngx_http_upstream_free_keepalive_peer).                             *)
THEOREM UpstreamTypeCorrect == Spec => []TypeOK
<1>1. Init => CacheInv
  <2> SUFFICES ASSUME Init PROVE CacheInv OBVIOUS
  <2>1. servers.keepalive \in Nat /\ \A w \in Worker : cache[w] = <<>>
    BY RoundRobinAssumption DEF Init, RRInit
  <2> QED BY <2>1 DEF CacheInv
<1>2. IInv /\ TableInv /\ CacheInv => TypeOK
  <2> SUFFICES ASSUME IInv, TableInv, CacheInv PROVE TypeOK OBVIOUS
  <2>1. ASSUME NEW p \in Peer PROVE peers[p] \in PeerState
    <3>1. IsFiniteSet({c \in Client : req[c].peer = p}) BY FS_Subset, UpstreamAssumption
    <3>2. peers[p].conns \in Nat
      BY <3>1, FS_CardinalityType DEF IInv, ConnsExact
    <3>3. peers[p] \in Row BY DEF TableInv
    <3> QED BY <3>2, <3>3 DEF Row, PeerState
  <2>2. peers \in [Peer -> PeerState] BY <2>1 DEF TableInv
  <2>3. RRTypeOK BY <2>2 DEF RRTypeOK, TableInv, IInv, TypeInv
  <2> QED BY <2>3 DEF TypeOK, CacheInv, IInv, TypeInv
<1>3. IInv /\ CacheInv /\ [Next]_vars => CacheInv' BY CacheFits
<1> QED BY <1>1, <1>2, <1>3, Invariant, TableHolds, PTL DEF Spec
=============================================================================
