------------------------------ MODULE Upstream ------------------------------
(***************************************************************************)
(* The upstream side of the nginx that stands in front of the Flask        *)
(* backend (ngx_http_upstream.c, ngx_event_connect.c and the keepalive     *)
(* module): the attempts a request makes, what makes nginx try the next    *)
(* server, and when it gives up.                                           *)
(*                                                                         *)
(* A client's connection has one request at a time and belongs to one      *)
(* worker process; the requests of a worker share its idle connections,    *)
(* and the workers share the peers of RoundRobin.  A handler runs to its   *)
(* end before its worker takes another event, but between the free of one  *)
(* attempt and the get of the next other workers may take the lock: that   *)
(* is the state "connect".  Caching, TLS, upgrades and the resolver are    *)
(* off, as in lora-sites.conf; a response ends an attempt in the same ways *)
(* whether it is buffered (lora-sites.conf) or not (nginx-win).            *)
(***************************************************************************)
EXTENDS RoundRobin

CONSTANTS
  Client,        \* client connections
  Worker,        \* worker processes
  Homes,         \* which worker serves which client: the cases tried of each
                 \* upstream block
  Serves,        \* the methods of the requests a client sends
  NextUpstream,  \* proxy_next_upstream, a set of NextType
  NextTries,     \* proxy_next_upstream_tries, 0: no limit
  NextTimeout,   \* is proxy_next_upstream_timeout set?
  NoPeer         \* no server is held

NextType == {"error", "timeout", "invalid_header", "http_500", "http_404",
             "non_idempotent"}

(* POST stands for POST, LOCK and PATCH, GET for the other methods.        *)
Method == {"GET", "POST"}

ASSUME UpstreamAssumption ==
  /\ IsFiniteSet(Client)
  /\ Homes \in [Upstreams -> SUBSET [Client -> Worker]]
  /\ Serves \in [Client -> SUBSET Method]
  /\ NextUpstream \subseteq NextType
  /\ NextTries \in Nat
  /\ NextTimeout \in BOOLEAN
  /\ NoPeer \notin Peer

VARIABLES
  home,       \* the worker each client is connected to; never changes
  req,        \* the request of each client
  cache,      \* the idle connections of a worker, the most recent first
  copies      \* whole copies of the request that reached a server (history)

vars == <<servers, peers, picked, home, req, cache, copies>>

Waits == {"connecting", "sending", "waiting", "reading"}

Request == [st : {"idle", "connect", "broken", "failed"} \cup Waits,
            method : Method,
            no_buffering : BOOLEAN,      \* request_body_no_buffering
            peer : Peer \cup {NoPeer},   \* peer.sockaddr
            backup : BOOLEAN,            \* rrp->peers is the backup list
            tried : SUBSET Peer, tries : Nat,
            cached : BOOLEAN, open : BOOLEAN,
            request_sent : BOOLEAN, request_body_sent : BOOLEAN]

Connection == [peer : Peer, whole : BOOLEAN]

TypeOK ==
  /\ RRTypeOK
  /\ home \in Homes[servers]
  /\ req \in [Client -> Request]
  /\ \A w \in Worker : cache[w] \in Seq(Connection) /\ Len(cache[w]) <= servers.keepalive
  /\ copies \in [Client -> Nat]

Idle == [st |-> "idle", method |-> "GET", no_buffering |-> FALSE, peer |-> NoPeer,
         backup |-> FALSE, tried |-> {}, tries |-> 0, cached |-> FALSE,
         open |-> FALSE, request_sent |-> FALSE, request_body_sent |-> FALSE]

Init ==
  /\ RRInit
  /\ home \in Homes[servers]
  /\ req = [c \in Client |-> Idle]
  /\ cache = [w \in Worker |-> <<>>]
  /\ copies = [c \in Client |-> 0]

-----------------------------------------------------------------------------
(* Ends of an attempt                                                      *)

Becomes(c, r) == req' = [req EXCEPT ![c] = r]

Release(c, failed) == peers' = AfterFree(req[c].peer, failed)

(* Mutant: nothing marks a POST that was sent.                             *)
TypesNoPost(r, ft) == {ft}

(* ft_type with NGX_HTTP_UPSTREAM_FT_NON_IDEMPOTENT                        *)
Types(r, ft) ==
  {ft} \cup (IF r.request_sent /\ r.method = "POST" THEN {"non_idempotent"} ELSE {})

(* Mutant: the number of tries left is not looked at.                      *)
StopsIgnoringTries(r, ft, tries) ==
  \/ ~(Types(r, ft) \subseteq NextUpstream)
  \/ r.request_sent /\ r.no_buffering

Stops(r, ft, tries) ==
  \/ tries = 0
  \/ ~(Types(r, ft) \subseteq NextUpstream)
  \/ r.request_sent /\ r.no_buffering

(* Mutant: a connection is kept though part of the request is unsent.      *)
KeptUnsent(c, kept) == kept /\ servers.keepalive > 0

(* ngx_http_upstream_free_keepalive_peer: the connection can be used again *)
(* if the response says so and the request went out to its end.            *)
Kept(c, kept) == kept /\ servers.keepalive > 0 /\ req[c].request_body_sent

(* Mutant: nothing makes room.                                             *)
StoredAll(c, conn) == <<conn>> \o cache[home[c]]

(* The least recent idle connection makes room.                            *)
Stored(c, conn) ==
  SubSeq(<<conn>> \o cache[home[c]], 1,
         Smaller(Len(cache[home[c]]) + 1, servers.keepalive))

(* The connection of the attempt is put among the idle ones, or closed.    *)
Retire(c, kept) ==
  cache' = IF Kept(c, kept)
           THEN [cache EXCEPT ![home[c]] =
                   Stored(c, [peer |-> req[c].peer, whole |-> req[c].request_body_sent])]
           ELSE cache

(* ngx_http_upstream_next for an attempt that holds a peer.  An idle       *)
(* connection that turned out closed does not use up a try.  The client    *)
(* may be gone (r->connection->error), or the time for retries over.       *)
(* request_sent and cached keep their values until the next connect.       *)
NextPeer(c, ft) ==
  LET r == req[c]
      tries == TriesAfterFree(r.tries) + (IF r.cached /\ ft = "error" THEN 1 ELSE 0)
  IN  /\ \/ Becomes(c, Idle)
         \/ /\ ~Stops(r, ft, tries)
            /\ Becomes(c, [r EXCEPT !.st = "connect", !.peer = NoPeer,
                                    !.tries = tries, !.open = FALSE])
      /\ Release(c, ft # "http_404")
      /\ IF ft = "http_404" THEN \E kept \in BOOLEAN : Retire(c, kept)
                            ELSE UNCHANGED cache
      /\ UNCHANGED <<servers, picked, home, copies>>

(* ngx_http_upstream_finalize_request before the response is complete      *)
Finalize(c) ==
  /\ Release(c, FALSE)
  /\ Becomes(c, Idle)
  /\ UNCHANGED <<servers, picked, home, cache, copies>>

-----------------------------------------------------------------------------
(* Starting an attempt                                                     *)

(* ngx_http_upstream_init_request; the history of the client's previous    *)
(* request is forgotten.  A body is passed on unbuffered if the location   *)
(* says so, unless there is none or all of it has come already.            *)
InitRequest(c, method, no_buffering) ==
  /\ req[c].st = "idle"
  /\ no_buffering => servers.unbuffered
  /\ Becomes(c, [Idle EXCEPT !.st = "connect", !.method = method,
                             !.no_buffering = no_buffering,
                             !.tries = IF NextTries > 0 THEN Smaller(Tries, NextTries)
                                       ELSE Tries])
  /\ copies' = [copies EXCEPT ![c] = 0]
  /\ UNCHANGED <<servers, peers, picked, home, cache>>

(* The list get_round_robin_peer takes a peer from, and what was tried of  *)
(* it: the backups once no primary is left, for the rest of the request.   *)
FromBackup(r) ==
  r.backup \/ (servers.backup # <<>> /\ Eligible(servers.primary, r.tried) = {})

List(r) == IF FromBackup(r) THEN servers.backup ELSE servers.primary

TriedOf(r) == IF FromBackup(r) /\ ~r.backup THEN {} ELSE r.tried

(* The request once a peer is held; a single peer is not marked tried.     *)
Got(r, p) ==
  [r EXCEPT !.peer = p, !.backup = FromBackup(r), !.cached = FALSE,
            !.tried = IF Single THEN {} ELSE TriedOf(r) \cup {p}]

(* The most recent of the idle connections to a peer, if any               *)
Found(c, p) ==
  LET idle == cache[home[c]]
  IN  {i \in DOMAIN idle :
         idle[i].peer = p /\ \A j \in 1 .. i - 1 : idle[j].peer # p}

(* NGX_BUSY: no peer, nothing to free, and no configuration retries it.    *)
ConnectBusy(c) ==
  /\ req[c].st = "connect"
  /\ Eligible(List(req[c]), TriedOf(req[c])) = {}
  /\ Becomes(c, Idle)
  /\ UNCHANGED <<servers, peers, picked, home, cache, copies>>

(* What one call of ngx_http_upstream_send_request may do to a request:    *)
(* the connection turns out broken, or the request is sent partly, wholly, *)
(* or not because of an error.  A server that closed an idle connection    *)
(* does not see what is written to it.                                     *)
Sends(r) ==
  LET s == [r EXCEPT !.request_sent = TRUE]
  IN  {[r EXCEPT !.st = "broken"],
       [s EXCEPT !.st = "broken"],
       [s EXCEPT !.st = "sending"],
       [s EXCEPT !.st = "waiting", !.request_body_sent = TRUE]}

(* Requests a second copy of which would do harm: a POST, and a request    *)
(* whose body is gone once it was passed on.  Only their copies count.     *)
Once(r) == r.no_buffering \/ (r.method = "POST" /\ "non_idempotent" \notin NextUpstream)

(* The client's request goes on as q; a server with an open connection may *)
(* carry out what it has received whole, even if nginx stops waiting.      *)
Sent(c, q) ==
  /\ Becomes(c, q)
  /\ copies' = [copies EXCEPT ![c] = @ + (IF Once(q) /\ q.st = "waiting" /\ q.open
                                         THEN 1 ELSE 0)]

Fresh(r, cached, open) ==
  [r EXCEPT !.cached = cached, !.open = open,
            !.request_sent = FALSE, !.request_body_sent = FALSE]

(* What ngx_event_connect_peer and the rest of ngx_http_upstream_connect   *)
(* may do with the peer: refused at once (NGX_DECLINED), no socket         *)
(* (NGX_ERROR), connecting (NGX_AGAIN; NGX_OK is the same with the write   *)
(* event at once), or an idle connection of the cache, which the server    *)
(* may have closed (NGX_DONE).                                             *)
ConnectOutcomes(r, hit) ==
  IF hit THEN UNION {Sends(Fresh(r, TRUE, open)) : open \in BOOLEAN}
  ELSE {[r EXCEPT !.st = "broken"], [r EXCEPT !.st = "failed"],
        [Fresh(r, FALSE, TRUE) EXCEPT !.st = "connecting"]}

Connect(c) ==
  LET r == req[c]
  IN  /\ r.st = "connect"
      /\ \E p \in Best(List(r), TriedOf(r)) :
           \E table \in {AfterGet(List(r), TriedOf(r), p)}, hits \in {Found(c, p)} :
             /\ \E q \in ConnectOutcomes(Got(r, p), hits # {}) : Sent(c, q)
             /\ peers' = table
             /\ picked' = [picked EXCEPT ![p] = 0]
             /\ IF hits = {} THEN UNCHANGED cache
                ELSE \E i \in hits : cache' = [cache EXCEPT ![home[c]] = RemoveAt(@, i)]
      /\ UNCHANGED <<servers, home>>

(* The handler that met the error goes on to the next server, or, without  *)
(* a socket, gives up.                                                     *)
AttemptBroken(c) == req[c].st = "broken" /\ NextPeer(c, "error")

NoSocket(c) == req[c].st = "failed" /\ Finalize(c)

-----------------------------------------------------------------------------
(* Events of an attempt under way                                          *)

(* ngx_http_upstream_send_request_handler: the connection can be written.  *)
SendRequest(c) ==
  /\ req[c].st \in {"connecting", "sending"}
  /\ \E q \in Sends(req[c]) : Sent(c, q)
  /\ UNCHANGED <<servers, peers, picked, home, cache>>

(* ngx_http_upstream_read_request_handler: the client stops sending a body *)
(* that is passed on unbuffered.                                           *)
BodyTimesOut(c) ==
  /\ req[c].st = "sending" /\ req[c].no_buffering
  /\ Finalize(c)

(* A timer expires: connecting, sending and waiting for the header count   *)
(* against the server, a response that stalls ends the request.  The       *)
(* timers of a send and of a response start again whenever some of it      *)
(* went through.                                                           *)
TimesOut(c) ==
  \/ req[c].st \in {"connecting", "sending", "waiting"} /\ NextPeer(c, "timeout")
  \/ req[c].st = "reading" /\ Finalize(c)

(* The server closes, or sends what is no header.                          *)
ClosedEarly(c) == req[c].st \in {"sending", "waiting"} /\ NextPeer(c, "error")

HeaderInvalid(c) ==
  /\ req[c].st \in {"sending", "waiting"} /\ req[c].open
  /\ NextPeer(c, "invalid_header")

Reads(c) ==
  /\ Becomes(c, [req[c] EXCEPT !.st = "reading"])
  /\ UNCHANGED <<servers, peers, picked, home, cache, copies>>

(* A good response follows the whole request.                              *)
HeaderOk(c) == req[c].st = "waiting" /\ req[c].open /\ Reads(c)

(* ngx_http_upstream_test_next: an error status, which a server may send   *)
(* before it has all of the request.  It is passed on if there is no other *)
(* server to try, or no time.                                              *)
HeaderError(c, ft) ==
  LET r == req[c]
      retry == r.tries > 1 /\ ~Stops(r, ft, r.tries)
  IN  /\ r.st \in {"sending", "waiting"} /\ r.open
      /\ \/ retry /\ NextPeer(c, ft)
         \/ (retry => NextTimeout) /\ Reads(c)

(* The response is complete.                                               *)
Done(c, kept) ==
  /\ req[c].st = "reading"
  /\ Release(c, FALSE)
  /\ Becomes(c, Idle)
  /\ Retire(c, kept)
  /\ UNCHANGED <<servers, picked, home, copies>>

(* The server ends the response too early, or the client is gone           *)
(* (ngx_http_upstream_check_broken_connection).                            *)
ResponseCut(c) == req[c].st = "reading" /\ Finalize(c)

ClientAborts(c) == req[c].st \in Waits /\ Finalize(c)

(* ngx_http_upstream_keepalive_close_handler: an idle connection times out *)
(* or its server closed it.                                                *)
KeepaliveClose(w) ==
  /\ \E i \in DOMAIN cache[w] : cache' = [cache EXCEPT ![w] = RemoveAt(@, i)]
  /\ UNCHANGED <<servers, peers, picked, home, req, copies>>

TimePasses == Tick /\ UNCHANGED <<home, req, cache, copies>>

-----------------------------------------------------------------------------

(* The rest of a handler that is between two attempts                      *)
Handles(c) == ConnectBusy(c) \/ Connect(c) \/ AttemptBroken(c) \/ NoSocket(c)

(* No handler of the worker has a rest to run.                             *)
Ready(w) ==
  \A c \in Client : home[c] = w => req[c].st \notin {"connect", "broken", "failed"}

(* An event of the request                                                 *)
Event(c) ==
  \/ SendRequest(c) \/ BodyTimesOut(c) \/ TimesOut(c)
  \/ ClosedEarly(c) \/ HeaderInvalid(c) \/ HeaderOk(c)
  \/ \E ft \in {"http_500", "http_404"} : HeaderError(c, ft)
  \/ \E kept \in BOOLEAN : Done(c, kept)
  \/ ResponseCut(c) \/ ClientAborts(c)

Next ==
  \/ \E c \in Client :
       \/ Handles(c)
       \/ /\ Ready(home[c])
          /\ \/ \E method \in Serves[c], no_buffering \in BOOLEAN :
                    InitRequest(c, method, no_buffering)
             \/ Event(c)
  \/ \E w \in Worker : Ready(w) /\ KeepaliveClose(w)
  \/ TimePasses

Spec == Init /\ [][Next]_vars

(* connect_timeout, or the time for the header, which starts once, is over *)
Expires(c) ==
  Ready(home[c]) /\ req[c].st \in {"connecting", "waiting"} /\ TimesOut(c)

(* A send or a response comes to an end, whichever.                        *)
Settles(c) ==
  /\ Ready(home[c]) /\ req[c].st \in {"sending", "reading"}
  /\ Event(c) /\ req'[c].st # req[c].st

(* Handlers run to their end, and timers expire among the other events of  *)
(* the worker.  The last is asked of the other ends of the connections:    *)
(* nobody trickles for ever, with a pause shorter than the timeout.        *)
Fairness ==
  \A c \in Client : /\ WF_vars(Handles(c))
                    /\ SF_vars(Expires(c))
                    /\ SF_vars(Settles(c))

FairSpec == Spec /\ Fairness

-----------------------------------------------------------------------------
(* Properties                                                              *)

(* However attempts fail, time out or are given up while a server may      *)
(* still carry them out, a server gets a POST whole at most once unless    *)
(* proxy_next_upstream says non_idempotent, and a body that was not        *)
(* buffered is never sent again without what is already gone: the proxy    *)
(* does not make the backend queue a message twice.                        *)
SentOnce == \A c \in Client : copies[c] <= 1

(* Over every path of a request, get and free pair up: conns is the number *)
(* of attempts that hold the peer, so max_conns neither leaks nor is       *)
(* exceeded.                                                               *)
ConnsExact ==
  \A p \in Peer :
    /\ peers[p].conns = Cardinality({c \in Client : req[c].peer = p})
    /\ MaxConns[p] > 0 => peers[p].conns <= MaxConns[p]

(* No connection waits for reuse in the middle of a request, which a       *)
(* server would read as the beginning of the next one.                     *)
CachedWhole == \A w \in Worker : \A i \in DOMAIN cache[w] : cache[w][i].whole

(* A server that failed max_fails times gets one attempt in each           *)
(* fail_timeout, whichever workers ask for a peer.                         *)
ProbesRare ==
  [][\A p \in Peer :
       ( /\ peers'[p].conns > peers[p].conns
         /\ ~Single /\ MaxFails[p] > 0 /\ peers[p].fails >= MaxFails[p] )
       => picked[p] > FailTimeout]_vars

(* Every request is answered or given up, although a broken idle           *)
(* connection gives its try back: a request can go on for ever only while  *)
(* other requests of its worker put new idle connections into the cache    *)
(* again and again.                                                        *)
Refills(c) == Len(cache'[home[c]]) > Len(cache[home[c]])

EveryRequestEnds ==
  \A c \in Client :
    \/ req[c].st # "idle" ~> req[c].st = "idle"
    \/ []<><<Refills(c)>>_vars
=============================================================================
