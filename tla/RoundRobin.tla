----------------------------- MODULE RoundRobin -----------------------------
(***************************************************************************)
(* nginx's weighted round robin, ngx_http_upstream_round_robin.c: how the  *)
(* proxy in front of the backend picks a server for an attempt and what it *)
(* notes about the server when the attempt ends.  The peers are shared by  *)
(* all requests, those of other worker processes included; get and free    *)
(* each run under the lock of the list, so each is one step.               *)
(*                                                                         *)
(* Time is counted in the units of FailTimeout.  A peer keeps the age of   *)
(* its time stamp "checked", capped one above FailTimeout, where ages are  *)
(* no longer told apart; "accessed" is only compared with "checked", and   *)
(* probing is accessed < checked.                                          *)
(***************************************************************************)
EXTENDS Integers, Sequences, FiniteSets, SequencesExt, FiniteSetsExt

CONSTANTS
  Peer,         \* servers that may be listed in an upstream
  Weight,       \* weight=
  MaxFails,     \* max_fails=, 0: never disabled
  MaxConns,     \* max_conns=, 0: no limit
  Down,         \* servers marked down
  FailTimeout,  \* fail_timeout=
  Upstreams     \* the upstream blocks tried: the lists of primary and backup
                \* servers, the number of keepalive connections, and
                \* whether the location sends request bodies unbuffered

ASSUME RoundRobinAssumption ==
  /\ IsFiniteSet(Peer)
  /\ Weight \in [Peer -> Nat \ {0}]
  /\ MaxFails \in [Peer -> Nat]
  /\ MaxConns \in [Peer -> Nat]
  /\ Down \subseteq Peer
  /\ FailTimeout \in Nat
  /\ \A u \in Upstreams : /\ u.primary \in Seq(Peer) /\ u.backup \in Seq(Peer)
                          /\ u.primary # <<>> /\ u.keepalive \in Nat /\ u.unbuffered \in BOOLEAN
                          /\ ToSet(u.primary) \cap ToSet(u.backup) = {}

VARIABLES
  servers,  \* the configuration; never changes
  peers,    \* what is noted about each peer
  picked    \* time since each peer was last picked, capped (history)

Age == 0 .. FailTimeout + 1

PeerState == [fails : Nat, age : Age, probing : BOOLEAN,
              effective_weight : Int, current_weight : Int, conns : Int]

RRTypeOK ==
  /\ servers \in Upstreams
  /\ peers \in [Peer -> PeerState]
  /\ picked \in [Peer -> Age]

(* ngx_http_upstream_init_round_robin: the time stamps are 0, long ago.    *)
RRInit ==
  /\ servers \in Upstreams
  /\ peers = [p \in Peer |->
       [fails |-> 0, age |-> FailTimeout + 1, probing |-> FALSE,
        effective_weight |-> Weight[p], current_weight |-> 0, conns |-> 0]]
  /\ picked = [p \in Peer |-> FailTimeout + 1]

(* peers->single: one server and no backup.                                *)
Single == Len(servers.primary) = 1 /\ servers.backup = <<>>

(* ngx_http_upstream_tries: one for every server that is not down.         *)
Tries == Cardinality((ToSet(servers.primary) \cup ToSet(servers.backup)) \ Down)

-----------------------------------------------------------------------------
(* ngx_http_upstream_get_peer and ngx_http_upstream_get_round_robin_peer   *)

Disabled(p) == /\ MaxFails[p] > 0
               /\ peers[p].fails >= MaxFails[p]
               /\ peers[p].age <= FailTimeout

Full(p) == MaxConns[p] > 0 /\ peers[p].conns >= MaxConns[p]

(* The peers of a list the loop does not skip.  A single peer is not asked *)
(* whether it failed or was tried before.                                  *)
Eligible(list, tried) ==
  {p \in ToSet(list) \ Down :
     ~Full(p) /\ (Single \/ (p \notin tried /\ ~Disabled(p)))}

Raised(p) == peers[p].current_weight + peers[p].effective_weight

Position(list, p) == CHOOSE i \in DOMAIN list : list[i] = p

(* The first peer of the list with the largest raised weight, if any.      *)
Best(list, tried) ==
  {p \in Eligible(list, tried) : \A q \in Eligible(list, tried) :
      \/ Raised(p) > Raised(q)
      \/ Raised(p) = Raised(q) /\ Position(list, p) <= Position(list, q)}

TotalWeight(list, tried) ==
  MapThenSumSet(LAMBDA p : peers[p].effective_weight, Eligible(list, tried))

(* Mutant: a peer that is tried again after its timeout is not stamped.    *)
StampedNever(s) == s

(* if (now - best->checked > best->fail_timeout) best->checked = now       *)
Stamped(s) ==
  IF s.age > FailTimeout THEN [s EXCEPT !.age = 0, !.probing = TRUE] ELSE s

(* Mutant: the winner pays its own weight only.                            *)
AfterLoopOwnWeight(list, tried, best, p) ==
  LET s == peers[p]
  IN  [s EXCEPT
        !.current_weight = Raised(p) - (IF p = best
                                        THEN s.effective_weight ELSE 0),
        !.effective_weight = IF @ < Weight[p] THEN @ + 1 ELSE @]

(* A peer the loop looked at: its weight is raised, its effective weight   *)
(* recovers by one, and the best one pays the total.                       *)
AfterLoop(list, tried, best, p) ==
  LET s == peers[p]
  IN  [s EXCEPT
        !.current_weight = Raised(p) - (IF p = best
                                        THEN TotalWeight(list, tried) ELSE 0),
        !.effective_weight = IF @ < Weight[p] THEN @ + 1 ELSE @]

(* The peers after best was picked from the list.                          *)
AfterGet(list, tried, best) ==
  LET Looped(p) == IF p \in Eligible(list, tried) /\ ~Single
                   THEN AfterLoop(list, tried, best, p) ELSE peers[p]
      Won(s) == [(IF Single THEN s ELSE Stamped(s)) EXCEPT !.conns = @ + 1]
  IN  [p \in Peer |-> IF p = best THEN Won(Looped(p)) ELSE Looped(p)]

-----------------------------------------------------------------------------
(* ngx_http_upstream_free_round_robin_peer                                 *)

Larger(a, b) == IF a < b THEN b ELSE a

Smaller(a, b) == IF a < b THEN a ELSE b

(* fails is only compared with max_fails: it is counted up to there.       *)
Failed(p, s) ==
  [s EXCEPT !.fails = Smaller(@ + 1, MaxFails[p]), !.age = 0, !.probing = FALSE,
            !.effective_weight = Larger(0,
               IF MaxFails[p] > 0 THEN @ - Weight[p] \div MaxFails[p] ELSE @)]

(* Mutant: conns is not decremented when the attempt failed.               *)
AfterFreeLeaking(p, failed) ==
  LET s == peers[p]
      noted == IF Single THEN [s EXCEPT !.fails = 0]
               ELSE IF failed THEN Failed(p, s)
               ELSE [s EXCEPT !.fails = IF s.probing THEN 0 ELSE @]
  IN  [peers EXCEPT ![p] = [noted EXCEPT !.conns = IF failed THEN @ ELSE @ - 1]]

(* A failed attempt disables the peer step by step; a good one, if the     *)
(* peer was being tried again, forgives all its failures.                  *)
AfterFree(p, failed) ==
  LET s == peers[p]
      noted == IF Single THEN [s EXCEPT !.fails = 0]
               ELSE IF failed THEN Failed(p, s)
               ELSE [s EXCEPT !.fails = IF s.probing THEN 0 ELSE @]
  IN  [peers EXCEPT ![p] = [noted EXCEPT !.conns = @ - 1]]

(* pc->tries afterwards                                                    *)
TriesAfterFree(tries) == IF Single \/ tries = 0 THEN 0 ELSE tries - 1

-----------------------------------------------------------------------------

Older(age) == IF age > FailTimeout THEN age ELSE age + 1

(* A unit of time passes.                                                  *)
Tick ==
  /\ peers' = [p \in Peer |-> [peers[p] EXCEPT !.age = Older(@)]]
  /\ picked' = [p \in Peer |-> Older(picked[p])]
  /\ UNCHANGED servers

(* Whatever attempts succeed, fail or are skipped, the current weights of  *)
(* a list sum up to zero, and no effective weight leaves 0 .. weight: no   *)
(* peer gains on the others, so the shares stay those of the weights.      *)
WeightsBalance ==
  /\ \A list \in {servers.primary, servers.backup} :
       MapThenSumSet(LAMBDA p : peers[p].current_weight, ToSet(list)) = 0
  /\ \A p \in Peer : peers[p].effective_weight \in 0 .. Weight[p]
=============================================================================
