----------------------------- MODULE MCUpstream -----------------------------
(* A client that sends POSTs and one that sends GETs: to the single        *)
(* backend of lora-sites.conf, through one worker and through two, with    *)
(* bodies buffered and not; to two servers with weights 2 and 1 through    *)
(* two workers; to a server with a backup through one.                     *)
EXTENDS Upstream

CONSTANTS p1, p2, c1, c2, w1, w2

MCServes == [c \in Client |-> IF c = c1 THEN {"POST"} ELSE {"GET"}]

MCWeight == [p \in Peer |-> IF p = p1 THEN 2 ELSE 1]

MCMaxFails == [p \in Peer |-> 1]

MCMaxConns == [p \in Peer |-> IF p = p1 THEN 1 ELSE 0]

MCSingle == [primary |-> <<p2>>, backup |-> <<>>, keepalive |-> 1, unbuffered |-> TRUE]
MCWeighted == [primary |-> <<p1, p2>>, backup |-> <<>>, keepalive |-> 0, unbuffered |-> FALSE]
MCBackup == [primary |-> <<p1>>, backup |-> <<p2>>, keepalive |-> 1, unbuffered |-> FALSE]

MCUpstreams == {MCSingle, MCWeighted, MCBackup}

OneWorker == [c \in Client |-> w1]
TwoWorkers == [c \in Client |-> IF c = c1 THEN w1 ELSE w2]

MCHomes == [u \in MCUpstreams |-> CASE u = MCSingle -> {OneWorker, TwoWorkers}
                                    [] u = MCWeighted -> {TwoWorkers}
                                    [] u = MCBackup -> {OneWorker}]
=============================================================================
