----------------------------- MODULE LoRaEngine -----------------------------
(***************************************************************************)
(* The radio engine of backend/lora_engine.py: one worker thread (_loop)   *)
(* that owns the radio, and client threads that call the public methods    *)
(* queue_message, set_state, get_messages and shutdown.                    *)
(*                                                                         *)
(* self.lock only ever guards one read or one assignment of self.state, so *)
(* it is never held across a step: every critical section is one atomic    *)
(* step here and the lock itself is not a variable.  queue.Queue is        *)
(* unbounded and each of its operations is atomic.                         *)
(*                                                                         *)
(* The radio (pyLoRa) is not part of the repository.  It is modelled from  *)
(* the calls made to it: it listens only in rx mode, receive()/read()      *)
(* hand over the oldest packet heard, reset() returns it to standby and    *)
(* forgets what it heard, and any of its calls may raise when              *)
(* RadioMayFail, which _loop does not catch.                               *)
(***************************************************************************)
EXTENDS Naturals, Sequences, FiniteSets

CONSTANTS
  Client,        \* threads that call the public methods
  Message,       \* messages handed to queue_message
  Packet,        \* raw packets other units put on the air
  None,          \* no message in the worker's hand
  RadioMayFail   \* may a radio call raise?

ASSUME EngineAssumption ==
  /\ Message \cap Packet = {}
  /\ None \notin Message \cup Packet
  /\ RadioMayFail \in BOOLEAN

Item == Message \cup Packet

(* Every value set_state is given; "other" stands for any further string.  *)
EngineState == {"idle", "reset", "transmit", "receive", "other"}

VARIABLES
  state,     \* self.state
  queue,     \* self.message_queue: outgoing messages and heard packets alike
  running,   \* self.running
  worker,    \* where the worker thread is in _loop
  hand,      \* the local variable message of _do_transmit
  cpc,       \* where each client is in the method it called
  items,     \* what each client's get_messages has collected
  mode,      \* mode of the radio
  inbox,     \* packets the radio has heard and not handed over
  sent,      \* what the radio has transmitted, oldest first (history)
  used       \* messages queued and packets heard so far (history)

threadVars == <<worker, hand, cpc, items>>
radioVars  == <<mode, inbox, sent>>
engineVars == <<state, queue, running, threadVars, radioVars, used>>

WorkerPC == {"check", "read", "reset", "set_idle", "tx_get", "tx_mode",
             "tx_send", "tx_done", "rx_mode", "rx_poll", "stopped"}
ClientPC == {"ready", "set_tx", "look", "set_rx", "collect", "take", "join"}

EngineTypeOK ==
  /\ state \in EngineState
  /\ queue \in Seq(Item)
  /\ running \in BOOLEAN
  /\ worker \in WorkerPC
  /\ hand \in Item \cup {None}
  /\ cpc \in [Client -> ClientPC]
  /\ items \in [Client -> Seq(Item)]
  /\ mode \in {"standby", "rx", "tx"}
  /\ inbox \in Seq(Packet)
  /\ sent \in Seq(Item)
  /\ used \subseteq Item

(* __init__: idle, nothing queued, the worker thread just started.         *)
EngineInit ==
  /\ state = "idle"
  /\ queue = <<>>
  /\ running = TRUE
  /\ worker = "check"
  /\ hand = None
  /\ cpc = [c \in Client |-> "ready"]
  /\ items = [c \in Client |-> <<>>]
  /\ mode = "standby"
  /\ inbox = <<>>
  /\ sent = <<>>
  /\ used = {}

-----------------------------------------------------------------------------
(* The worker thread.                                                      *)

WorkerGoto(from, to) == worker = from /\ worker' = to

(* while self.running: *)
WorkerCheck ==
  /\ WorkerGoto("check", IF running THEN "read" ELSE "stopped")
  /\ UNCHANGED <<state, queue, running, hand, cpc, items, radioVars, used>>

(* Where the if/elif chain of _loop leads; idle only sleeps and loops, an  *)
(* unknown state is set back to idle.                                      *)
Branch == [idle |-> "check", reset |-> "reset", transmit |-> "tx_get",
           receive |-> "rx_mode", other |-> "set_idle"]

(* with self.lock: state = self.state, then the branch on the copy.        *)
WorkerRead ==
  /\ WorkerGoto("read", Branch[state])
  /\ UNCHANGED <<state, queue, running, hand, cpc, items, radioVars, used>>

(* _do_reset, before its set_state("idle"). *)
WorkerReset ==
  /\ WorkerGoto("reset", "set_idle")
  /\ mode' = "standby"
  /\ inbox' = <<>>
  /\ UNCHANGED <<state, queue, running, hand, cpc, items, sent, used>>

(* set_state("idle") after a reset, an unknown state or an empty queue.    *)
WorkerSetIdle ==
  /\ WorkerGoto("set_idle", "check")
  /\ state' = "idle"
  /\ UNCHANGED <<queue, running, hand, cpc, items, radioVars, used>>

(* Mutant: the message is looked at and left in the queue.                 *)
WorkerTxPeek ==
  /\ queue # <<>>
  /\ WorkerGoto("tx_get", "tx_mode")
  /\ hand' = Head(queue)
  /\ UNCHANGED <<state, queue, running, cpc, items, radioVars, used>>

(* Mutant: the newest message is taken first (LifoQueue).                  *)
WorkerTxGetNewest ==
  /\ queue # <<>>
  /\ WorkerGoto("tx_get", "tx_mode")
  /\ hand' = queue[Len(queue)]
  /\ queue' = SubSeq(queue, 1, Len(queue) - 1)
  /\ UNCHANGED <<state, running, cpc, items, radioVars, used>>

(* _do_transmit: message_queue.get(timeout=1) finds a message. *)
WorkerTxGet ==
  /\ queue # <<>>
  /\ WorkerGoto("tx_get", "tx_mode")
  /\ hand' = Head(queue)
  /\ queue' = Tail(queue)
  /\ UNCHANGED <<state, running, cpc, items, radioVars, used>>

(* Mutant: get() without a timeout, queue.Empty is never raised.           *)
WorkerTxNoTimeout == FALSE

(* Mutant: the return after queue.Empty is missing.                        *)
WorkerTxNoReturn ==
  /\ queue = <<>>
  /\ WorkerGoto("tx_get", "tx_mode")
  /\ state' = "idle"
  /\ UNCHANGED <<queue, running, hand, cpc, items, radioVars, used>>

(* ... or the second passes with the queue still empty (queue.Empty).      *)
WorkerTxTimeout ==
  /\ queue = <<>>
  /\ WorkerGoto("tx_get", "set_idle")
  /\ UNCHANGED <<state, queue, running, hand, cpc, items, radioVars, used>>

WorkerTxMode ==
  /\ WorkerGoto("tx_mode", "tx_send")
  /\ mode' = "tx"
  /\ UNCHANGED <<state, queue, running, hand, cpc, items, inbox, sent, used>>

WorkerTxSend ==
  /\ WorkerGoto("tx_send", "tx_done")
  /\ sent' = Append(sent, hand)
  /\ hand' = None
  /\ UNCHANGED <<state, queue, running, cpc, items, mode, inbox, used>>

(* Mutant: the switch back to "receive" is missing.                        *)
WorkerTxNoSwitch ==
  /\ WorkerGoto("tx_done", "check")
  /\ UNCHANGED <<state, queue, running, hand, cpc, items, radioVars, used>>

(* Mutant: back to "idle" after a transmission.                            *)
WorkerTxDoneIdle ==
  /\ WorkerGoto("tx_done", "check")
  /\ state' = "idle"
  /\ UNCHANGED <<queue, running, hand, cpc, items, radioVars, used>>

(* set_state("receive"): "Auto-switch back to RX", whatever state is now.  *)
WorkerTxDone ==
  /\ WorkerGoto("tx_done", "check")
  /\ state' = "receive"
  /\ UNCHANGED <<queue, running, hand, cpc, items, radioVars, used>>

(* _do_receive *)
WorkerRxMode ==
  /\ WorkerGoto("rx_mode", "rx_poll")
  /\ mode' = "rx"
  /\ UNCHANGED <<state, queue, running, hand, cpc, items, inbox, sent, used>>

(* receive() is false, or read() hands over a packet and it is queued: on  *)
(* the queue _do_transmit sends from.                                      *)
WorkerRxPoll ==
  /\ WorkerGoto("rx_poll", "check")
  /\ \/ /\ inbox = <<>>
        /\ UNCHANGED <<queue, inbox>>
     \/ /\ inbox # <<>>
        /\ queue' = Append(queue, Head(inbox))
        /\ inbox' = Tail(inbox)
  /\ UNCHANGED <<state, running, hand, cpc, items, mode, sent, used>>

(* A radio call raises: nothing catches it and the worker thread ends, a   *)
(* message it holds with it.                                               *)
WorkerCrash ==
  /\ RadioMayFail
  /\ worker \in {"reset", "tx_mode", "tx_send", "rx_mode", "rx_poll"}
  /\ worker' = "stopped"
  /\ UNCHANGED <<state, queue, running, hand, cpc, items, radioVars, used>>

WorkerStep ==
  \/ WorkerCheck \/ WorkerRead \/ WorkerReset \/ WorkerSetIdle
  \/ WorkerTxGet \/ WorkerTxTimeout \/ WorkerTxMode \/ WorkerTxSend
  \/ WorkerTxDone \/ WorkerRxMode \/ WorkerRxPoll

(* Another unit transmits p.  The radio hears it only while in rx mode.    *)
Hear(p) ==
  /\ p \notin used
  /\ used' = used \cup {p}
  /\ inbox' = IF mode = "rx" THEN Append(inbox, p) ELSE inbox
  /\ UNCHANGED <<state, queue, running, threadVars, mode, sent>>

-----------------------------------------------------------------------------
(* The public methods, run by client threads.                              *)

ClientGoto(c, from, to) == cpc[c] = from /\ cpc' = [cpc EXCEPT ![c] = to]

(* queue_message(m): message_queue.put(msg) ... *)
QueuePut(c, m) ==
  /\ m \notin used
  /\ ClientGoto(c, "ready", "set_tx")
  /\ queue' = Append(queue, m)
  /\ used' = used \cup {m}
  /\ UNCHANGED <<state, running, worker, hand, items, radioVars>>

(* ... self.set_state("transmit"); the get_state() after it has no effect  *)
QueueTransmit(c) ==
  /\ ClientGoto(c, "set_tx", "look")
  /\ state' = "transmit"
  /\ UNCHANGED <<queue, running, worker, hand, items, radioVars, used>>

(* Mutant: the comparison is inverted.                                     *)
QueueLookInverted(c) ==
  /\ ClientGoto(c, "look", IF state = "receive" THEN "set_rx" ELSE "ready")
  /\ UNCHANGED <<state, queue, running, worker, hand, items, radioVars, used>>

(* ... if self.get_state() != "receive", or return *)
QueueLook(c) ==
  /\ ClientGoto(c, "look", IF state # "receive" THEN "set_rx" ELSE "ready")
  /\ UNCHANGED <<state, queue, running, worker, hand, items, radioVars, used>>

(* ... self.set_state("receive") and return *)
QueueReceive(c) ==
  /\ ClientGoto(c, "set_rx", "ready")
  /\ state' = "receive"
  /\ UNCHANGED <<queue, running, worker, hand, items, radioVars, used>>

(* set_state(s) *)
SetState(c, s) ==
  /\ cpc[c] = "ready"
  /\ state' = s
  /\ UNCHANGED <<queue, running, threadVars, radioVars, used>>

(* get_messages: called, while not message_queue.empty() ...               *)
CollectStart(c) ==
  /\ ClientGoto(c, "ready", "collect")
  /\ UNCHANGED <<state, queue, running, worker, hand, items, radioVars, used>>

CollectCheck(c) ==
  /\ ClientGoto(c, "collect", IF queue = <<>> THEN "ready" ELSE "take")
  /\ UNCHANGED <<state, queue, running, worker, hand, items, radioVars, used>>

(* ... message_queue.get(), which waits without a timeout                  *)
CollectTake(c) ==
  /\ queue # <<>>
  /\ ClientGoto(c, "take", "collect")
  /\ items' = [items EXCEPT ![c] = Append(@, Head(queue))]
  /\ queue' = Tail(queue)
  /\ UNCHANGED <<state, running, worker, hand, radioVars, used>>

(* shutdown: self.running = False, then worker.join()                      *)
ShutdownFlag(c) ==
  /\ ClientGoto(c, "ready", "join")
  /\ running' = FALSE
  /\ UNCHANGED <<state, queue, worker, hand, items, radioVars, used>>

ShutdownJoin(c) ==
  /\ worker = "stopped"
  /\ ClientGoto(c, "join", "ready")
  /\ UNCHANGED <<state, queue, running, worker, hand, items, radioVars, used>>

(* The steps of a call that is under way.                                  *)
QueueStep(c)  == QueueTransmit(c) \/ QueueLook(c) \/ QueueReceive(c)
ClientStep(c) == \/ QueueStep(c) \/ CollectCheck(c) \/ CollectTake(c)
                 \/ ShutdownJoin(c)

(* The calls a client may start.                                           *)
ClientCall(c) == \/ \E m \in Message : QueuePut(c, m)
                 \/ \E s \in EngineState : SetState(c, s)
                 \/ CollectStart(c)
                 \/ ShutdownFlag(c)

EngineNext ==
  \/ WorkerStep
  \/ WorkerCrash
  \/ \E p \in Packet : Hear(p)
  \/ \E c \in Client : ClientCall(c) \/ ClientStep(c)

EngineSpec == EngineInit /\ [][EngineNext]_engineVars

(* Threads that can run do run; nobody has to call, transmit or fail.      *)
EngineFairness ==
  /\ WF_engineVars(WorkerStep)
  /\ \A c \in Client : WF_engineVars(ClientStep(c))

FairEngineSpec == EngineSpec /\ EngineFairness

-----------------------------------------------------------------------------
(* Properties.                                                             *)

(* Where an item is: a slot of the queue, the worker's hand, a slot of a   *)
(* get_messages result, of the radio's inbox or of what was transmitted.   *)
Places(x) ==
  LET Slots(name, s) == {<<name, i>> : i \in {j \in DOMAIN s : s[j] = x}}
  IN  Slots("queue", queue) \cup Slots("inbox", inbox) \cup Slots("sent", sent)
        \cup (IF hand = x THEN {<<"hand", 1>>} ELSE {})
        \cup UNION {Slots(c, items[c]) : c \in Client}

(* A message given to queue_message is at every moment in exactly one      *)
(* place, and a packet in at most one (it is missed outside rx mode and    *)
(* forgotten by a reset): the worker's queue.get, the queue.get of several *)
(* get_messages calls and a worker that dies never lose a message or hand  *)
(* it out twice.                                                           *)
ExactlyOnePlace ==
  \A x \in used : /\ Cardinality(Places(x)) <= 1
                  /\ x \in Message => Places(x) # {}

(* shutdown() returns: once running is False the worker leaves _loop, from *)
(* whatever it was doing (the one-second wait for a message included), so  *)
(* worker.join() ends, whatever other threads call meanwhile.              *)
ShutdownReturns == \A c \in Client : cpc[c] = "join" ~> cpc[c] # "join"
=============================================================================
