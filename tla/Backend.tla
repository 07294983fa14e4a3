------------------------------ MODULE Backend ------------------------------
(***************************************************************************)
(* backend/main.py on top of the engine: Flask serves each request on a    *)
(* thread of its own (a Client), all of them share one LoRaEngine and the  *)
(* file messages/messages.json, one JSON object per line.  The process may *)
(* be stopped, killed and started again; the file survives it.             *)
(*                                                                         *)
(* An entry is appended with one write() of a file opened with "a", which  *)
(* the operating system does not interleave with another append.  A record *)
(* of the file is [msg, whole]: a record that is not whole was cut short,  *)
(* has no newline, and shares its line with the record appended after it.  *)
(***************************************************************************)
EXTENDS LoRaEngine

CONSTANTS
  Main,         \* the main thread: starts the server, calls shutdown at exit
  ToSend,       \* to_send.json: chunk id -> batch id; no code writes it
  SaveMayFail,  \* may opening or writing the file raise?
  TornWrites,   \* may a write that fails or is killed leave part of an entry?
  MaxRestarts   \* bound: how often the process is killed and started again

(* The batch ids in to_send.json, with the default of last_batch_id.       *)
Batches(file) == {file[k] : k \in DOMAIN file} \cup {0}

ASSUME BackendAssumption ==
  /\ IsFiniteSet(Client)
  /\ Main \in Client
  /\ SaveMayFail \in BOOLEAN /\ TornWrites \in BOOLEAN
  /\ MaxRestarts \in Nat
  /\ DOMAIN ToSend \subseteq Nat
  /\ \A k \in DOMAIN ToSend : ToSend[k] \in Nat
  /\ \E i \in DOMAIN ToSend \cup {0} : \A j \in DOMAIN ToSend : j <= i
  /\ \E b \in Batches(ToSend) : \A k \in DOMAIN ToSend : ToSend[k] <= b

Handler == Client \ {Main}

VARIABLES
  hpc,        \* where each request thread is in send_message
  entry,      \* the message whose send_message a request thread runs, or None
  ids,        \* batch and chunk id of each entry built, 0 before
  log,        \* messages/messages.json
  acked,      \* messages answered with "success" (history)
  failed,     \* messages whose save raised, swallowed by the handler (history)
  restarts    \* number of restarts so far

fileVars    == <<log, acked, failed>>
backendVars == <<hpc, entry, ids, fileVars, restarts>>
vars        == <<engineVars, backendVars>>

Record == [msg : Message, whole : BOOLEAN]

TypeOK ==
  /\ EngineTypeOK
  /\ hpc \in [Handler -> {"free", "queueing", "save", "reply"}]
  /\ entry \in [Handler -> Message \cup {None}]
  /\ ids \in [Message -> [batch : Nat, chunk : Nat]]
  /\ log \in Seq(Record)
  /\ acked \subseteq Message
  /\ failed \subseteq Message
  /\ restarts \in Nat

(* Start-up constructs the engine and sets it idle, which it already is.   *)
Init ==
  /\ EngineInit
  /\ hpc = [h \in Handler |-> "free"]
  /\ entry = [h \in Handler |-> None]
  /\ ids = [m \in Message |-> [batch |-> 0, chunk |-> 0]]
  /\ log = <<>>
  /\ acked = {}
  /\ failed = {}
  /\ restarts = 0

-----------------------------------------------------------------------------
(* POST /api/send.  A request with a missing field is answered 400 before  *)
(* anything changes and is not a step.                                     *)

(* Parser.last_chunk_id: the largest key of to_send.json, 0 if none.       *)
last_chunk_id == CHOOSE i \in DOMAIN ToSend \cup {0} :
                   \A j \in DOMAIN ToSend : j <= i

generate_chunk_id == last_chunk_id + 1

(* Parser.last_batch_id: the largest batch id in to_send.json, 0 if none.  *)
last_batch_id == CHOOSE b \in Batches(ToSend) :
                   \A k \in DOMAIN ToSend : ToSend[k] <= b

generate_batch_id == last_batch_id + 1

HandlerGoto(h, from, to) == hpc[h] = from /\ hpc' = [hpc EXCEPT ![h] = to]

(* Mutant: new_entry keeps its previous value.                             *)
SendStartStaleEntry(h, m) ==
  /\ HandlerGoto(h, "free", "queueing")
  /\ QueuePut(h, m)
  /\ ids' = [ids EXCEPT ![m] = [batch |-> generate_batch_id,
                                chunk |-> generate_chunk_id]]
  /\ UNCHANGED <<entry, fileVars, restarts>>

(* The entry is built and lora_engine.queue_message(new_entry) is called.  *)
(* A request accepted before the server stopped may still do so after it.  *)
SendStart(h, m) ==
  /\ HandlerGoto(h, "free", "queueing")
  /\ QueuePut(h, m)
  /\ entry' = [entry EXCEPT ![h] = m]
  /\ ids' = [ids EXCEPT ![m] = [batch |-> generate_batch_id,
                                chunk |-> generate_chunk_id]]
  /\ UNCHANGED <<fileVars, restarts>>

SendQueueing(h) ==
  /\ QueueStep(h)
  /\ UNCHANGED backendVars

SendQueued(h) ==
  /\ cpc[h] = "ready"
  /\ HandlerGoto(h, "queueing", "save")
  /\ UNCHANGED <<engineVars, entry, ids, fileVars, restarts>>

(* save_message_manually appends the entry ...                             *)
SendSave(h) ==
  /\ HandlerGoto(h, "save", "reply")
  /\ log' = Append(log, [msg |-> entry[h], whole |-> TRUE])
  /\ UNCHANGED <<engineVars, entry, ids, acked, failed, restarts>>

(* ... or raises, which it catches and prints, and the handler goes on.    *)
SendSaveFail(h) ==
  /\ SaveMayFail
  /\ HandlerGoto(h, "save", "reply")
  /\ failed' = failed \cup {entry[h]}
  /\ \/ UNCHANGED log
     \/ TornWrites /\ log' = Append(log, [msg |-> entry[h], whole |-> FALSE])
  /\ UNCHANGED <<engineVars, entry, ids, acked, restarts>>

(* os.makedirs, outside its try, raises: 500, with the message queued.     *)
SendSaveRaise(h) ==
  /\ SaveMayFail
  /\ HandlerGoto(h, "save", "free")
  /\ entry' = [entry EXCEPT ![h] = None]
  /\ UNCHANGED <<engineVars, ids, fileVars, restarts>>

(* {"status": "success"}, 200 *)
SendReply(h) ==
  /\ HandlerGoto(h, "reply", "free")
  /\ acked' = acked \cup {entry[h]}
  /\ entry' = [entry EXCEPT ![h] = None]
  /\ UNCHANGED <<engineVars, ids, log, failed, restarts>>

SendStep(h) == \/ SendQueueing(h) \/ SendQueued(h)
               \/ SendSave(h) \/ SendSaveFail(h) \/ SendSaveRaise(h) \/ SendReply(h)

-----------------------------------------------------------------------------
(* GET /api/messages/messages.json reads the file as it is and changes     *)
(* nothing.  json.loads raises on a cut line, or on a line two records     *)
(* share, and the whole request is answered 500.                           *)

Readable(file) == \A i \in DOMAIN file : file[i].whole

(* Mutant: a line that does not parse is answered with an empty list.      *)
source_messages_lenient(file) ==
  [status |-> 200,
   data   |-> IF Readable(file) THEN [i \in DOMAIN file |-> file[i].msg]
                                ELSE <<>>]

source_messages(file) ==
  [status |-> IF Readable(file) THEN 200 ELSE 500,
   data   |-> IF Readable(file) THEN [i \in DOMAIN file |-> file[i].msg]
                                ELSE <<>>]

-----------------------------------------------------------------------------
(* The process.                                                            *)

(* app.run returned: cleanup_gpio calls shutdown, once.                    *)
Stop ==
  /\ running
  /\ ShutdownFlag(Main)
  /\ UNCHANGED backendVars

Exit ==
  /\ ShutdownJoin(Main)
  /\ UNCHANGED backendVars

(* The process ends, at any moment, and is started again.  What it held in *)
(* memory is gone; a request thread inside its write may leave part of it. *)
Restart ==
  /\ restarts < MaxRestarts
  /\ restarts' = restarts + 1
  /\ state' = "idle"
  /\ queue' = <<>>
  /\ running' = TRUE
  /\ worker' = "check"
  /\ hand' = None
  /\ cpc' = [c \in Client |-> "ready"]
  /\ items' = [c \in Client |-> <<>>]
  /\ mode' = "standby"
  /\ inbox' = <<>>
  /\ hpc' = [h \in Handler |-> "free"]
  /\ entry' = [h \in Handler |-> None]
  /\ \/ UNCHANGED log
     \/ /\ TornWrites
        /\ \E h \in Handler :
             /\ hpc[h] = "save"
             /\ log' = Append(log, [msg |-> entry[h], whole |-> FALSE])
  /\ UNCHANGED <<sent, used, ids, acked, failed>>

EngineStep ==
  /\ WorkerStep \/ WorkerCrash \/ (\E p \in Packet : Hear(p))
  /\ UNCHANGED backendVars

Next ==
  \/ EngineStep
  \/ \E h \in Handler : (\E m \in Message : SendStart(h, m)) \/ SendStep(h)
  \/ Stop
  \/ Exit
  \/ Restart

Spec == Init /\ [][Next]_vars

(* The worker, every request under way and a main thread that waits for    *)
(* the worker are running threads; nobody has to send, read, stop or kill. *)
Fairness ==
  /\ WF_vars(WorkerStep /\ UNCHANGED backendVars)
  /\ \A h \in Handler : WF_vars(SendStep(h))
  /\ WF_vars(Exit)

FairSpec == Spec /\ Fairness

-----------------------------------------------------------------------------
(* Safety.                                                                 *)

(* The worker never enters _do_transmit with nothing to send: whichever    *)
(* requests run, each "transmit" the worker acts on has a message of its   *)
(* own left in the queue, so get(timeout=1) never raises queue.Empty.      *)
TransmitFindsMessage == worker = "tx_get" => queue # <<>>

(* The engine is in the state "transmit" only while some queue_message is  *)
(* still between its set_state("transmit") and its return: no interleaving *)
(* of requests and worker leaves the engine transmitting, deaf to packets. *)
TransmitOnlyInCall ==
  state = "transmit" => \E h \in Handler : cpc[h] \in {"look", "set_rx"}

(* Once a message was queued the engine never falls back to "idle", where  *)
(* it neither sends nor listens, until the process is started again.       *)
NeverIdleAgain ==
  [][state # "idle" /\ state' = "idle" => restarts' # restarts]_vars

(* Every message answered with "success" is in what GET /api/messages      *)
(* returns, unless its own save raised; in particular the GET is answered. *)
(* Holds as long as no append is cut short.                                *)
FeedServesAcked ==
  LET response == source_messages(log)
  IN  \A m \in acked \ failed : \E i \in DOMAIN response.data :
                                   response.data[i] = m

(* A GET that is answered 200 leaves no acknowledged message out and shows *)
(* none that was cut short, whatever writes failed or were killed before:  *)
(* a damaged file makes the GET fail, it never makes messages disappear.   *)
FeedNeverPartial ==
  LET response == source_messages(log)
      Shown == {response.data[i] : i \in DOMAIN response.data}
      Cut   == {log[i].msg : i \in {j \in DOMAIN log : ~log[j].whole}}
  IN  response.status = 200 => acked \ failed \subseteq Shown /\ Shown \cap Cut = {}

(* The engine under these requests implements the outbox: what is in the   *)
(* worker's hand, then the queue, is what it still has to transmit.        *)
Waiting == IF hand = None THEN queue ELSE <<hand>> \o queue

Box == INSTANCE Outbox WITH waiting <- Waiting, aired <- sent, life <- restarts

(* Messages and packets taken into the queue are transmitted at most once  *)
(* and in the order they were queued, and none is dropped but by a restart *)
(* of the process, in every interleaving of the worker and the requests.   *)
OutboxSpec == Box!Spec

-----------------------------------------------------------------------------
(* Liveness.                                                               *)

(* A message that was queued is followed by the radio listening again,     *)
(* whatever other requests do meanwhile and whether or not their entries   *)
(* can be saved: only a shutdown, a restart or a radio call that raises    *)
(* comes between.                                                          *)
ListensAgain ==
  \A r \in 0 .. MaxRestarts :
    (state # "idle" /\ restarts = r) ~>
      (mode = "rx" \/ ~running \/ worker = "stopped" \/ restarts # r)

(* A message accepted by queue_message is transmitted, unless the engine   *)
(* is shut down.                                                           *)
EveryMessageTransmitted ==
  \A m \in Message :
    m \in used ~> ((\E i \in DOMAIN sent : sent[i] = m) \/ ~running)

-----------------------------------------------------------------------------
(* The inductive invariant behind the safety properties.                   *)

(* Requests that have put their message and not yet set "transmit".        *)
Pending == {h \in Handler : cpc[h] = "set_tx"}

(* The worker is about to take a message, or will be if it reads the state *)
(* now: a worker past its get will overwrite the state, a stopped one will *)
(* not read it.                                                            *)
Owed == \/ worker = "tx_get"
        \/ state = "transmit" /\ worker \in {"check", "read", "rx_mode", "rx_poll"}

(* No request sets "reset" or an unknown state; the main thread only waits *)
(* for the worker.                                                         *)
NoOtherCalls ==
  /\ state \in {"idle", "transmit", "receive"}
  /\ worker \notin {"reset", "set_idle"}
  /\ \A h \in Handler : cpc[h] \in {"ready", "set_tx", "look", "set_rx"}
  /\ cpc[Main] \in {"ready", "join"}

(* A message is in the worker's hand exactly between its get and its send, *)
(* or for good in the hand of a worker that died there.                    *)
HandInv ==
  /\ worker \in {"tx_mode", "tx_send"} => hand # None
  /\ worker \notin {"tx_mode", "tx_send", "stopped"} => hand = None

(* Each request short of its set_state("transmit"), and the worker if it   *)
(* is owed one, has a message of its own in the queue.                     *)
QueueInv ==
  Len(queue) >= Cardinality(Pending) + (IF Owed THEN 1 ELSE 0)

(* The file holds the whole entry of m.                                    *)
Stored(m) == \E i \in DOMAIN log : log[i].msg = m /\ log[i].whole

(* A request under way has an entry; an entry that is about to be, or was, *)
(* answered "success" is in the file unless its save failed.               *)
SaveInv ==
  /\ \A h \in Handler : hpc[h] # "free" => entry[h] \in Message
  /\ \A h \in Handler : hpc[h] = "reply" /\ entry[h] \notin failed => Stored(entry[h])
  /\ \A m \in acked \ failed : Stored(m)
  /\ ~TornWrites => Readable(log)

IInv == TypeOK /\ NoOtherCalls /\ HandInv /\ QueueInv /\ TransmitOnlyInCall /\ SaveInv
=============================================================================
