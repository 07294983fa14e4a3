----------------------------- MODULE Reassembly -----------------------------
(***************************************************************************)
(* MessageStream's buffers, backend/stream.py: chunks of messages arrive   *)
(* over the air in any order, more than once or never, and add_chunk       *)
(* collects them per sender.  The value passed as chunk_batch is the       *)
(* number of chunks of the message ("batch": total).                       *)
(*                                                                         *)
(* Time is counted in units of which timeout is Timeout; a buffer keeps    *)
(* the age of its timestamp instead of the timestamp.                      *)
(***************************************************************************)
EXTENDS Naturals, FiniteSets, Functions

CONSTANTS
  Sender,
  Transmission,  \* messages a sender may cut into chunks and transmit
  Total,         \* the number of chunks of each message
  Timeout        \* self.timeout

ASSUME ReassemblyAssumption ==
  /\ Total \in [Transmission -> Nat \ {0}]
  /\ Timeout \in Nat

VARIABLES
  buffers,  \* self.buffers: a function on the senders that have one; age is
            \* the time since its timestamp, capped at Timeout + 1
  result,   \* how the last add_chunk for each sender ended: "None", "TypeError"
  silence,  \* time since the last chunk of each sender, capped (history)
  got,      \* chunks of each sender since its buffer was opened (history)
  opener    \* the message whose chunk opened the buffer (history)

bufferVars == <<buffers, result, silence, got, opener>>

Chunk == UNION {[msg : {m}, id : 1 .. Total[m]] : m \in Transmission}

BuffersInit ==
  /\ buffers = <<>>
  /\ result = [s \in Sender |-> "None"]
  /\ silence = [s \in Sender |-> 0]
  /\ got = [s \in Sender |-> {}]
  /\ opener = [s \in Sender |-> CHOOSE m \in Transmission : TRUE]

(* Mutant: the last chunk is not waited for, range(1, batch_size).         *)
is_message_complete_short(chunks, batch_size) ==
  \A i \in 1 .. batch_size - 1 : i \in DOMAIN chunks

(* Parser.is_message_complete *)
is_message_complete(chunks, batch_size) ==
  \A i \in 1 .. batch_size : i \in DOMAIN chunks

(* self.buffers[sender], created if it is not there.                       *)
BufferOf(s, m) ==
  IF s \in DOMAIN buffers THEN buffers[s]
  ELSE [age |-> 0, batch |-> Total[m], chunks |-> <<>>]

(* f[k] = v in a Python dictionary: k is added if it is not there.         *)
Put(f, k, v) == [x \in DOMAIN f \cup {k} |-> IF x = k THEN v ELSE f[x]]

(* Mutant: the timestamp is not refreshed.                                 *)
WithChunkStale(b, c) == [b EXCEPT !.chunks = Put(@, c.id, c)]

(* buf["chunks"][chunk_id] = message; buf["timestamp"] = time.time() *)
WithChunk(b, c) == [b EXCEPT !.chunks = Put(@, c.id, c), !.age = 0]

(* add_chunk.  The total is noted by the chunk that opens the buffer.      *)
(* When every number is there it calls reassemble_chunks with two of its   *)
(* three arguments: that raises TypeError, and the del after it is not     *)
(* reached, so the next message of that sender meets the same buffer.      *)
AddChunk(s, c) ==
  LET buf == WithChunk(BufferOf(s, c.msg), c)
  IN  /\ buffers' = Put(buffers, s, buf)
      /\ result' = [result EXCEPT ![s] =
           IF is_message_complete(buf.chunks, buf.batch) THEN "TypeError"
                                                         ELSE "None"]
      /\ silence' = [silence EXCEPT ![s] = 0]
      /\ got' = [got EXCEPT ![s] = {c} \cup IF s \in DOMAIN buffers THEN @ ELSE {}]
      /\ opener' = [opener EXCEPT ![s] = IF s \in DOMAIN buffers THEN @ ELSE c.msg]

(* cleanup: buffers whose last chunk is older than the timeout are deleted *)
cleanup ==
  LET expired == {s \in DOMAIN buffers : buffers[s].age > Timeout}
  IN  /\ expired # {}
      /\ buffers' = Restrict(buffers, DOMAIN buffers \ expired)
      /\ UNCHANGED <<result, silence, got, opener>>

Older(age) == IF age > Timeout THEN age ELSE age + 1

(* A unit of time passes.                                                  *)
Tick ==
  /\ buffers' = [s \in DOMAIN buffers |->
                   [buffers[s] EXCEPT !.age = Older(@)]]
  /\ silence' = [s \in Sender |-> Older(silence[s])]
  /\ UNCHANGED <<result, got, opener>>

BuffersNext ==
  \/ \E s \in Sender, c \in Chunk : AddChunk(s, c)
  \/ cleanup
  \/ Tick

BuffersSpec == BuffersInit /\ [][BuffersNext]_bufferVars

-----------------------------------------------------------------------------
(* Properties.                                                             *)

(* cleanup never takes the buffer of a sender that is still transmitting:  *)
(* chunks collected so far are dropped only when the sender has been       *)
(* silent for longer than the timeout, however long its message takes.     *)
OnlySilentDropped ==
  [][\A s \in DOMAIN buffers \ DOMAIN buffers' : silence[s] > Timeout]_bufferVars

(* add_chunk returns None exactly as long as one of the numbers 1 .. total *)
(* is missing, total being that of the message that opened the buffer:     *)
(* chunks that come twice, out of order, after their buffer expired or     *)
(* between those of other messages of the same sender never hide a missing *)
(* number or a number that came.  In particular that message is noticed as *)
(* soon as it is whole.  (What add_chunk does instead of returning None,   *)
(* and that chunks of two messages are counted as those of one, is what    *)
(* WholeIsReturned is about.)                                              *)
WholeIsNoticed ==
  \A s \in DOMAIN buffers :
    result[s] = "None" <=> ~(1 .. Total[opener[s]] \subseteq {c.id : c \in got[s]})

(* Every chunk of the message came since the buffer was opened.            *)
Whole(s, m) == [msg : {m}, id : 1 .. Total[m]] \subseteq got[s]

(* The docstring of add_chunk (stream.py:24-26): "Returns: None if still   *)
(* incomplete, Assembled message (string) if complete".                    *)
WholeIsReturned ==
  \A s \in DOMAIN buffers :
    result[s] = IF \E m \in Transmission : Whole(s, m) THEN "text" ELSE "None"
=============================================================================
