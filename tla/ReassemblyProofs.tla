-------------------------- MODULE ReassemblyProofs --------------------------
(***************************************************************************)
(* Proofs about Reassembly, for any number of senders, messages of any     *)
(* number of chunks, and any timeout.                                      *)
(***************************************************************************)
EXTENDS Reassembly, TLAPS

(* A buffer is as old as its sender is silent.                             *)
AgeInv ==
  /\ silence \in [Sender -> 0 .. Timeout + 1]
  /\ DOMAIN buffers \subseteq Sender
  /\ \A s \in DOMAIN buffers :
       /\ DOMAIN buffers[s] = {"age", "batch", "chunks"}
       /\ buffers[s].age = silence[s]

(* A buffer holds the numbers of the chunks that came since it was opened; *)
(* its batch is the length of the message that opened it, and the last     *)
(* add_chunk raised exactly if that many are there.                        *)
HeldInv ==
  /\ result \in [Sender -> {"None", "TypeError"}]
  /\ got \in [Sender -> SUBSET Chunk]
  /\ opener = [s \in Sender |-> opener[s]]
  /\ \A s \in DOMAIN buffers :
       /\ buffers[s].batch = Total[opener[s]]
       /\ DOMAIN buffers[s].chunks = {c.id : c \in got[s]}
       /\ result[s] = "TypeError" <=>
            is_message_complete(buffers[s].chunks, buffers[s].batch)

IInv == AgeInv /\ HeldInv

-----------------------------------------------------------------------------
(* What add_chunk does to the buffers                                      *)

LEMMA AddedChunk ==
  ASSUME NEW s \in Sender, NEW c \in Chunk, AddChunk(s, c), IInv
  PROVE  LET b == buffers'[s]
         IN  /\ DOMAIN buffers' = DOMAIN buffers \cup {s}
             /\ \A t \in DOMAIN buffers \ {s} : buffers'[t] = buffers[t]
             /\ DOMAIN b = {"age", "batch", "chunks"} /\ b.age = 0
             /\ b.batch = BufferOf(s, c.msg).batch
             /\ DOMAIN b.chunks = DOMAIN BufferOf(s, c.msg).chunks \cup {c.id}
             /\ result'[s] = "TypeError" <=> is_message_complete(b.chunks, b.batch)
<1> USE DEF IInv, AgeInv, HeldInv
<1> DEFINE old == BufferOf(s, c.msg)
           buf == WithChunk(old, c)
<1>1. /\ buffers' = Put(buffers, s, buf)
      /\ result' = [result EXCEPT ![s] =
           IF is_message_complete(buf.chunks, buf.batch) THEN "TypeError"
                                                         ELSE "None"]
  BY DEF AddChunk
<1>2. DOMAIN old = {"age", "batch", "chunks"}
  BY DEF BufferOf
<1>3. /\ DOMAIN buf = {"age", "batch", "chunks"} /\ buf.age = 0
      /\ buf.batch = old.batch /\ buf.chunks = Put(old.chunks, c.id, c)
  <2> HIDE DEF old
  <2> QED BY <1>2 DEF WithChunk
<1>4. DOMAIN buf.chunks = DOMAIN old.chunks \cup {c.id}
  <2> HIDE DEF old, buf
  <2> QED BY <1>3 DEF Put
<1>5. /\ DOMAIN buffers' = DOMAIN buffers \cup {s} /\ buffers'[s] = buf
      /\ \A t \in DOMAIN buffers \ {s} : buffers'[t] = buffers[t]
  <2> HIDE DEF old, buf
  <2> QED BY <1>1 DEF Put
<1>6. result'[s] = "TypeError" <=> is_message_complete(buf.chunks, buf.batch)
  <2> HIDE DEF old, buf
  <2> QED BY <1>1
<1> HIDE DEF old, buf
<1> QED BY <1>3, <1>4, <1>5, <1>6 DEF old

LEMMA InitHolds == BuffersInit => IInv
BY ReassemblyAssumption DEF BuffersInit, IInv, AgeInv, HeldInv

LEMMA AgeStep == IInv /\ [BuffersNext]_bufferVars => AgeInv'
<1> SUFFICES ASSUME IInv, [BuffersNext]_bufferVars PROVE AgeInv' OBVIOUS
<1> USE ReassemblyAssumption
<1>1. ASSUME NEW s \in Sender, NEW c \in Chunk, AddChunk(s, c) PROVE AgeInv'
  <2>1. silence' = [silence EXCEPT ![s] = 0] BY <1>1 DEF AddChunk
  <2>2. /\ DOMAIN buffers' = DOMAIN buffers \cup {s}
        /\ \A t \in DOMAIN buffers \ {s} : buffers'[t] = buffers[t]
        /\ DOMAIN buffers'[s] = {"age", "batch", "chunks"} /\ buffers'[s].age = 0
    BY <1>1, AddedChunk
  <2> QED BY <2>1, <2>2 DEF IInv, AgeInv
<1>2. CASE cleanup
  BY <1>2 DEF cleanup, Restrict, IInv, AgeInv
<1>3. CASE Tick
  BY <1>3 DEF Tick, Older, IInv, AgeInv
<1>4. CASE UNCHANGED bufferVars BY <1>4 DEF bufferVars, IInv, AgeInv
<1> QED BY <1>1, <1>2, <1>3, <1>4 DEF BuffersNext

LEMMA HeldStep == IInv /\ [BuffersNext]_bufferVars => HeldInv'
<1> SUFFICES ASSUME IInv, [BuffersNext]_bufferVars PROVE HeldInv' OBVIOUS
<1>1. ASSUME NEW s \in Sender, NEW c \in Chunk, AddChunk(s, c) PROVE HeldInv'
  <2> DEFINE b == buffers'[s]
  <2>1. /\ got' = [got EXCEPT ![s] =
                     {c} \cup IF s \in DOMAIN buffers THEN @ ELSE {}]
        /\ result' \in [Sender -> {"None", "TypeError"}]
        /\ \A t \in Sender \ {s} : result'[t] = result[t]
        /\ opener' = [opener EXCEPT ![s] = IF s \in DOMAIN buffers THEN @ ELSE c.msg]
    BY <1>1 DEF AddChunk, IInv, HeldInv
  <2>2. /\ DOMAIN buffers' = DOMAIN buffers \cup {s}
        /\ \A t \in DOMAIN buffers \ {s} : buffers'[t] = buffers[t]
        /\ b.batch = BufferOf(s, c.msg).batch
        /\ DOMAIN b.chunks = DOMAIN BufferOf(s, c.msg).chunks \cup {c.id}
        /\ result'[s] = "TypeError" <=> is_message_complete(b.chunks, b.batch)
    BY <1>1, AddedChunk
  <2>3. c.msg \in Transmission BY DEF Chunk
  <2>4. /\ BufferOf(s, c.msg).batch = Total[opener'[s]]
        /\ DOMAIN BufferOf(s, c.msg).chunks =
             IF s \in DOMAIN buffers THEN {d.id : d \in got[s]} ELSE {}
    <3>0. opener'[s] = IF s \in DOMAIN buffers THEN opener[s] ELSE c.msg
      BY <2>1 DEF IInv, HeldInv
    <3>1. CASE s \in DOMAIN buffers BY <3>0, <3>1 DEF BufferOf, IInv, HeldInv
    <3>2. CASE s \notin DOMAIN buffers
      <4>1. BufferOf(s, c.msg) = [age |-> 0, batch |-> Total[c.msg], chunks |-> <<>>]
        BY <3>2 DEF BufferOf
      <4>2. DOMAIN <<>> = {} OBVIOUS
      <4> QED BY <2>3, <3>0, <3>2, <4>1, <4>2
    <3> QED BY <3>1, <3>2
  <2>5. DOMAIN b.chunks = {d.id : d \in got'[s]}
    BY <2>1, <2>2, <2>4 DEF IInv, HeldInv
  <2>6. /\ got' \in [Sender -> SUBSET Chunk]
        /\ opener' = [t \in Sender |-> opener'[t]]
    BY <2>1 DEF IInv, HeldInv
  <2>7. ASSUME NEW t \in DOMAIN buffers' \ {s}
        PROVE  /\ t \in DOMAIN buffers /\ buffers'[t] = buffers[t]
               /\ result'[t] = result[t] /\ got'[t] = got[t]
               /\ opener'[t] = opener[t]
    BY <2>1, <2>2, <2>7 DEF IInv, AgeInv, HeldInv
  <2> HIDE DEF b
  <2>8. ASSUME NEW t \in DOMAIN buffers' \ {s}
        PROVE  /\ buffers'[t].batch = Total[opener'[t]]
               /\ DOMAIN buffers'[t].chunks = {d.id : d \in got'[t]}
               /\ result'[t] = "TypeError" <=>
                    is_message_complete(buffers'[t].chunks, buffers'[t].batch)
    BY <2>7 DEF IInv, HeldInv
  <2> QED BY <2>1, <2>2, <2>4, <2>5, <2>6, <2>8 DEF HeldInv, b
<1>2. CASE cleanup
  BY <1>2 DEF cleanup, Restrict, IInv, HeldInv
<1>3. CASE Tick
  <2>1. /\ DOMAIN buffers' = DOMAIN buffers /\ UNCHANGED <<result, got, opener>>
        /\ \A s \in DOMAIN buffers : /\ buffers'[s].batch = buffers[s].batch
                                     /\ buffers'[s].chunks = buffers[s].chunks
    BY <1>3 DEF Tick, IInv, AgeInv
  <2> QED BY <2>1 DEF IInv, HeldInv
<1>4. CASE UNCHANGED bufferVars BY <1>4 DEF bufferVars, IInv, HeldInv
<1> QED BY <1>1, <1>2, <1>3, <1>4 DEF BuffersNext

(* The inductive invariant of the buffers                                  *)
THEOREM Invariant == BuffersSpec => []IInv
<1>1. IInv /\ [BuffersNext]_bufferVars => IInv' BY AgeStep, HeldStep DEF IInv
<1> QED BY <1>1, InitHolds, PTL DEF BuffersSpec

(* cleanup drops the chunks only of a sender that has been silent for      *)
(* longer than the timeout, however long its message takes: it reads the   *)
(* timestamp of the buffer, which add_chunk refreshes.                     *)
THEOREM SilentAreDropped == BuffersSpec => OnlySilentDropped
<1> DEFINE Kept == \A s \in DOMAIN buffers \ DOMAIN buffers' : silence[s] > Timeout
<1>1. IInv /\ [BuffersNext]_bufferVars => [Kept]_bufferVars
  <2> SUFFICES ASSUME IInv, BuffersNext PROVE Kept OBVIOUS
  <2>1. ASSUME NEW s \in Sender, NEW c \in Chunk, AddChunk(s, c) PROVE Kept
    <3>1. DOMAIN buffers' = DOMAIN buffers \cup {s} BY <2>1, AddedChunk
    <3> QED BY <3>1
  <2>2. CASE cleanup BY <2>2 DEF cleanup, Restrict, IInv, AgeInv
  <2>3. CASE Tick BY <2>3 DEF Tick
  <2> QED BY <2>1, <2>2, <2>3 DEF BuffersNext
<1> QED BY <1>1, Invariant, PTL DEF BuffersSpec, OnlySilentDropped

(* add_chunk returns None exactly as long as a number of the message that  *)
(* opened the buffer is missing, whatever the sender transmits, in any     *)
(* order and any number of times.                                          *)
THEOREM WholeAreNoticed == BuffersSpec => []WholeIsNoticed
<1>1. IInv => WholeIsNoticed
  <2> SUFFICES ASSUME IInv, NEW s \in DOMAIN buffers
      PROVE  result[s] = "None" <=>
               ~(1 .. Total[opener[s]] \subseteq {c.id : c \in got[s]})
    BY DEF WholeIsNoticed
  <2>1. /\ DOMAIN buffers[s].chunks = {c.id : c \in got[s]}
        /\ buffers[s].batch = Total[opener[s]]
        /\ result[s] = "TypeError" <=>
             \A i \in 1 .. Total[opener[s]] : i \in DOMAIN buffers[s].chunks
    BY DEF IInv, HeldInv, is_message_complete
  <2>2. result[s] \in {"None", "TypeError"} BY DEF IInv, AgeInv, HeldInv
  <2> QED BY <2>1, <2>2
<1> QED BY <1>1, Invariant, PTL
=============================================================================
