--------------------------- MODULE BackendProofs ----------------------------
(***************************************************************************)
(* Proofs about LoRaEngine and about Backend, which extends it.            *)
(*                                                                         *)
(* Part 1, the engine alone: for any set of client threads that call any   *)
(* public method in any order, any messages and packets, and a radio that  *)
(* may fail, every queued message is in exactly one place.  Nothing in it  *)
(* rests on BackendAssumption.                                             *)
(*                                                                         *)
(* Part 2, the engine under the backend's requests: for any set of request *)
(* threads, messages and packets, any number of restarts and whatever may  *)
(* fail.                                                                   *)
(***************************************************************************)
EXTENDS Backend, FiniteSetTheorems, TLAPS

-----------------------------------------------------------------------------
(* Part 1: the engine alone                                                *)

(* The worker holds a message between get and send, or died with it.       *)
HandOk ==
  /\ hand # None => worker \in {"tx_mode", "tx_send", "stopped"}
  /\ worker \in {"tx_mode", "tx_send"} => hand \in Item

(* What a sequence holds, and that it holds nothing twice                  *)
Ran(s) == {s[i] : i \in DOMAIN s}

Inj(s) == \A i, j \in DOMAIN s : s[i] = s[j] => i = j

Held == {hand} \ {None}

(* No item is in two places, every place holds used items, and a used      *)
(* message is somewhere.                                                   *)
PlaceInv ==
  /\ Inj(queue) /\ Inj(inbox) /\ Inj(sent) /\ \A c \in Client : Inj(items[c])
  /\ Ran(queue) \cap Ran(inbox) = {} /\ Ran(queue) \cap Ran(sent) = {}
  /\ Ran(inbox) \cap Ran(sent) = {}
  /\ Held \cap (Ran(queue) \cup Ran(inbox) \cup Ran(sent)) = {}
  /\ \A c \in Client :
       /\ Ran(items[c]) \cap (Ran(queue) \cup Ran(inbox) \cup Ran(sent) \cup Held) = {}
       /\ \A d \in Client \ {c} : Ran(items[c]) \cap Ran(items[d]) = {}
       /\ Ran(items[c]) \subseteq used
  /\ Ran(queue) \cup Ran(inbox) \cup Ran(sent) \cup Held \subseteq used
  /\ \A x \in used \cap Message :
       \/ x \in Ran(queue) \cup Ran(sent) \cup Held
       \/ \E c \in Client : x \in Ran(items[c])

EngineIInv == EngineTypeOK /\ HandOk /\ PlaceInv

-----------------------------------------------------------------------------
(* Sequences                                                               *)

LEMMA AppendHolds ==
  ASSUME NEW S, NEW s \in Seq(S), NEW e \in S
  PROVE  /\ Append(s, e) \in Seq(S)
         /\ Ran(Append(s, e)) = Ran(s) \cup {e}
         /\ Inj(s) /\ e \notin Ran(s) => Inj(Append(s, e))
<1>1. /\ Append(s, e) \in Seq(S) /\ Len(Append(s, e)) = Len(s) + 1
      /\ Append(s, e)[Len(s) + 1] = e
      /\ \A i \in 1 .. Len(s) : Append(s, e)[i] = s[i]
      /\ DOMAIN s = 1 .. Len(s) /\ DOMAIN Append(s, e) = 1 .. Len(s) + 1
      /\ Len(s) \in Nat
  OBVIOUS
<1>2. \A i \in 1 .. Len(s) + 1 : i \in 1 .. Len(s) \/ i = Len(s) + 1 BY <1>1
<1>3. 1 .. Len(s) \subseteq 1 .. Len(s) + 1 /\ Len(s) + 1 \in 1 .. Len(s) + 1 BY <1>1
<1>4. Ran(Append(s, e)) = Ran(s) \cup {e} BY <1>1, <1>2, <1>3 DEF Ran
<1>5. Inj(s) /\ e \notin Ran(s) => Inj(Append(s, e))
  BY <1>1, <1>2 DEF Ran, Inj
<1> QED BY <1>1, <1>4, <1>5

LEMMA TailHolds ==
  ASSUME NEW S, NEW s \in Seq(S), s # <<>>, Inj(s)
  PROVE  /\ Tail(s) \in Seq(S) /\ Head(s) \in S /\ Head(s) \in Ran(s)
         /\ Ran(Tail(s)) = Ran(s) \ {Head(s)}
         /\ Inj(Tail(s))
<1>1. /\ Tail(s) \in Seq(S) /\ Len(Tail(s)) = Len(s) - 1 /\ Head(s) = s[1] /\ Head(s) \in S
      /\ \A i \in 1 .. Len(s) - 1 : Tail(s)[i] = s[i + 1]
      /\ DOMAIN s = 1 .. Len(s) /\ DOMAIN Tail(s) = 1 .. Len(s) - 1
      /\ Len(s) \in Nat \ {0}
  OBVIOUS
<1>2. \A i \in 1 .. Len(s) - 1 : i + 1 \in 1 .. Len(s) /\ i + 1 # 1 BY <1>1
<1>3. \A i \in 1 .. Len(s) : i # 1 => i - 1 \in 1 .. Len(s) - 1 /\ (i - 1) + 1 = i BY <1>1
<1>4. 1 \in 1 .. Len(s) BY <1>1
<1>5. Ran(Tail(s)) \subseteq Ran(s) \ {Head(s)} BY <1>1, <1>2, <1>4 DEF Ran, Inj
<1>6. ASSUME NEW x \in Ran(s), x # Head(s) PROVE x \in Ran(Tail(s))
  <2>1. PICK i \in 1 .. Len(s) : x = s[i] BY <1>1 DEF Ran
  <2>2. i - 1 \in 1 .. Len(s) - 1 /\ Tail(s)[i - 1] = x BY <1>1, <1>3, <1>6, <2>1
  <2> QED BY <1>1, <2>2 DEF Ran
<1>7. Inj(Tail(s))
  <2> SUFFICES ASSUME NEW i \in 1 .. Len(s) - 1, NEW j \in 1 .. Len(s) - 1,
                      Tail(s)[i] = Tail(s)[j]
               PROVE  i = j
    BY <1>1 DEF Inj
  <2>1. s[i + 1] = s[j + 1] BY <1>1
  <2>2. i + 1 = j + 1 BY <1>1, <1>2, <2>1 DEF Inj
  <2> QED BY <1>1, <2>2
<1>8. Head(s) \in Ran(s) BY <1>1, <1>4 DEF Ran
<1> QED BY <1>1, <1>5, <1>6, <1>7, <1>8

LEMMA EmptyHolds == Ran(<<>>) = {} /\ Inj(<<>>)
BY DEF Ran, Inj

-----------------------------------------------------------------------------
(* Steps that leave every place as it is                                   *)
LEMMA PlacesKept ==
  ASSUME PlaceInv, UNCHANGED <<queue, hand, items, inbox, sent, used>>
  PROVE  PlaceInv'
BY DEF PlaceInv, Held

(* The worker                                                              *)
LEMMA WorkerKeeps ==
  ASSUME EngineIInv, WorkerStep \/ WorkerCrash
  PROVE  EngineIInv'
<1> USE DEF WorkerGoto, radioVars, threadVars
<1>1. CASE WorkerCheck
  BY <1>1, PlacesKept DEF WorkerCheck, EngineIInv, EngineTypeOK, WorkerPC, HandOk
<1>2. CASE WorkerRead
  BY <1>2, PlacesKept DEF WorkerRead, EngineIInv, EngineTypeOK, WorkerPC, HandOk, Branch, EngineState
<1>3. CASE WorkerReset
  <2>1. EngineTypeOK' /\ HandOk'
    BY <1>3 DEF WorkerReset, EngineIInv, EngineTypeOK, WorkerPC, HandOk
  <2>2. Ran(inbox') = {} /\ Inj(inbox') BY <1>3, EmptyHolds DEF WorkerReset
  <2>3. UNCHANGED <<queue, hand, items, sent, used>> BY <1>3 DEF WorkerReset
  <2>4. PlaceInv' BY <2>2, <2>3 DEF EngineIInv, PlaceInv, Held
  <2> QED BY <2>1, <2>4 DEF EngineIInv
<1>4. CASE WorkerSetIdle
  BY <1>4, PlacesKept DEF WorkerSetIdle, EngineIInv, EngineTypeOK, WorkerPC, HandOk, EngineState
<1>5. CASE WorkerTxGet
  <2> DEFINE h == Head(queue)
  <2>1. /\ queue # <<>> /\ hand' = h /\ queue' = Tail(queue) /\ worker' = "tx_mode"
        /\ UNCHANGED <<state, running, cpc, items, mode, inbox, sent, used>>
        /\ worker = "tx_get"
    BY <1>5 DEF WorkerTxGet
  <2>2. hand = None BY <2>1 DEF EngineIInv, HandOk
  <2>3. /\ Tail(queue) \in Seq(Item) /\ h \in Item /\ h \in Ran(queue)
        /\ Ran(queue') = Ran(queue) \ {h} /\ Inj(queue')
    BY <2>1, TailHolds DEF EngineIInv, EngineTypeOK, PlaceInv
  <2>4. h # None BY <2>3, EngineAssumption DEF Item
  <2>5. Held' = {h} /\ Held = {} BY <2>1, <2>2, <2>4 DEF Held
  <2>6. EngineTypeOK' BY <2>1, <2>3 DEF EngineIInv, EngineTypeOK, WorkerPC
  <2>7. HandOk' BY <2>1, <2>3 DEF HandOk
  <2> HIDE DEF h
  <2>8. PlaceInv'
    <3>1. PlaceInv /\ h \in used /\ Ran(queue') \cup Held' = Ran(queue)
      BY <2>3, <2>5 DEF EngineIInv, PlaceInv
    <3>2. /\ Inj(queue') /\ Inj(inbox') /\ Inj(sent') /\ \A c \in Client : Inj(items'[c])
      BY <2>1, <2>3, <3>1 DEF PlaceInv
    <3>3. /\ Ran(queue') \cap Ran(inbox') = {} /\ Ran(queue') \cap Ran(sent') = {}
          /\ Ran(inbox') \cap Ran(sent') = {}
          /\ Held' \cap (Ran(queue') \cup Ran(inbox') \cup Ran(sent')) = {}
      BY <2>1, <2>3, <2>5, <3>1 DEF PlaceInv
    <3>4. \A c \in Client :
            /\ Ran(items'[c]) \cap (Ran(queue') \cup Ran(inbox') \cup Ran(sent') \cup Held') = {}
            /\ \A d \in Client \ {c} : Ran(items'[c]) \cap Ran(items'[d]) = {}
            /\ Ran(items'[c]) \subseteq used'
      BY <2>1, <3>1 DEF PlaceInv
    <3>5. Ran(queue') \cup Ran(inbox') \cup Ran(sent') \cup Held' \subseteq used'
      BY <2>1, <3>1 DEF PlaceInv
    <3>6. \A x \in used' \cap Message :
            \/ x \in Ran(queue') \cup Ran(sent') \cup Held'
            \/ \E c \in Client : x \in Ran(items'[c])
      BY <2>1, <2>5, <3>1 DEF PlaceInv
    <3> QED BY <3>2, <3>3, <3>4, <3>5, <3>6 DEF PlaceInv
  <2> QED BY <2>6, <2>7, <2>8 DEF EngineIInv
<1>6. CASE WorkerTxTimeout
  BY <1>6, PlacesKept DEF WorkerTxTimeout, EngineIInv, EngineTypeOK, WorkerPC, HandOk
<1>7. CASE WorkerTxMode
  BY <1>7, PlacesKept DEF WorkerTxMode, EngineIInv, EngineTypeOK, WorkerPC, HandOk
<1>8. CASE WorkerTxSend
  <2>1. /\ sent' = Append(sent, hand) /\ hand' = None /\ worker = "tx_send"
        /\ worker' = "tx_done"
        /\ UNCHANGED <<state, queue, running, cpc, items, mode, inbox, used>>
    BY <1>8 DEF WorkerTxSend
  <2>2. hand \in Item /\ hand # None
    BY <2>1, EngineAssumption DEF EngineIInv, HandOk, Item
  <2>3. hand \notin Ran(sent) /\ Inj(sent) /\ sent \in Seq(Item)
    BY <2>2 DEF EngineIInv, PlaceInv, Held, EngineTypeOK
  <2>4. /\ Append(sent, hand) \in Seq(Item) /\ Ran(sent') = Ran(sent) \cup {hand}
        /\ Inj(sent')
    BY <2>1, <2>2, <2>3, AppendHolds
  <2>5. Held = {hand} /\ Held' = {} BY <2>1, <2>2 DEF Held
  <2>6. EngineTypeOK' BY <2>1, <2>4 DEF EngineIInv, EngineTypeOK, WorkerPC
  <2>7. HandOk' BY <2>1 DEF HandOk
  <2>8. PlaceInv' BY <2>1, <2>4, <2>5 DEF EngineIInv, PlaceInv
  <2> QED BY <2>6, <2>7, <2>8 DEF EngineIInv
<1>9. CASE WorkerTxDone
  BY <1>9, PlacesKept DEF WorkerTxDone, EngineIInv, EngineTypeOK, WorkerPC, HandOk, EngineState
<1>10. CASE WorkerRxMode
  BY <1>10, PlacesKept DEF WorkerRxMode, EngineIInv, EngineTypeOK, WorkerPC, HandOk
<1>11. CASE WorkerRxPoll
  <2>1. CASE inbox = <<>>
    BY <1>11, <2>1, PlacesKept DEF WorkerRxPoll, EngineIInv, EngineTypeOK, WorkerPC, HandOk
  <2>2. CASE inbox # <<>>
    <3> DEFINE h == Head(inbox)
    <3>1. /\ queue' = Append(queue, h) /\ inbox' = Tail(inbox)
          /\ worker = "rx_poll" /\ worker' = "check"
          /\ UNCHANGED <<state, running, hand, cpc, items, mode, sent, used>>
      BY <1>11, <2>2 DEF WorkerRxPoll
    <3>2. /\ Tail(inbox) \in Seq(Packet) /\ h \in Packet /\ h \in Ran(inbox)
          /\ Ran(inbox') = Ran(inbox) \ {h} /\ Inj(inbox')
      BY <2>2, <3>1, TailHolds DEF EngineIInv, EngineTypeOK, PlaceInv
    <3>3. h \in Item /\ h \notin Ran(queue) /\ Inj(queue) /\ queue \in Seq(Item)
      BY <3>2 DEF Item, EngineIInv, PlaceInv, EngineTypeOK
    <3> HIDE DEF h
    <3>4. /\ Append(queue, h) \in Seq(Item) /\ Ran(queue') = Ran(queue) \cup {h}
          /\ Inj(queue')
      BY <3>1, <3>3, AppendHolds
    <3>5. EngineTypeOK' BY <3>1, <3>2, <3>4 DEF EngineIInv, EngineTypeOK, WorkerPC
    <3>6. HandOk' BY <3>1 DEF EngineIInv, HandOk
    <3>7. Held' = Held BY <3>1 DEF Held
    <3>8. PlaceInv'
      <4>1. PlaceInv /\ Ran(queue') \cup Ran(inbox') = Ran(queue) \cup Ran(inbox)
        BY <3>2, <3>4 DEF EngineIInv
      <4>2. Inj(queue') /\ Inj(inbox') /\ Inj(sent') /\ \A c \in Client : Inj(items'[c])
        BY <3>1, <3>2, <3>4, <4>1 DEF PlaceInv
      <4>3. /\ Ran(queue') \cap Ran(inbox') = {} /\ Ran(queue') \cap Ran(sent') = {}
            /\ Ran(inbox') \cap Ran(sent') = {}
            /\ Held' \cap (Ran(queue') \cup Ran(inbox') \cup Ran(sent')) = {}
        BY <3>1, <3>2, <3>4, <3>7, <4>1 DEF PlaceInv
      <4>4. \A c \in Client :
              /\ Ran(items'[c]) \cap (Ran(queue') \cup Ran(inbox') \cup Ran(sent') \cup Held') = {}
              /\ \A d \in Client \ {c} : Ran(items'[c]) \cap Ran(items'[d]) = {}
              /\ Ran(items'[c]) \subseteq used'
        BY <3>1, <3>7, <4>1 DEF PlaceInv
      <4>5. Ran(queue') \cup Ran(inbox') \cup Ran(sent') \cup Held' \subseteq used'
        BY <3>1, <3>7, <4>1 DEF PlaceInv
      <4>6. \A x \in used' \cap Message :
              \/ x \in Ran(queue') \cup Ran(sent') \cup Held'
              \/ \E c \in Client : x \in Ran(items'[c])
        BY <3>1, <3>4, <3>7, <4>1 DEF PlaceInv
      <4> QED BY <4>2, <4>3, <4>4, <4>5, <4>6 DEF PlaceInv
    <3> QED BY <3>5, <3>6, <3>8 DEF EngineIInv
  <2> QED BY <2>1, <2>2
<1>12. CASE WorkerCrash
  BY <1>12, PlacesKept DEF WorkerCrash, EngineIInv, EngineTypeOK, WorkerPC, HandOk
<1> QED BY <1>1, <1>2, <1>3, <1>4, <1>5, <1>6, <1>7, <1>8, <1>9, <1>10,
           <1>11, <1>12 DEF WorkerStep

(* Another unit's packet: it is new, so it is nowhere yet.                 *)
LEMMA HearKeeps ==
  ASSUME EngineIInv, NEW p \in Packet, Hear(p)
  PROVE  EngineIInv'
<1>1. /\ p \notin used /\ used' = used \cup {p}
      /\ inbox' = IF mode = "rx" THEN Append(inbox, p) ELSE inbox
      /\ UNCHANGED <<state, queue, running, worker, hand, cpc, items, mode, sent>>
  BY DEF Hear, threadVars
<1>2. p \in Item /\ p \notin Message BY EngineAssumption DEF Item
<1>3. p \notin Ran(inbox) /\ Inj(inbox) /\ inbox \in Seq(Packet)
  BY <1>1 DEF EngineIInv, PlaceInv, EngineTypeOK
<1>4. /\ inbox' \in Seq(Packet) /\ Inj(inbox')
      /\ Ran(inbox') \subseteq Ran(inbox) \cup {p}
  BY <1>1, <1>3, AppendHolds
<1>5. EngineTypeOK' BY <1>1, <1>2, <1>4 DEF EngineIInv, EngineTypeOK
<1>6. HandOk' BY <1>1 DEF EngineIInv, HandOk
<1>7. Held' = Held BY <1>1 DEF Held
<1>8. PlaceInv'
  <2>1. \A c \in Client : p \notin Ran(items[c]) BY <1>1 DEF EngineIInv, PlaceInv
  <2>2. p \notin Ran(queue) /\ p \notin Ran(sent) /\ p \notin Held
    BY <1>1 DEF EngineIInv, PlaceInv
  <2>3. PlaceInv BY DEF EngineIInv
  <2>4. /\ Inj(queue') /\ Inj(inbox') /\ Inj(sent') /\ \A c \in Client : Inj(items'[c])
        /\ Ran(queue') \cap Ran(inbox') = {} /\ Ran(queue') \cap Ran(sent') = {}
        /\ Ran(inbox') \cap Ran(sent') = {}
        /\ Held' \cap (Ran(queue') \cup Ran(inbox') \cup Ran(sent')) = {}
    BY <1>1, <1>4, <1>7, <2>2, <2>3 DEF PlaceInv
  <2>5. \A c \in Client :
          Ran(items'[c]) \cap (Ran(queue') \cup Ran(inbox') \cup Ran(sent') \cup Held') = {}
    BY <1>1, <1>4, <1>7, <2>1, <2>3 DEF PlaceInv
  <2>6. \A c \in Client :
          /\ \A d \in Client \ {c} : Ran(items'[c]) \cap Ran(items'[d]) = {}
          /\ Ran(items'[c]) \subseteq used'
    BY <1>1, <2>3 DEF PlaceInv
  <2>7. Ran(queue') \cup Ran(inbox') \cup Ran(sent') \cup Held' \subseteq used'
    BY <1>1, <1>4, <1>7, <2>3 DEF PlaceInv
  <2>8. \A x \in used' \cap Message :
          \/ x \in Ran(queue') \cup Ran(sent') \cup Held'
          \/ \E c \in Client : x \in Ran(items'[c])
    BY <1>1, <1>2, <1>7, <2>3 DEF PlaceInv
  <2> QED BY <2>4, <2>5, <2>6, <2>7, <2>8 DEF PlaceInv
<1> QED BY <1>5, <1>6, <1>8 DEF EngineIInv

(* Clients                                                                 *)

LEMMA ClientKeeps ==
  ASSUME EngineIInv, NEW c \in Client, ClientCall(c) \/ ClientStep(c)
  PROVE  EngineIInv'
<1> USE DEF ClientGoto, radioVars, threadVars
<1>1. ASSUME NEW m \in Message, QueuePut(c, m) PROVE EngineIInv'
  <2>1. /\ m \notin used /\ used' = used \cup {m} /\ queue' = Append(queue, m)
        /\ cpc' = [cpc EXCEPT ![c] = "set_tx"]
        /\ UNCHANGED <<state, running, worker, hand, items, mode, inbox, sent>>
    BY <1>1 DEF QueuePut
  <2>2. /\ m \in Item /\ m \notin Ran(queue) /\ Inj(queue) /\ queue \in Seq(Item)
    BY <2>1 DEF Item, EngineIInv, PlaceInv, EngineTypeOK
  <2>3. /\ Append(queue, m) \in Seq(Item) /\ Ran(queue') = Ran(queue) \cup {m}
        /\ Inj(queue')
    BY <2>1, <2>2, AppendHolds
  <2>4. EngineTypeOK' BY <2>1, <2>2, <2>3 DEF EngineIInv, EngineTypeOK, ClientPC
  <2>5. HandOk' BY <2>1 DEF EngineIInv, HandOk
  <2>6. Held' = Held BY <2>1 DEF Held
  <2>7. \A d \in Client : m \notin Ran(items[d]) BY <2>1 DEF EngineIInv, PlaceInv
  <2>8. m \notin Ran(inbox) /\ m \notin Ran(sent) /\ m \notin Held
    BY <2>1 DEF EngineIInv, PlaceInv
  <2>9. PlaceInv'
    <3>1. PlaceInv BY DEF EngineIInv
    <3>2. /\ Inj(queue') /\ Inj(inbox') /\ Inj(sent') /\ \A d \in Client : Inj(items'[d])
          /\ Ran(queue') \cap Ran(inbox') = {} /\ Ran(queue') \cap Ran(sent') = {}
          /\ Ran(inbox') \cap Ran(sent') = {}
          /\ Held' \cap (Ran(queue') \cup Ran(inbox') \cup Ran(sent')) = {}
      BY <2>1, <2>3, <2>6, <2>8, <3>1 DEF PlaceInv
    <3>3. \A d \in Client :
            Ran(items'[d]) \cap (Ran(queue') \cup Ran(inbox') \cup Ran(sent') \cup Held') = {}
      BY <2>1, <2>3, <2>6, <2>7, <3>1 DEF PlaceInv
    <3>4. \A d \in Client :
            /\ \A e \in Client \ {d} : Ran(items'[d]) \cap Ran(items'[e]) = {}
            /\ Ran(items'[d]) \subseteq used'
      BY <2>1, <3>1 DEF PlaceInv
    <3>5. Ran(queue') \cup Ran(inbox') \cup Ran(sent') \cup Held' \subseteq used'
      BY <2>1, <2>3, <2>6, <3>1 DEF PlaceInv
    <3>6. \A x \in used' \cap Message :
            \/ x \in Ran(queue') \cup Ran(sent') \cup Held'
            \/ \E d \in Client : x \in Ran(items'[d])
      BY <2>1, <2>3, <2>6, <3>1 DEF PlaceInv
    <3> QED BY <3>2, <3>3, <3>4, <3>5, <3>6 DEF PlaceInv
  <2> QED BY <2>4, <2>5, <2>9 DEF EngineIInv
<1>2. CASE QueueTransmit(c)
  BY <1>2, PlacesKept DEF QueueTransmit, EngineIInv, EngineTypeOK, ClientPC, EngineState, HandOk
<1>3. CASE QueueLook(c)
  BY <1>3, PlacesKept DEF QueueLook, EngineIInv, EngineTypeOK, ClientPC, HandOk
<1>4. CASE QueueReceive(c)
  BY <1>4, PlacesKept DEF QueueReceive, EngineIInv, EngineTypeOK, ClientPC, EngineState, HandOk
<1>5. ASSUME NEW s \in EngineState, SetState(c, s) PROVE EngineIInv'
  BY <1>5, PlacesKept DEF SetState, EngineIInv, EngineTypeOK, HandOk
<1>6. CASE CollectStart(c)
  BY <1>6, PlacesKept DEF CollectStart, EngineIInv, EngineTypeOK, ClientPC, HandOk
<1>7. CASE CollectCheck(c)
  BY <1>7, PlacesKept DEF CollectCheck, EngineIInv, EngineTypeOK, ClientPC, HandOk
<1>8. CASE CollectTake(c)
  <2> DEFINE h == Head(queue)
  <2>1. /\ queue # <<>> /\ queue' = Tail(queue)
        /\ items' = [items EXCEPT ![c] = Append(items[c], h)]
        /\ cpc' = [cpc EXCEPT ![c] = "collect"]
        /\ UNCHANGED <<state, running, worker, hand, mode, inbox, sent, used>>
    BY <1>8 DEF CollectTake
  <2>2. /\ Tail(queue) \in Seq(Item) /\ h \in Item /\ h \in Ran(queue)
        /\ Ran(queue') = Ran(queue) \ {h} /\ Inj(queue')
    BY <2>1, TailHolds DEF EngineIInv, EngineTypeOK, PlaceInv
  <2>3. /\ h \notin Ran(items[c]) /\ Inj(items[c]) /\ items[c] \in Seq(Item)
        /\ items \in [Client -> Seq(Item)]
    BY <2>2 DEF EngineIInv, PlaceInv, EngineTypeOK
  <2> HIDE DEF h
  <2>4. /\ Append(items[c], h) \in Seq(Item)
        /\ Ran(Append(items[c], h)) = Ran(items[c]) \cup {h}
        /\ Inj(Append(items[c], h))
    BY <2>2, <2>3, AppendHolds
  <2>5. /\ items'[c] = Append(items[c], h)
        /\ \A d \in Client \ {c} : items'[d] = items[d]
        /\ items' \in [Client -> Seq(Item)]
    BY <2>1, <2>3, <2>4
  <2>6. EngineTypeOK' BY <2>1, <2>2, <2>5 DEF EngineIInv, EngineTypeOK, ClientPC
  <2>7. HandOk' BY <2>1 DEF EngineIInv, HandOk
  <2>8. Held' = Held BY <2>1 DEF Held
  <2>9. PlaceInv'
    <3>1. /\ PlaceInv /\ h \in used /\ h \notin Ran(inbox) /\ h \notin Ran(sent)
          /\ h \notin Held /\ \A d \in Client : h \notin Ran(items[d])
      BY <2>2 DEF EngineIInv, PlaceInv
    <3>2. Inj(queue') /\ Inj(inbox') /\ Inj(sent') /\ \A d \in Client : Inj(items'[d])
      BY <2>1, <2>2, <2>4, <2>5, <3>1 DEF PlaceInv
    <3>3. /\ Ran(queue') \cap Ran(inbox') = {} /\ Ran(queue') \cap Ran(sent') = {}
          /\ Ran(inbox') \cap Ran(sent') = {}
          /\ Held' \cap (Ran(queue') \cup Ran(inbox') \cup Ran(sent')) = {}
      BY <2>1, <2>2, <2>8, <3>1 DEF PlaceInv
    <3>4. /\ \A d \in Client : Ran(items'[d]) \subseteq Ran(items[d]) \cup {h}
          /\ \A d \in Client \ {c} : Ran(items'[d]) = Ran(items[d])
          /\ Ran(items'[c]) = Ran(items[c]) \cup {h}
      BY <2>4, <2>5
    <3>5. \A d \in Client :
            /\ Ran(items'[d]) \cap (Ran(queue') \cup Ran(inbox') \cup Ran(sent') \cup Held') = {}
            /\ Ran(items'[d]) \subseteq used'
      <4>1. /\ Ran(queue') \cup Ran(inbox') \cup Ran(sent') \cup Held'
                 = (Ran(queue) \cup Ran(inbox) \cup Ran(sent) \cup Held) \ {h}
            /\ used' = used
        BY <2>1, <2>2, <2>8, <3>1
      <4>2. \A d \in Client :
              /\ Ran(items[d]) \cap (Ran(queue) \cup Ran(inbox) \cup Ran(sent) \cup Held) = {}
              /\ Ran(items[d]) \subseteq used
        BY <3>1 DEF PlaceInv
      <4> QED BY <3>1, <3>4, <4>1, <4>2
    <3>6. \A d \in Client : \A e \in Client \ {d} : Ran(items'[d]) \cap Ran(items'[e]) = {}
      BY <3>1, <3>4 DEF PlaceInv
    <3>7. Ran(queue') \cup Ran(inbox') \cup Ran(sent') \cup Held' \subseteq used'
      BY <2>1, <2>2, <2>8, <3>1 DEF PlaceInv
    <3>8. ASSUME NEW x \in used' \cap Message
          PROVE  \/ x \in Ran(queue') \cup Ran(sent') \cup Held'
                 \/ \E d \in Client : x \in Ran(items'[d])
      <4>1. CASE x = h BY <3>4, <4>1
      <4>2. CASE x # h
        <5>1. \/ x \in Ran(queue) \cup Ran(sent) \cup Held
              \/ \E d \in Client : x \in Ran(items[d])
          BY <2>1, <3>1 DEF PlaceInv
        <5>2. \A d \in Client : Ran(items[d]) \subseteq Ran(items'[d]) BY <3>4
        <5> QED BY <2>1, <2>2, <2>8, <4>2, <5>1, <5>2
      <4> QED BY <4>1, <4>2
    <3> QED BY <3>2, <3>3, <3>5, <3>6, <3>7, <3>8 DEF PlaceInv
  <2> QED BY <2>6, <2>7, <2>9 DEF EngineIInv
<1>9. CASE ShutdownFlag(c)
  BY <1>9, PlacesKept DEF ShutdownFlag, EngineIInv, EngineTypeOK, ClientPC, HandOk
<1>10. CASE ShutdownJoin(c)
  BY <1>10, PlacesKept DEF ShutdownJoin, EngineIInv, EngineTypeOK, ClientPC, HandOk
<1> QED BY <1>1, <1>2, <1>3, <1>4, <1>5, <1>6, <1>7, <1>8, <1>9, <1>10
    DEF ClientCall, ClientStep, QueueStep

-----------------------------------------------------------------------------
LEMMA EngineInitInv == EngineInit => EngineIInv
<1> SUFFICES ASSUME EngineInit PROVE EngineIInv OBVIOUS
<1>1. EngineTypeOK
  BY DEF EngineInit, EngineTypeOK, EngineState, WorkerPC, ClientPC, Item
<1>2. HandOk BY DEF EngineInit, HandOk
<1>3. PlaceInv BY EmptyHolds DEF EngineInit, PlaceInv, Held
<1> QED BY <1>1, <1>2, <1>3 DEF EngineIInv

LEMMA EngineNextInv == EngineIInv /\ [EngineNext]_engineVars => EngineIInv'
<1> SUFFICES ASSUME EngineIInv, [EngineNext]_engineVars PROVE EngineIInv' OBVIOUS
<1>1. CASE WorkerStep \/ WorkerCrash BY <1>1, WorkerKeeps
<1>2. CASE \E p \in Packet : Hear(p) BY <1>2, HearKeeps
<1>3. CASE \E c \in Client : ClientCall(c) \/ ClientStep(c) BY <1>3, ClientKeeps
<1>4. CASE UNCHANGED engineVars
  BY <1>4, PlacesKept
     DEF engineVars, threadVars, radioVars, EngineIInv, EngineTypeOK, HandOk
<1> QED BY <1>1, <1>2, <1>3, <1>4 DEF EngineNext

(* Every variable of the engine keeps its declared type, whichever methods *)
(* are called and whatever the radio does; an item that is sent is one.    *)
THEOREM EngineTypeCorrect == EngineSpec => []EngineTypeOK
<1>1. EngineIInv => EngineTypeOK BY DEF EngineIInv
<1> QED BY <1>1, EngineInitInv, EngineNextInv, PTL DEF EngineSpec

(* What queue_message was given is in exactly one place: in message_queue, *)
(* in the worker's hand, in what get_messages collected or on the air; a   *)
(* packet that was heard is in at most one.                                *)
THEOREM NothingLostOrDoubled == EngineSpec => []ExactlyOnePlace
<1>1. EngineIInv => ExactlyOnePlace
  <2> SUFFICES ASSUME EngineIInv, NEW x \in used
               PROVE  /\ Cardinality(Places(x)) <= 1
                      /\ x \in Message => Places(x) # {}
    BY DEF ExactlyOnePlace
  <2> DEFINE Slots(name, s) == {<<name, i>> : i \in {j \in DOMAIN s : s[j] = x}}
             H == IF hand = x THEN {<<"hand", 1>>} ELSE {}
             C == UNION {Slots(c, items[c]) : c \in Client}
  <2>1. Places(x) = Slots("queue", queue) \cup Slots("inbox", inbox) \cup Slots("sent", sent)
                      \cup H \cup C
    BY DEF Places
  <2>2. x # None BY EngineAssumption DEF EngineIInv, EngineTypeOK, Item
  <2>3. ASSUME NEW name, NEW s, Inj(s), NEW y \in Slots(name, s), NEW z \in Slots(name, s)
        PROVE  y = z
    BY <2>3 DEF Inj
  <2>4. ASSUME NEW name, NEW s, Slots(name, s) # {} PROVE x \in Ran(s)
    BY <2>4 DEF Ran
  <2>5. ASSUME NEW name, NEW s, x \in Ran(s) PROVE Slots(name, s) # {}
    BY <2>5 DEF Ran
  <2>6. H # {} => x \in Held BY <2>2 DEF Held
  <2>7. ASSUME NEW y \in C PROVE \E c \in Client : y \in Slots(c, items[c])
    OBVIOUS
  <2>8. \A c \in Client : Slots(c, items[c]) \subseteq C OBVIOUS
  <2>9. \A y, z \in H : y = z OBVIOUS
  <2>10. Held # {} /\ x \in Held => H # {} BY DEF Held
  <2> HIDE DEF Slots, H, C
  <2>11. PlaceInv BY DEF EngineIInv
  <2>12. ASSUME NEW y \in C, NEW z \in C PROVE y = z
    <3>1. PICK c \in Client : y \in Slots(c, items[c]) BY <2>7
    <3>2. PICK d \in Client : z \in Slots(d, items[d]) BY <2>7
    <3>3. x \in Ran(items[c]) /\ x \in Ran(items[d]) BY <3>1, <3>2, <2>4
    <3>4. c = d BY <3>3, <2>11 DEF PlaceInv
    <3>5. Inj(items[c]) BY <2>11 DEF PlaceInv
    <3> QED BY <3>1, <3>2, <3>4, <3>5, <2>3
  <2>13. C # {} => \E c \in Client : x \in Ran(items[c])
    BY <2>4, <2>7
  <2>14. /\ \A y, z \in Slots("queue", queue) : y = z
         /\ \A y, z \in Slots("inbox", inbox) : y = z
         /\ \A y, z \in Slots("sent", sent) : y = z
    BY <2>3, <2>11 DEF PlaceInv
  <2>15. /\ Slots("queue", queue) # {} => x \in Ran(queue)
         /\ Slots("inbox", inbox) # {} => x \in Ran(inbox)
         /\ Slots("sent", sent) # {} => x \in Ran(sent)
    BY <2>4
  <2>16. ASSUME NEW y \in Places(x), NEW z \in Places(x) PROVE y = z
    BY <2>1, <2>6, <2>9, <2>11, <2>12, <2>13, <2>14, <2>15 DEF PlaceInv
  <2>17. Cardinality(Places(x)) <= 1
    <3>1. CASE Places(x) = {} BY <3>1, FS_EmptySet
    <3>2. ASSUME NEW y \in Places(x) PROVE Cardinality(Places(x)) <= 1
      <4> HIDE DEF Places
      <4>1. Places(x) = {y} BY <2>16, <3>2
      <4>2. Cardinality({y}) = 1 BY FS_Singleton
      <4> QED BY <4>1, <4>2
    <3> QED BY <3>1, <3>2
  <2>18. ASSUME x \in Message PROVE Places(x) # {}
    <3>1. CASE x \in Ran(queue) BY <2>1, <2>5, <3>1
    <3>2. CASE x \in Ran(sent) BY <2>1, <2>5, <3>2
    <3>3. CASE x \in Held BY <2>1, <2>10, <3>3
    <3>4. ASSUME NEW c \in Client, x \in Ran(items[c]) PROVE Places(x) # {}
      <4>1. Slots(c, items[c]) # {} BY <2>5, <3>4
      <4> QED BY <2>1, <2>8, <4>1
    <3> QED BY <2>11, <2>18, <3>1, <3>2, <3>3, <3>4 DEF PlaceInv
  <2> QED BY <2>17, <2>18
<1> QED BY <1>1, EngineInitInv, EngineNextInv, PTL DEF EngineSpec

-----------------------------------------------------------------------------
(* Part 2: the backend                                                     *)

(* The ids of a new entry are numbers, whatever finite to_send.json holds. *)
LEMMA IdTypes == generate_batch_id \in Nat /\ generate_chunk_id \in Nat
<1>1. last_chunk_id \in Nat
  BY BackendAssumption DEF last_chunk_id
<1>2. last_batch_id \in Nat
  BY BackendAssumption DEF last_batch_id, Batches
<1> QED BY <1>1, <1>2 DEF generate_batch_id, generate_chunk_id

(* The initial state has the declared types.                               *)
LEMMA InitType == Init => TypeOK
BY EngineAssumption, BackendAssumption
DEF Init, EngineInit, TypeOK, EngineTypeOK, EngineState, WorkerPC, ClientPC, Item

(* A step of the worker, or a packet on the air, keeps the engine's types; *)
(* what it transmits is an item because its hand is full (HandInv).        *)
LEMMA WorkerType ==
  ASSUME EngineTypeOK, HandInv,
         WorkerStep \/ WorkerCrash \/ \E p \in Packet : Hear(p)
  PROVE  EngineTypeOK'
<1> USE DEF EngineTypeOK, WorkerGoto, radioVars, threadVars, Item
<1>1. CASE WorkerCheck BY <1>1 DEF WorkerCheck, WorkerPC
<1>2. CASE WorkerRead BY <1>2 DEF WorkerRead, WorkerPC, Branch, EngineState
<1>3. CASE WorkerReset BY <1>3 DEF WorkerReset, WorkerPC
<1>4. CASE WorkerSetIdle BY <1>4 DEF WorkerSetIdle, WorkerPC, EngineState
<1>5. CASE WorkerTxGet BY <1>5 DEF WorkerTxGet, WorkerPC
<1>6. CASE WorkerTxTimeout BY <1>6 DEF WorkerTxTimeout, WorkerPC
<1>7. CASE WorkerTxMode BY <1>7 DEF WorkerTxMode, WorkerPC
<1>8. CASE WorkerTxSend BY <1>8 DEF WorkerTxSend, WorkerPC, HandInv
<1>9. CASE WorkerTxDone BY <1>9 DEF WorkerTxDone, WorkerPC, EngineState
<1>10. CASE WorkerRxMode BY <1>10 DEF WorkerRxMode, WorkerPC
<1>11. CASE WorkerRxPoll
  <2>1. CASE inbox = <<>> BY <1>11, <2>1 DEF WorkerRxPoll, WorkerPC
  <2>2. CASE inbox # <<>>
    <3>1. Head(inbox) \in Packet /\ Tail(inbox) \in Seq(Packet)
      BY <2>2
    <3>2. Append(queue, Head(inbox)) \in Seq(Item)
      BY <3>1
    <3> QED BY <1>11, <2>2, <3>1, <3>2 DEF WorkerRxPoll, WorkerPC
  <2> QED BY <2>1, <2>2
<1>12. CASE WorkerCrash BY <1>12 DEF WorkerCrash, WorkerPC
<1>13. CASE \E p \in Packet : Hear(p) BY <1>13 DEF Hear
<1> QED BY <1>1, <1>2, <1>3, <1>4, <1>5, <1>6, <1>7, <1>8, <1>9, <1>10,
           <1>11, <1>12, <1>13 DEF WorkerStep

(* A step of a queue_message call or of shutdown keeps the engine's types. *)
LEMMA CallType ==
  ASSUME EngineTypeOK, NEW c \in Client,
         \/ \E m \in Message : QueuePut(c, m)
         \/ QueueStep(c) \/ ShutdownFlag(c) \/ ShutdownJoin(c)
  PROVE  EngineTypeOK'
<1> USE DEF EngineTypeOK, ClientGoto, radioVars, ClientPC
<1>1. ASSUME NEW m \in Message, QueuePut(c, m) PROVE EngineTypeOK'
  BY <1>1 DEF QueuePut, Item
<1>2. CASE QueueTransmit(c) BY <1>2 DEF QueueTransmit, EngineState
<1>3. CASE QueueLook(c) BY <1>3 DEF QueueLook
<1>4. CASE QueueReceive(c) BY <1>4 DEF QueueReceive, EngineState
<1>5. CASE ShutdownFlag(c) BY <1>5 DEF ShutdownFlag
<1>6. CASE ShutdownJoin(c) BY <1>6 DEF ShutdownJoin
<1> QED BY <1>1, <1>2, <1>3, <1>4, <1>5, <1>6 DEF QueueStep

(* Types are kept by every step of the backend.                            *)
LEMMA TypeStep == TypeOK /\ HandInv /\ SaveInv /\ [Next]_vars => TypeOK'
<1> SUFFICES ASSUME TypeOK, HandInv, SaveInv, [Next]_vars PROVE TypeOK'
  OBVIOUS
<1> USE BackendAssumption DEF Handler
<1>1. CASE EngineStep
  <2>1. EngineTypeOK' BY <1>1, WorkerType DEF EngineStep, TypeOK
  <2> QED BY <1>1, <2>1 DEF EngineStep, TypeOK, backendVars, fileVars
<1>2. ASSUME NEW h \in Handler, NEW m \in Message, SendStart(h, m)
      PROVE  TypeOK'
  <2>1. EngineTypeOK' BY <1>2, CallType DEF SendStart, TypeOK
  <2>2. ids' \in [Message -> [batch : Nat, chunk : Nat]]
    BY <1>2, IdTypes DEF SendStart, TypeOK
  <2> QED BY <1>2, <2>1, <2>2 DEF SendStart, TypeOK, HandlerGoto, fileVars
<1>3. ASSUME NEW h \in Handler, SendQueueing(h) PROVE TypeOK'
  <2>1. EngineTypeOK' BY <1>3, CallType DEF SendQueueing, TypeOK
  <2> QED BY <1>3, <2>1 DEF SendQueueing, TypeOK, backendVars, fileVars
<1>4. ASSUME NEW h \in Handler,
             \/ SendQueued(h) \/ SendSave(h) \/ SendSaveFail(h)
             \/ SendSaveRaise(h) \/ SendReply(h)
      PROVE  TypeOK'
  <2>1. EngineTypeOK'
    BY <1>4 DEF SendQueued, SendSave, SendSaveFail, SendSaveRaise, SendReply, TypeOK,
                EngineTypeOK, engineVars, threadVars, radioVars
  <2>2. CASE SendQueued(h)
    BY <2>1, <2>2 DEF SendQueued, TypeOK, HandlerGoto, fileVars
  <2>3. CASE SendSave(h)
    <3>1. [msg |-> entry[h], whole |-> TRUE] \in Record
      BY <2>3 DEF SendSave, HandlerGoto, SaveInv, Record
    <3> QED BY <2>1, <2>3, <3>1 DEF SendSave, TypeOK, HandlerGoto
  <2>4. CASE SendSaveFail(h)
    <3>1. entry[h] \in Message /\ [msg |-> entry[h], whole |-> FALSE] \in Record
      BY <2>4 DEF SendSaveFail, HandlerGoto, SaveInv, Record
    <3>2. Append(log, [msg |-> entry[h], whole |-> FALSE]) \in Seq(Record)
      BY <3>1 DEF TypeOK
    <3> QED BY <2>1, <2>4, <3>1, <3>2 DEF SendSaveFail, TypeOK, HandlerGoto
  <2>5. CASE SendReply(h)
    <3>1. entry[h] \in Message
      BY <2>5 DEF SendReply, HandlerGoto, SaveInv
    <3> QED BY <2>1, <2>5, <3>1 DEF SendReply, TypeOK, HandlerGoto
  <2>6. CASE SendSaveRaise(h)
    BY <2>1, <2>6 DEF SendSaveRaise, TypeOK, HandlerGoto, fileVars
  <2> QED BY <1>4, <2>2, <2>3, <2>4, <2>5, <2>6
<1>5. CASE Stop \/ Exit
  <2>1. EngineTypeOK' BY <1>5, CallType DEF Stop, Exit, TypeOK
  <2> QED BY <1>5, <2>1 DEF Stop, Exit, TypeOK, backendVars, fileVars
<1>6. CASE Restart
  <2>1. EngineTypeOK'
    BY <1>6 DEF Restart, TypeOK, EngineTypeOK, EngineState, WorkerPC, ClientPC
  <2>2. log' \in Seq(Record)
    <3>1. ASSUME NEW h \in Handler, hpc[h] = "save"
          PROVE  Append(log, [msg |-> entry[h], whole |-> FALSE]) \in Seq(Record)
      BY <3>1 DEF SaveInv, Record, TypeOK
    <3> QED BY <1>6, <3>1 DEF Restart, TypeOK
  <2> QED BY <1>6, <2>1, <2>2 DEF Restart, TypeOK
<1>7. CASE UNCHANGED vars
  BY <1>7 DEF vars, TypeOK, EngineTypeOK, engineVars, threadVars, radioVars,
              backendVars, fileVars
<1> QED BY <1>1, <1>2, <1>3, <1>4, <1>5, <1>6, <1>7 DEF Next, SendStep

(* The requests short of their set_state("transmit") can be counted.       *)
LEMMA PendingCount ==
  IsFiniteSet(Pending) /\ Cardinality(Pending) \in Nat
<1>1. IsFiniteSet(Handler)
  BY BackendAssumption, FS_Subset DEF Handler
<1>2. IsFiniteSet(Pending)
  BY <1>1, FS_Subset DEF Pending
<1> QED BY <1>2, FS_CardinalityType

(* A worker about to take a message finds one.                             *)
LEMMA OwedHasMessage == TypeOK /\ QueueInv => TransmitFindsMessage
BY PendingCount DEF TypeOK, EngineTypeOK, QueueInv, Owed, TransmitFindsMessage

(* The worker's hand is full exactly between its get and its send.         *)
LEMMA HandStep == TypeOK /\ HandInv /\ [Next]_vars => HandInv'
<1> SUFFICES ASSUME TypeOK, HandInv, [Next]_vars PROVE HandInv'
  OBVIOUS
<1> USE DEF HandInv
<1>1. CASE EngineStep
  <2> USE EngineAssumption
      DEF WorkerGoto, radioVars, threadVars, TypeOK, EngineTypeOK, Item
  <2>1. CASE WorkerCheck BY <2>1 DEF WorkerCheck
  <2>2. CASE WorkerRead BY <2>2 DEF WorkerRead, Branch, EngineState
  <2>3. CASE WorkerReset BY <2>3 DEF WorkerReset
  <2>4. CASE WorkerSetIdle BY <2>4 DEF WorkerSetIdle
  <2>5. CASE WorkerTxGet
    <3>1. Head(queue) \in Item BY <2>5 DEF WorkerTxGet
    <3> QED BY <2>5, <3>1 DEF WorkerTxGet
  <2>6. CASE WorkerTxTimeout BY <2>6 DEF WorkerTxTimeout
  <2>7. CASE WorkerTxMode BY <2>7 DEF WorkerTxMode
  <2>8. CASE WorkerTxSend BY <2>8 DEF WorkerTxSend
  <2>9. CASE WorkerTxDone BY <2>9 DEF WorkerTxDone
  <2>10. CASE WorkerRxMode BY <2>10 DEF WorkerRxMode
  <2>11. CASE WorkerRxPoll BY <2>11 DEF WorkerRxPoll
  <2>12. CASE WorkerCrash BY <2>12 DEF WorkerCrash
  <2>13. CASE \E p \in Packet : Hear(p) BY <2>13 DEF Hear
  <2> QED BY <1>1, <2>1, <2>2, <2>3, <2>4, <2>5, <2>6, <2>7, <2>8, <2>9,
             <2>10, <2>11, <2>12, <2>13 DEF EngineStep, WorkerStep
<1>2. ASSUME NEW h \in Handler, NEW m \in Message, SendStart(h, m)
      PROVE  HandInv'
  BY <1>2 DEF SendStart, QueuePut
<1>3. ASSUME NEW h \in Handler, SendQueueing(h) PROVE HandInv'
  BY <1>3 DEF SendQueueing, QueueStep, QueueTransmit, QueueLook, QueueReceive
<1>4. ASSUME NEW h \in Handler,
             \/ SendQueued(h) \/ SendSave(h) \/ SendSaveFail(h)
             \/ SendSaveRaise(h) \/ SendReply(h)
      PROVE  HandInv'
  BY <1>4 DEF SendQueued, SendSave, SendSaveFail, SendSaveRaise, SendReply, engineVars, threadVars
<1>5. CASE Stop \/ Exit
  BY <1>5 DEF Stop, Exit, ShutdownFlag, ShutdownJoin
<1>6. CASE Restart BY <1>6 DEF Restart
<1>7. CASE UNCHANGED vars BY <1>7 DEF vars, engineVars, threadVars
<1> QED BY <1>1, <1>2, <1>3, <1>4, <1>5, <1>6, <1>7 DEF Next, SendStep

(* Only queue_message and shutdown are ever called, so the engine is never *)
(* in another state, and never set to idle by the worker: the one way left *)
(* there, an empty queue in _do_transmit, is closed by QueueInv.           *)
LEMMA NoOtherStep ==
  TypeOK /\ NoOtherCalls /\ QueueInv /\ [Next]_vars => NoOtherCalls'
<1> SUFFICES ASSUME TypeOK, NoOtherCalls, QueueInv, [Next]_vars
             PROVE  NoOtherCalls'
  OBVIOUS
<1> USE BackendAssumption
    DEF NoOtherCalls, Handler, TypeOK, EngineTypeOK, radioVars
<1>1. CASE EngineStep
  <2>1. worker = "tx_get" => queue # <<>>
    BY OwedHasMessage DEF TransmitFindsMessage
  <2> USE DEF WorkerGoto, threadVars
  <2>2. CASE WorkerCheck \/ WorkerRead
    BY <2>2 DEF WorkerCheck, WorkerRead, Branch
  <2>3. CASE WorkerReset \/ WorkerSetIdle \/ WorkerTxTimeout
    BY <2>1, <2>3 DEF WorkerReset, WorkerSetIdle, WorkerTxTimeout
  <2>4. CASE WorkerTxGet \/ WorkerTxMode \/ WorkerTxSend \/ WorkerTxDone
    BY <2>4 DEF WorkerTxGet, WorkerTxMode, WorkerTxSend, WorkerTxDone
  <2>5. CASE WorkerRxMode \/ WorkerRxPoll \/ WorkerCrash
    BY <2>5 DEF WorkerRxMode, WorkerRxPoll, WorkerCrash
  <2>6. CASE \E p \in Packet : Hear(p) BY <2>6 DEF Hear
  <2> QED BY <1>1, <2>2, <2>3, <2>4, <2>5, <2>6 DEF EngineStep, WorkerStep
<1>2. ASSUME NEW h \in Handler, NEW m \in Message, SendStart(h, m)
      PROVE  NoOtherCalls'
  BY <1>2 DEF SendStart, QueuePut, ClientGoto
<1>3. ASSUME NEW h \in Handler, SendQueueing(h) PROVE NoOtherCalls'
  BY <1>3 DEF SendQueueing, QueueStep, QueueTransmit, QueueLook, QueueReceive,
              ClientGoto
<1>4. ASSUME NEW h \in Handler,
             \/ SendQueued(h) \/ SendSave(h) \/ SendSaveFail(h)
             \/ SendSaveRaise(h) \/ SendReply(h)
      PROVE  NoOtherCalls'
  BY <1>4 DEF SendQueued, SendSave, SendSaveFail, SendSaveRaise, SendReply, engineVars, threadVars
<1>5. CASE Stop \/ Exit
  BY <1>5 DEF Stop, Exit, ShutdownFlag, ShutdownJoin, ClientGoto
<1>6. CASE Restart BY <1>6 DEF Restart
<1>7. CASE UNCHANGED vars BY <1>7 DEF vars, engineVars, threadVars
<1> QED BY <1>1, <1>2, <1>3, <1>4, <1>5, <1>6, <1>7 DEF Next, SendStep

(* A step that leaves every client where it is, does not shorten the queue *)
(* and does not make a message newly owed keeps QueueInv.                  *)
LEMMA QueueFrame ==
  ASSUME TypeOK, TypeOK', QueueInv, Pending' = Pending,
         Len(queue') >= Len(queue), Owed' => Owed
  PROVE  QueueInv'
BY PendingCount DEF QueueInv, TypeOK, EngineTypeOK

(* Taking the message that was owed keeps QueueInv.                        *)
LEMMA QueueTaken ==
  ASSUME TypeOK, TypeOK', QueueInv, Pending' = Pending,
         Len(queue') = Len(queue) - 1, Owed, ~Owed'
  PROVE  QueueInv'
BY PendingCount DEF QueueInv, TypeOK, EngineTypeOK

(* Every request short of its set_state("transmit") and every "transmit"   *)
(* the worker will act on keeps a message of its own in the queue.         *)
LEMMA QueueInvStep ==
  TypeOK /\ TypeOK' /\ NoOtherCalls /\ QueueInv /\ [Next]_vars => QueueInv'
<1> SUFFICES ASSUME TypeOK, TypeOK', NoOtherCalls, QueueInv, [Next]_vars
             PROVE  QueueInv'
  OBVIOUS
<1> USE DEF TypeOK, EngineTypeOK
<1>1. CASE EngineStep
  <2> USE DEF WorkerGoto, radioVars, threadVars, Owed, Pending
  <2>1. CASE WorkerCheck BY <2>1, QueueFrame DEF WorkerCheck
  <2>2. CASE WorkerRead
    <3>1. worker' = "tx_get" => state = "transmit"
      BY <2>2 DEF WorkerRead, Branch, NoOtherCalls
    <3> QED BY <2>2, <3>1, QueueFrame DEF WorkerRead
  <2>3. CASE WorkerReset \/ WorkerSetIdle
    BY <2>3 DEF WorkerReset, WorkerSetIdle, NoOtherCalls
  <2>4. CASE WorkerTxGet
    <3>1. Pending' = Pending /\ Owed /\ ~Owed' /\ Len(queue') = Len(queue) - 1
      BY <2>4 DEF WorkerTxGet
    <3> QED BY <3>1, QueueTaken
  <2>5. CASE WorkerTxTimeout
    BY <2>5, OwedHasMessage DEF WorkerTxTimeout, TransmitFindsMessage
  <2>6. CASE WorkerTxMode \/ WorkerTxSend \/ WorkerTxDone
    <3>1. queue' = queue /\ Pending' = Pending /\ (Owed' => Owed)
      BY <2>6 DEF WorkerTxMode, WorkerTxSend, WorkerTxDone
    <3> HIDE DEF TypeOK, EngineTypeOK, Owed, Pending
    <3>2. Len(queue') >= Len(queue)
      <4>1. Len(queue) \in Nat BY DEF TypeOK, EngineTypeOK
      <4> QED BY <3>1, <4>1
    <3> QED BY <3>1, <3>2, QueueFrame
  <2>7. CASE WorkerRxMode BY <2>7, QueueFrame DEF WorkerRxMode
  <2>8. CASE WorkerRxPoll
    <3>1. Len(queue') >= Len(queue) BY <2>8 DEF WorkerRxPoll
    <3> QED BY <2>8, <3>1, QueueFrame DEF WorkerRxPoll
  <2>9. CASE WorkerCrash BY <2>9, QueueFrame DEF WorkerCrash
  <2>10. CASE \E p \in Packet : Hear(p) BY <2>10, QueueFrame DEF Hear
  <2> QED BY <1>1, <2>1, <2>2, <2>3, <2>4, <2>5, <2>6, <2>7, <2>8, <2>9,
             <2>10 DEF EngineStep, WorkerStep
<1>2. ASSUME NEW h \in Handler, NEW m \in Message, SendStart(h, m)
      PROVE  QueueInv'
  <2>1. Pending' = Pending \cup {h} /\ h \notin Pending
    BY <1>2 DEF SendStart, QueuePut, ClientGoto, Pending, Handler
  <2>2. Cardinality(Pending') = Cardinality(Pending) + 1
    BY <2>1, PendingCount, FS_AddElement
  <2>3. Len(queue') = Len(queue) + 1 /\ (Owed' <=> Owed)
    BY <1>2 DEF SendStart, QueuePut, Owed
  <2> QED BY <2>2, <2>3, PendingCount DEF QueueInv
<1>3. ASSUME NEW h \in Handler, SendQueueing(h) PROVE QueueInv'
  <2> USE DEF ClientGoto
  <2>1. CASE QueueTransmit(h)
    <3>1. Pending' = Pending \ {h} /\ h \in Pending
      BY <2>1 DEF QueueTransmit, Pending, Handler
    <3>2. Cardinality(Pending') = Cardinality(Pending) - 1
      BY <3>1, PendingCount, FS_RemoveElement
    <3>3. queue' = queue BY <2>1 DEF QueueTransmit
    <3> QED BY <3>2, <3>3, PendingCount DEF QueueInv
  <2>2. CASE QueueLook(h)
    <3>1. Pending' = Pending BY <2>2 DEF QueueLook, Pending, Handler
    <3>2. queue' = queue /\ (Owed' <=> Owed) BY <2>2 DEF QueueLook, Owed
    <3> QED BY <3>1, <3>2, PendingCount DEF QueueInv
  <2>3. CASE QueueReceive(h)
    <3>1. Pending' = Pending BY <2>3 DEF QueueReceive, Pending, Handler
    <3>2. queue' = queue /\ (Owed' => Owed) BY <2>3 DEF QueueReceive, Owed
    <3> QED BY <3>1, <3>2, QueueFrame
  <2> QED BY <1>3, <2>1, <2>2, <2>3 DEF SendQueueing, QueueStep
<1>4. CASE UNCHANGED engineVars
  <2>1. Pending' = Pending /\ (Owed' <=> Owed) /\ queue' = queue
    BY <1>4 DEF engineVars, threadVars, Pending, Owed
  <2> QED BY <2>1, PendingCount DEF QueueInv
<1>5. CASE Stop \/ Exit
  <2>1. Pending' = Pending
    BY <1>5 DEF Stop, Exit, ShutdownFlag, ShutdownJoin, ClientGoto, Pending, Handler
  <2>2. queue' = queue /\ (Owed' => Owed)
    BY <1>5 DEF Stop, Exit, ShutdownFlag, ShutdownJoin, Owed
  <2> QED BY <2>1, <2>2, QueueFrame
<1>6. CASE Restart
  <2>1. Pending' = {} /\ ~Owed' /\ Len(queue') = 0
    BY <1>6 DEF Restart, Pending, Owed, Handler
  <2> QED BY <2>1, FS_EmptySet DEF QueueInv
<1> QED BY <1>1, <1>2, <1>3, <1>4, <1>5, <1>6 DEF Next, SendStep, SendQueued,
           SendSave, SendSaveFail, SendSaveRaise, SendReply, vars

(* "transmit" is only ever the state during a queue_message call.          *)
LEMMA TransmitStep ==
  TypeOK /\ NoOtherCalls /\ TransmitOnlyInCall /\ [Next]_vars
    => TransmitOnlyInCall'
<1> SUFFICES ASSUME TypeOK, NoOtherCalls, TransmitOnlyInCall, [Next]_vars
             PROVE  TransmitOnlyInCall'
  OBVIOUS
<1> USE BackendAssumption
    DEF TransmitOnlyInCall, TypeOK, EngineTypeOK, Handler, radioVars
<1>1. CASE EngineStep
  <2>1. cpc' = cpc /\ (state' = "transmit" => state = "transmit")
    BY <1>1 DEF EngineStep, WorkerStep, WorkerCheck, WorkerRead, WorkerReset,
         WorkerSetIdle, WorkerTxGet, WorkerTxTimeout, WorkerTxMode, WorkerTxSend,
         WorkerTxDone, WorkerRxMode, WorkerRxPoll, WorkerCrash, Hear, threadVars
  <2> QED BY <2>1
<1>2. ASSUME NEW h \in Handler, NEW m \in Message, SendStart(h, m)
      PROVE  TransmitOnlyInCall'
  BY <1>2 DEF SendStart, QueuePut, ClientGoto
<1>3. ASSUME NEW h \in Handler, SendQueueing(h) PROVE TransmitOnlyInCall'
  <2>1. CASE QueueTransmit(h) BY <2>1 DEF QueueTransmit, ClientGoto
  <2>2. CASE QueueLook(h) BY <2>2 DEF QueueLook, ClientGoto
  <2>3. CASE QueueReceive(h) BY <2>3 DEF QueueReceive, ClientGoto
  <2> QED BY <1>3, <2>1, <2>2, <2>3 DEF SendQueueing, QueueStep
<1>4. CASE UNCHANGED engineVars BY <1>4 DEF engineVars, threadVars
<1>5. CASE Stop \/ Exit
  BY <1>5 DEF Stop, Exit, ShutdownFlag, ShutdownJoin, ClientGoto
<1>6. CASE Restart BY <1>6 DEF Restart
<1> QED BY <1>1, <1>2, <1>3, <1>4, <1>5, <1>6 DEF Next, SendStep, SendQueued,
           SendSave, SendSaveFail, SendSaveRaise, SendReply, vars

(* What appending a record does to the file.                               *)
LEMMA AppendRecord ==
  ASSUME NEW f \in Seq(Record), NEW r \in Record
  PROVE  /\ DOMAIN Append(f, r) = 1 .. Len(f) + 1
         /\ DOMAIN f = 1 .. Len(f)
         /\ \A i \in DOMAIN f : Append(f, r)[i] = f[i]
         /\ Append(f, r)[Len(f) + 1] = r
         /\ Len(f) \in Nat
OBVIOUS

(* An entry stays in the file when another record is appended.             *)
LEMMA StoredStays ==
  ASSUME TypeOK, NEW r \in Record, log' = Append(log, r), NEW m, Stored(m)
  PROVE  Stored(m)'
<1>1. log \in Seq(Record) BY DEF TypeOK
<1>2. PICK i \in DOMAIN log : log[i].msg = m /\ log[i].whole
  BY DEF Stored
<1>3. i \in DOMAIN Append(log, r) /\ Append(log, r)[i] = log[i]
  BY <1>1, AppendRecord
<1> QED BY <1>2, <1>3 DEF Stored

(* Answered entries are in the file, unless their own save failed.         *)
LEMMA SaveStep == TypeOK /\ TypeOK' /\ SaveInv /\ [Next]_vars => SaveInv'
<1> SUFFICES ASSUME TypeOK, TypeOK', SaveInv, [Next]_vars PROVE SaveInv'
  OBVIOUS
<1> USE DEF SaveInv
<1>1. ASSUME NEW h \in Handler, NEW m \in Message, SendStart(h, m)
      PROVE  SaveInv'
  <2>1. /\ log' = log /\ acked' = acked /\ failed' = failed
        /\ hpc'[h] = "queueing" /\ entry'[h] = m
        /\ \A g \in Handler \ {h} : hpc'[g] = hpc[g] /\ entry'[g] = entry[g]
    BY <1>1 DEF SendStart, HandlerGoto, TypeOK, fileVars
  <2> QED BY <2>1 DEF Stored
<1>2. ASSUME NEW h \in Handler, SendQueued(h) PROVE SaveInv'
  <2>1. /\ log' = log /\ entry' = entry /\ acked' = acked /\ failed' = failed
        /\ hpc[h] = "queueing" /\ hpc'[h] = "save"
        /\ \A g \in Handler \ {h} : hpc'[g] = hpc[g]
    BY <1>2 DEF SendQueued, HandlerGoto, TypeOK, fileVars
  <2> QED BY <2>1 DEF Stored
<1>3. ASSUME NEW h \in Handler, SendSave(h) PROVE SaveInv'
  <2> DEFINE r == [msg |-> entry[h], whole |-> TRUE]
  <2>1. r \in Record /\ log \in Seq(Record)
    BY <1>3 DEF SendSave, HandlerGoto, Record, TypeOK
  <2>2. log' = Append(log, r) BY <1>3 DEF SendSave
  <2>3. \A m : Stored(m) => Stored(m)'
    BY <2>1, <2>2, StoredStays
  <2>4. /\ entry' = entry /\ acked' = acked /\ failed' = failed
        /\ entry[h] \in Message
        /\ \A g \in Handler \ {h} : hpc'[g] = hpc[g]
    BY <1>3 DEF SendSave, HandlerGoto, TypeOK
  <2>5. Stored(entry[h])'
    <3>1. Len(log) + 1 \in DOMAIN log' /\ log'[Len(log) + 1] = r
      BY <2>1, <2>2, AppendRecord
    <3> QED BY <2>4, <3>1 DEF Stored
  <2>6. Readable(log) => Readable(log')
    BY <2>1, <2>2, AppendRecord DEF Readable
  <2>7. \A g \in Handler : hpc'[g] # "free" => entry'[g] \in Message
    BY <2>4
  <2>8. ASSUME NEW g \in Handler, hpc'[g] = "reply", entry'[g] \notin failed'
        PROVE  Stored(entry[g])'
    <3>1. CASE g = h BY <2>5, <3>1
    <3>2. CASE g # h
      <4>1. Stored(entry[g]) BY <2>4, <2>8, <3>2
      <4> QED BY <2>3, <2>4, <4>1 DEF Stored
    <3> QED BY <3>1, <3>2
  <2>9. \A m \in acked' \ failed' : Stored(m)'
    BY <2>3, <2>4
  <2> QED BY <2>6, <2>7, <2>8, <2>9 DEF Readable
<1>4. ASSUME NEW h \in Handler, SendSaveFail(h) PROVE SaveInv'
  <2> DEFINE r == [msg |-> entry[h], whole |-> FALSE]
  <2>1. r \in Record
    BY <1>4 DEF SendSaveFail, HandlerGoto, Record
  <2>2. log' = log \/ (TornWrites /\ log' = Append(log, r))
    BY <1>4 DEF SendSaveFail
  <2>3. \A m : Stored(m) => Stored(m)'
    <3>1. CASE log' = log BY <3>1 DEF Stored
    <3>2. CASE log' = Append(log, r) BY <2>1, <3>2, StoredStays
    <3> QED BY <2>2, <3>1, <3>2
  <2>4. ~TornWrites => Readable(log)' BY <2>2 DEF Readable
  <2> QED BY <1>4, <2>3, <2>4 DEF SendSaveFail, HandlerGoto, TypeOK
<1>5. ASSUME NEW h \in Handler, SendReply(h) PROVE SaveInv'
  <2>1. /\ log' = log /\ failed' = failed /\ acked' = acked \cup {entry[h]}
        /\ hpc[h] = "reply" /\ hpc'[h] = "free"
        /\ \A g \in Handler \ {h} : hpc'[g] = hpc[g] /\ entry'[g] = entry[g]
    BY <1>5 DEF SendReply, HandlerGoto, TypeOK
  <2>2. \A m : Stored(m)' <=> Stored(m)
    BY <2>1 DEF Stored
  <2>3. \A g \in Handler : hpc'[g] # "free" => entry'[g] \in Message
    BY <2>1
  <2>4. ASSUME NEW g \in Handler, hpc'[g] = "reply", entry'[g] \notin failed'
        PROVE  Stored(entry[g])'
    <3>1. g # h /\ Stored(entry[g]) BY <2>1, <2>4
    <3> QED BY <2>1, <3>1 DEF Stored
  <2>5. \A m \in acked' \ failed' : Stored(m)'
    BY <2>1, <2>2
  <2> QED BY <2>1, <2>3, <2>4, <2>5 DEF Readable
<1>6. CASE Restart
  <2>1. \A m : Stored(m) => Stored(m)'
    <3>1. CASE log' = log BY <3>1 DEF Stored
    <3>2. ASSUME NEW h \in Handler, hpc[h] = "save",
                 log' = Append(log, [msg |-> entry[h], whole |-> FALSE])
          PROVE  \A m : Stored(m) => Stored(m)'
      <4>1. [msg |-> entry[h], whole |-> FALSE] \in Record
        BY <3>2 DEF Record
      <4> QED BY <3>2, <4>1, StoredStays
    <3> QED BY <1>6, <3>1, <3>2 DEF Restart
  <2>2. ~TornWrites => log' = log BY <1>6 DEF Restart
  <2> QED BY <1>6, <2>1, <2>2 DEF Restart, Readable
<1>7. CASE UNCHANGED backendVars
  BY <1>7 DEF backendVars, fileVars, Stored
<1>8. ASSUME NEW h \in Handler, SendSaveRaise(h) PROVE SaveInv'
  <2>1. /\ log' = log /\ failed' = failed /\ acked' = acked /\ hpc'[h] = "free"
        /\ \A g \in Handler \ {h} : hpc'[g] = hpc[g] /\ entry'[g] = entry[g]
    BY <1>8 DEF SendSaveRaise, HandlerGoto, TypeOK, fileVars
  <2> QED BY <2>1 DEF Stored, Readable
<1> QED BY <1>1, <1>2, <1>3, <1>4, <1>5, <1>6, <1>7, <1>8
        DEF Next, EngineStep, SendStep, SendQueueing, Stop, Exit, vars

(* IInv holds when the backend has started.                                *)
LEMMA InitIInv == Init => IInv
<1> SUFFICES ASSUME Init PROVE IInv
  OBVIOUS
<1>1. TypeOK BY InitType
<1>2. NoOtherCalls /\ HandInv /\ TransmitOnlyInCall
  BY BackendAssumption
  DEF Init, EngineInit, NoOtherCalls, HandInv, TransmitOnlyInCall, Handler
<1>3. QueueInv
  <2>1. Pending = {} BY DEF Init, EngineInit, Pending, Handler
  <2>2. ~Owed /\ Len(queue) = 0 BY DEF Init, EngineInit, Owed
  <2> QED BY <2>1, <2>2, FS_EmptySet DEF QueueInv
<1>4. SaveInv BY DEF Init, SaveInv, Readable, Handler
<1> QED BY <1>1, <1>2, <1>3, <1>4 DEF IInv

(* IInv is inductive: it holds throughout every behaviour of the backend,  *)
(* for every set of requests, messages and packets.                        *)
THEOREM Invariance == Spec => []IInv
<1>1. IInv /\ [Next]_vars => IInv'
  BY TypeStep, NoOtherStep, HandStep, QueueInvStep, TransmitStep, SaveStep DEF IInv
<1> QED BY <1>1, InitIInv, PTL DEF Spec

(* Every variable keeps its declared type.                                 *)
THEOREM TypeCorrect == Spec => []TypeOK
<1>1. IInv => TypeOK BY DEF IInv
<1> QED BY <1>1, Invariance, PTL

(* _do_transmit always finds a message: queue.Empty is never raised.       *)
THEOREM TransmitNeverEmpty == Spec => []TransmitFindsMessage
<1>1. IInv => TransmitFindsMessage BY OwedHasMessage DEF IInv
<1> QED BY <1>1, Invariance, PTL

(* No interleaving of requests and worker leaves the state at "transmit"   *)
(* when no queue_message call is under way.                                *)
THEOREM NeverStuckTransmitting == Spec => []TransmitOnlyInCall
<1>1. IInv => TransmitOnlyInCall BY DEF IInv
<1> QED BY <1>1, Invariance, PTL

(* The engine goes back to "idle" only when the process is started again.  *)
THEOREM IdleOnlyByRestart == Spec => NeverIdleAgain
<1>1. IInv /\ [Next]_vars
        => [state # "idle" /\ state' = "idle" => restarts' # restarts]_vars
  <2> SUFFICES ASSUME IInv, Next, state # "idle", state' = "idle"
               PROVE  restarts' # restarts
    OBVIOUS
  <2> USE DEF IInv, TypeOK
  <2>1. CASE EngineStep
    BY <2>1 DEF EngineStep, WorkerStep, WorkerCheck, WorkerRead, WorkerReset,
         WorkerSetIdle, WorkerTxGet, WorkerTxTimeout, WorkerTxMode, WorkerTxSend,
         WorkerTxDone, WorkerRxMode, WorkerRxPoll, WorkerCrash, Hear, WorkerGoto,
         NoOtherCalls
  <2>2. ASSUME NEW h \in Handler, NEW m \in Message, SendStart(h, m)
        PROVE  FALSE
    BY <2>2 DEF SendStart, QueuePut
  <2>3. ASSUME NEW h \in Handler, SendStep(h) PROVE FALSE
    BY <2>3 DEF SendStep, SendQueueing, QueueStep, QueueTransmit, QueueLook,
         QueueReceive, SendQueued, SendSave, SendSaveFail, SendSaveRaise, SendReply, engineVars
  <2>4. CASE Stop \/ Exit BY <2>4 DEF Stop, Exit, ShutdownFlag, ShutdownJoin
  <2>5. CASE Restart BY <2>5 DEF Restart
  <2> QED BY <2>1, <2>2, <2>3, <2>4, <2>5 DEF Next
<1> QED BY <1>1, Invariance, PTL DEF Spec, NeverIdleAgain

(* A GET answered 200 shows every acknowledged message whose save did not  *)
(* raise and no entry that was cut short, whatever failed before.          *)
THEOREM FeedIsNeverPartial == Spec => []FeedNeverPartial
<1>1. IInv => FeedNeverPartial
  <2> SUFFICES ASSUME SaveInv, Readable(log) PROVE FeedNeverPartial
    BY DEF IInv, FeedNeverPartial, source_messages
  <2> DEFINE d == source_messages(log).data
  <2>1. d = [i \in DOMAIN log |-> log[i].msg]
    BY DEF source_messages
  <2>2. \A m \in acked \ failed : \E i \in DOMAIN d : d[i] = m
    BY <2>1 DEF SaveInv, Stored
  <2>3. \A i \in DOMAIN log : log[i].whole
    BY DEF Readable
  <2> QED BY <2>2, <2>3 DEF FeedNeverPartial
<1> QED BY <1>1, Invariance, PTL

(* As long as no write is ever cut short, every message answered "success" *)
(* whose own save did not raise is served, also after a restart.           *)
THEOREM AckedIsServed == ~TornWrites /\ Spec => []FeedServesAcked
<1> SUFFICES ASSUME ~TornWrites PROVE Spec => []FeedServesAcked
  OBVIOUS
<1>1. IInv => FeedServesAcked
  <2> SUFFICES ASSUME SaveInv PROVE FeedServesAcked
    BY DEF IInv
  <2> DEFINE d == source_messages(log).data
  <2>1. d = [i \in DOMAIN log |-> log[i].msg]
    BY DEF source_messages, SaveInv
  <2>2. \A m \in acked \ failed : \E i \in DOMAIN d : d[i] = m
    BY <2>1 DEF SaveInv, Stored
  <2> QED BY <2>2 DEF FeedServesAcked
<1> QED BY <1>1, Invariance, PTL

(* Appending commutes with putting an item in front, and taking the head   *)
(* off and putting it back changes nothing.                                *)
LEMMA FrontAppend ==
  ASSUME NEW S, NEW x \in S, NEW q \in Seq(S)
  PROVE  /\ \A m \in S : <<x>> \o Append(q, m) = Append(<<x>> \o q, m)
         /\ Head(<<x>> \o q) = x /\ Tail(<<x>> \o q) = q /\ <<x>> \o q # <<>>
         /\ q # <<>> => <<Head(q)>> \o Tail(q) = q
OBVIOUS

(* Putting an item into the queue is the outbox's Accept, whether or not   *)
(* the worker has a message in hand.                                       *)
LEMMA AcceptStep ==
  ASSUME queue \in Seq(Item), hand \in Item \cup {None}, NEW x \in Item,
         queue' = Append(queue, x), UNCHANGED <<hand, sent, restarts>>
  PROVE  Box!Accept(x)
<1>1. CASE hand = None BY <1>1 DEF Waiting, Box!Accept
<1>2. CASE hand # None
  <2>1. hand \in Item BY <1>2
  <2>2. <<hand>> \o Append(queue, x) = Append(<<hand>> \o queue, x)
    BY <2>1, FrontAppend
  <2>3. Waiting = <<hand>> \o queue /\ Waiting' = <<hand>> \o queue'
    BY <1>2 DEF Waiting
  <2> QED BY <2>2, <2>3 DEF Box!Accept
<1> QED BY <1>1, <1>2

(* Every step of the backend is a step of the outbox or leaves it alone.   *)
LEMMA OutboxStep ==
  ASSUME IInv, IInv', [Next]_vars
  PROVE  [Box!Next]_<<Waiting, sent, restarts>>
<1> USE EngineAssumption DEF IInv, TypeOK, EngineTypeOK, radioVars, threadVars
<1>1. CASE UNCHANGED <<queue, hand, sent, restarts>>
  BY <1>1 DEF Waiting
<1>2. ASSUME NEW x \in Item, queue' = Append(queue, x),
             UNCHANGED <<hand, sent, restarts>>
      PROVE  Box!Accept(x)
  BY <1>2, AcceptStep
<1>3. CASE EngineStep
  <2>1. restarts' = restarts BY <1>3 DEF EngineStep, backendVars
  <2>2. CASE WorkerTxGet
    <3>1. hand = None /\ hand' = Head(queue) /\ hand' # None
          /\ queue' = Tail(queue) /\ queue # <<>> /\ sent' = sent
      BY <2>2 DEF WorkerTxGet, WorkerGoto, HandInv
    <3>2. <<Head(queue)>> \o Tail(queue) = queue
      BY <3>1, FrontAppend DEF Item
    <3> QED BY <2>1, <3>1, <3>2 DEF Waiting
  <2>3. CASE WorkerTxSend
    <3>1. hand \in Item /\ hand # None /\ hand' = None /\ queue' = queue
          /\ sent' = Append(sent, hand)
      BY <2>3 DEF WorkerTxSend, WorkerGoto, HandInv
    <3>2. /\ Head(<<hand>> \o queue) = hand /\ Tail(<<hand>> \o queue) = queue
          /\ <<hand>> \o queue # <<>>
      BY <3>1, FrontAppend
    <3>3. Box!Transmit BY <2>1, <3>1, <3>2 DEF Waiting, Box!Transmit
    <3> QED BY <3>3 DEF Box!Next
  <2>4. CASE WorkerRxPoll
    <3>1. CASE inbox = <<>> BY <1>1, <2>1, <2>4, <3>1 DEF WorkerRxPoll
    <3>2. CASE inbox # <<>>
      <4>1. Head(inbox) \in Item BY <3>2 DEF Item
      <4>2. Box!Accept(Head(inbox))
        BY <1>2, <2>1, <2>4, <3>2, <4>1 DEF WorkerRxPoll
      <4> QED BY <4>1, <4>2 DEF Box!Next
    <3> QED BY <3>1, <3>2
  <2>5. CASE \/ WorkerCheck \/ WorkerRead \/ WorkerReset \/ WorkerSetIdle
             \/ WorkerTxTimeout \/ WorkerTxMode \/ WorkerTxDone \/ WorkerRxMode
             \/ WorkerCrash \/ \E p \in Packet : Hear(p)
    <3>1. UNCHANGED <<queue, hand, sent, restarts>>
      BY <2>1, <2>5 DEF WorkerCheck, WorkerRead, WorkerReset, WorkerSetIdle,
           WorkerTxTimeout, WorkerTxMode, WorkerTxDone, WorkerRxMode,
           WorkerCrash, Hear
    <3> QED BY <1>1, <3>1
  <2> QED BY <1>3, <2>2, <2>3, <2>4, <2>5 DEF EngineStep, WorkerStep
<1>4. ASSUME NEW h \in Handler, NEW m \in Message, SendStart(h, m)
      PROVE  Box!Next
  <2>1. m \in Item /\ Box!Accept(m)
    BY <1>2, <1>4 DEF SendStart, QueuePut, Item
  <2> QED BY <2>1 DEF Box!Next
<1>5. ASSUME NEW h \in Handler, SendStep(h)
      PROVE  UNCHANGED <<queue, hand, sent, restarts>>
  BY <1>5 DEF SendStep, SendQueueing, QueueStep, QueueTransmit, QueueLook,
       QueueReceive, SendQueued, SendSave, SendSaveFail, SendSaveRaise, SendReply, engineVars,
       backendVars
<1>6. CASE Stop \/ Exit
  BY <1>1, <1>6 DEF Stop, Exit, ShutdownFlag, ShutdownJoin, backendVars
<1>7. CASE Restart
  <2>1. Box!Forget BY <1>7 DEF Restart, Waiting, Box!Forget
  <2> QED BY <2>1 DEF Box!Next
<1>8. CASE UNCHANGED vars
  BY <1>1, <1>8 DEF vars, engineVars, backendVars
<1> QED BY <1>1, <1>3, <1>4, <1>5, <1>6, <1>7, <1>8 DEF Next

(* The engine under the backend's requests implements the outbox: in order, *)
(* at most once, and nothing dropped but by a restart of the process.       *)
THEOREM EngineIsOutbox == Spec => OutboxSpec
<1>1. Init => Box!Init
  BY DEF Init, EngineInit, Box!Init, Waiting
<1>2. IInv /\ IInv' /\ [Next]_vars => [Box!Next]_<<Waiting, sent, restarts>>
  BY OutboxStep
<1> QED BY <1>1, <1>2, Invariance, PTL DEF Spec, OutboxSpec, Box!Spec
=============================================================================
