----------------------------- MODULE WireFormat -----------------------------
(***************************************************************************)
(* Frames on the air, backend/parser.py: prepare writes an entry as fields *)
(* "key:value" joined by "|" and appends "*" and a checksum, parse_message *)
(* takes a frame apart.  A frame is a sequence of symbols: a character, or *)
(* the name of a field.  The code of a symbol is the set of the bits that  *)
(* are 1 in it, so that exclusive or is symmetric difference; the checksum *)
(* is written with one digit for each bit, "A" or "0".                     *)
(***************************************************************************)
EXTENDS Integers, Sequences, SequencesExt, FiniteSetsExt

CONSTANTS
  Bits,  \* number of bits of a code
  Code   \* symbol -> set of bits

Symbol == DOMAIN Code

(* Two symbols have two codes: ord tells characters apart, and the name of *)
(* a field that one changed character turns into another is another symbol *)
(* with another code.                                                      *)
ASSUME WireAssumption ==
  /\ Bits \in Nat
  /\ Code \in [Symbol -> SUBSET (1 .. Bits)]
  /\ \A s, t \in Symbol : Code[s] = Code[t] => s = t
  /\ {"A", "0", "|", ":", "*", "from", "message", "checksum", "chunk_id", "chunk_batch", "timestamp"}
       \subseteq Symbol

Xor(A, B) == (A \ B) \cup (B \ A)

Digits(set) == [b \in 1 .. Bits |-> IF b \in set THEN "A" ELSE "0"]

(* Mutant: the loop starts over with every character.                      *)
calculate_crc_last(payload) ==
  Digits(IF payload = <<>> THEN {} ELSE Code[Last(payload)])

(* for char in payload: crc ^= ord(char)                                   *)
calculate_crc(payload) ==
  LET crc[n \in 0 .. Len(payload)] ==
        IF n = 0 THEN {} ELSE Xor(crc[n - 1], Code[payload[n]])
  IN  Digits(crc[Len(payload)])

Upper(text) == [i \in DOMAIN text |-> IF text[i] = "a" THEN "A" ELSE text[i]]

prepare(data) ==
  LET payload ==
        <<"from", ":">> \o data.from \o
        <<"|", "message", ":">> \o data.message \o
        <<"|", "checksum", ":">> \o data.checksum \o
        <<"|", "chunk_id", ":">> \o data.chunk_id \o
        <<"|", "chunk_batch", ":">> \o data.chunk_batch \o
        <<"|", "timestamp", ":">> \o data.timestamp
  IN  payload \o <<"*">> \o calculate_crc(payload)

-----------------------------------------------------------------------------
At(symbol, text) == {i \in DOMAIN text : text[i] = symbol}

(* The next character goes to the last field, or "|" begins a field.       *)
With(fields, s) ==
  IF s = "|" THEN Append(fields, <<>>) ELSE [fields EXCEPT ![Len(fields)] = Append(@, s)]

(* text.split("|") *)
Fields(text) ==
  LET fields[n \in 0 .. Len(text)] ==
        IF n = 0 THEN << <<>> >> ELSE With(fields[n - 1], text[n])
  IN  fields[Len(text)]

(* Mutant: the field is split at its last colon.                           *)
ValueAfterLast(field) == SubSeq(field, Max(At(":", field)) + 1, Len(field))

(* What follows the first colon of a field                                 *)
Value(field) == SubSeq(field, Min(At(":", field)) + 1, Len(field))

Keyed(field, key) ==
  At(":", field) # {} /\ SubSeq(field, 1, Min(At(":", field)) - 1) = <<key>>

(* The values of all fields with that key, in order                        *)
Values(fields, key) ==
  LET values[n \in 0 .. Len(fields)] ==
        IF n = 0 THEN <<>>
        ELSE values[n - 1] \o IF Keyed(fields[n], key) THEN <<Value(fields[n])>> ELSE <<>>
  IN  values[Len(fields)]

IsInt(text) == text # <<>> /\ ToSet(text) \subseteq {"0", "1"}
ToInt(text)   == FoldLeft(LAMBDA n, d : 10 * n + (IF d = "1" THEN 1 ELSE 0), 0, text)

Invalid == [valid |-> FALSE]

(* The fields of a payload whose checksum was right.  A number that is no  *)
(* number is an error, and so are a missing or empty sender and a missing  *)
(* or zero timestamp or batch.  The branch for values that contain "|c"    *)
(* cannot be taken: no value contains "|".                                 *)
Parsed(payload) ==
  LET fields == Fields(payload)
      from == Values(fields, "from")
      timestamp == Values(fields, "timestamp")
      batch == Values(fields, "chunk_batch")
      message == Values(fields, "message")
  IN  IF /\ \A v \in ToSet(timestamp) \cup ToSet(batch) : IsInt(v)
         /\ from # <<>> /\ Last(from) # <<>>
         /\ timestamp # <<>> /\ ToInt(Last(timestamp)) # 0
         /\ batch # <<>> /\ ToInt(Last(batch)) # 0
      THEN [valid |-> TRUE, from |-> Last(from),
            timestamp |-> ToInt(Last(timestamp)), batch |-> ToInt(Last(batch)),
            chunk |-> [i \in DOMAIN message |-> [id |-> 1, message |-> message[i]]]]
      ELSE Invalid

(* Mutant: raw.split("*", 1).                                              *)
parse_message_first(raw) ==
  LET star == Min(At("*", raw))
      payload == SubSeq(raw, 1, star - 1)
      crc == SubSeq(raw, star + 1, Len(raw))
  IN  IF At("*", raw) # {} /\ Upper(crc) = calculate_crc(payload)
      THEN Parsed(payload)
      ELSE Invalid

(* raw.rsplit("*", 1), then the checksum is compared                       *)
parse_message(raw) ==
  LET star == Max(At("*", raw))
      payload == SubSeq(raw, 1, star - 1)
      crc == SubSeq(raw, star + 1, Len(raw))
  IN  IF At("*", raw) # {} /\ Upper(crc) = calculate_crc(payload)
      THEN Parsed(payload)
      ELSE Invalid
=============================================================================
