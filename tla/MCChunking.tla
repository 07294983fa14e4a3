----------------------------- MODULE MCChunking -----------------------------
(* TLC instance of Framing: characters of one, two and four bytes, among   *)
(* them those of one chunk marker and of the frame, and one entry.         *)
EXTENDS Framing

MCWidth == [c \in Char |-> CASE c = "wide" -> 4 [] c = "umlaut" -> 2 [] OTHER -> 1]

MCMarkers == {<<"|", "c", "1", "|">>}

(* Every symbol has a code of its own.                                     *)
Symbols ==
  <<"|", "c", "1", ":", "*", "umlaut", "wide", "2", "3", "4", "0", "A", "a",
    "ann", "crc", "from", "message", "checksum", "chunk_id", "chunk_batch", "timestamp">>

MCCode ==
  [s \in ToSet(Symbols) |->
     {b \in 1 .. 5 : (CHOOSE i \in DOMAIN Symbols : Symbols[i] = s) \div 2^(b - 1) % 2 = 1}]

MCIdText == << <<"1">>, <<"2">>, <<"3">>, <<"4">> >>

MCEntry ==
  [from |-> <<"ann">>, message |-> <<>>, checksum |-> <<"crc">>, chunk_id |-> <<"1">>,
   chunk_batch |-> <<"1">>, timestamp |-> <<"1", "0">>]
=============================================================================
