------------------------------ MODULE Chunking ------------------------------
(***************************************************************************)
(* Cutting an outgoing message into chunks, backend/parser.py: the loop of *)
(* split_into_chunks, one step per character, and the checks that decide   *)
(* whether a message has to be cut.  A message is a sequence of            *)
(* characters, and a character is known by the bytes UTF-8 needs for it.   *)
(***************************************************************************)
EXTENDS Integers, Sequences, SequencesExt

CONSTANTS
  Char,      \* characters of messages
  Markers,   \* the chunk markers "|c1|" to "|c999|"
  Width,     \* bytes of a character
  MaxSizes,  \* the values of max_size that are tried
  MaxLength  \* bound: characters in a message

ASSUME ChunkingAssumption ==
  /\ Markers \subseteq Seq(Char)
  /\ Width \in [Char -> Nat \ {0}]
  /\ \A n \in MaxSizes : n \in Nat /\ \A c \in Char : Width[c] <= n
  /\ MaxLength \in Nat

VARIABLES
  message,   \* the argument
  max_size,  \* the argument
  pos,       \* characters of message the loop has passed
  chunks,    \* chunks appended so far, as id and text
  current,   \* current_chunk
  chunk_id,
  pc         \* "loop", "done"

vars == <<message, max_size, pos, chunks, current, chunk_id, pc>>

Message == UNION {[1 .. n -> Char] : n \in 0 .. MaxLength}

(* len(text.encode('utf-8')): the bytes of the characters, added up.       *)
Bytes(text) ==
  LET upto[n \in 0 .. Len(text)] ==
        IF n = 0 THEN 0 ELSE upto[n - 1] + Width[text[n]]
  IN  upto[Len(text)]

Init ==
  /\ message \in Message
  /\ max_size \in MaxSizes
  /\ pos = 0
  /\ chunks = <<>>
  /\ current = <<>>
  /\ chunk_id = 1
  /\ pc = "loop"

(* chunks.append(f"|c{chunk_id}|{current_chunk}") *)
Cut(text) == chunks' = Append(chunks, [id |-> chunk_id, text |-> text])

(* The bytes of f"|c{chunk_id}|": three and one for every digit            *)
MarkerBytes(id) == 3 + (CHOOSE d \in 1 .. id : 10^(d - 1) <= id /\ id < 10^d)

(* Mutant: >= for >.                                                       *)
SplitCharEarly ==
  LET char == message[pos + 1]
  IN  /\ pc = "loop"
      /\ pos < Len(message)
      /\ pos' = pos + 1
      /\ \/ /\ Bytes(Append(current, char)) >= max_size
            /\ Cut(current)
            /\ current' = <<char>>
            /\ chunk_id' = chunk_id + 1
         \/ /\ Bytes(Append(current, char)) < max_size
            /\ current' = Append(current, char)
            /\ UNCHANGED <<chunks, chunk_id>>
      /\ UNCHANGED <<message, max_size, pc>>

(* Mutant: a new chunk starts empty.                                       *)
SplitCharDropping ==
  LET char == message[pos + 1]
  IN  /\ pc = "loop"
      /\ pos < Len(message)
      /\ pos' = pos + 1
      /\ \/ /\ Bytes(Append(current, char)) > max_size
            /\ Cut(current)
            /\ current' = <<>>
            /\ chunk_id' = chunk_id + 1
         \/ /\ Bytes(Append(current, char)) <= max_size
            /\ current' = Append(current, char)
            /\ UNCHANGED <<chunks, chunk_id>>
      /\ UNCHANGED <<message, max_size, pc>>

(* for char in message: cut before a character that does not fit any more. *)
SplitChar ==
  LET char == message[pos + 1]
  IN  /\ pc = "loop"
      /\ pos < Len(message)
      /\ pos' = pos + 1
      /\ \/ /\ Bytes(Append(current, char)) > max_size
            /\ Cut(current)
            /\ current' = <<char>>
            /\ chunk_id' = chunk_id + 1
         \/ /\ Bytes(Append(current, char)) <= max_size
            /\ current' = Append(current, char)
            /\ UNCHANGED <<chunks, chunk_id>>
      /\ UNCHANGED <<message, max_size, pc>>

(* if current_chunk: the rest is the last chunk.  return chunks            *)
SplitRest ==
  /\ pc = "loop"
  /\ pos = Len(message)
  /\ pc' = "done"
  /\ IF current # <<>> THEN Cut(current) ELSE UNCHANGED chunks
  /\ UNCHANGED <<message, max_size, pos, current, chunk_id>>

Next == SplitChar \/ SplitRest

Spec == Init /\ [][Next]_vars

(* any(f"|c{i}|" in message for i in range(1, 1000)) *)
Marked(m) == \E k \in Markers : \E i \in 1 .. Len(m) - Len(k) + 1 :
               SubSeq(m, i, i + Len(k) - 1) = k

(* Mutant: the size is compared with >=.                                   *)
is_it_in_batches_at_limit(m, size) ==
  m # <<>> /\ (Marked(m) \/ Bytes(m) >= size)

(* A marker in the text, or more bytes than one chunk takes.               *)
is_it_in_batches(m, size) ==
  m # <<>> /\ (Marked(m) \/ Bytes(m) > size)

-----------------------------------------------------------------------------
(* Properties.                                                             *)

Texts == [i \in DOMAIN chunks |-> chunks[i].text]

(* The texts of the chunks, in order, are the message: at every turn of    *)
(* the loop what was cut off and the chunk being filled are the characters *)
(* passed, and at the end the chunks alone are the whole message, numbered *)
(* 1, 2, ... as reassembly and is_message_complete count them.             *)
NothingLost ==
  /\ FlattenSeq(Texts) \o (IF pc = "loop" THEN current ELSE <<>>)
       = SubSeq(message, 1, pos)
  /\ \A i \in DOMAIN chunks : chunks[i].id = i

(* Leaving markers aside, which split_into_chunks adds after it measured:  *)
(* no text is empty or longer than max_size bytes, and none is cut early,  *)
(* the first character of the next text would not have fitted.  So no      *)
(* character is ever split, and the message is in as few texts as its      *)
(* characters allow.  What the docstring promises of the whole chunk is    *)
(* ChunksWithinMaxSize.                                                    *)
TextsFilled ==
  /\ \A i \in DOMAIN chunks : /\ Bytes(chunks[i].text) <= max_size
                              /\ chunks[i].text # <<>>
  /\ \A i \in 1 .. Len(chunks) - 1 :
       Bytes(chunks[i].text) + Width[Head(chunks[i + 1].text)] > max_size

(* The docstring of split_into_chunks (parser.py:239): "Splits the message *)
(* into UTF-8 safe chunks not exceeding `max_size` bytes."  It returns     *)
(* each chunk with its marker.                                             *)
ChunksWithinMaxSize ==
  \A i \in DOMAIN chunks :
    MarkerBytes(chunks[i].id) + Bytes(chunks[i].text) <= max_size

(* is_it_in_batches says that a message without a marker has to be cut     *)
(* exactly when split_into_chunks makes more than one chunk of it.         *)
BatchesAgree ==
  pc = "done" /\ ~Marked(message)
    => (is_it_in_batches(message, max_size) <=> Len(chunks) > 1)
=============================================================================
