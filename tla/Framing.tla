------------------------------- MODULE Framing ------------------------------
(***************************************************************************)
(* From the text of a message to what another unit makes of it: the text   *)
(* is cut (Chunking), the message as a whole or one of the chunks with its *)
(* marker is framed (WireFormat), and the frame is heard as it was sent or *)
(* with one symbol changed on the air.                                     *)
(***************************************************************************)
EXTENDS Chunking, WireFormat

CONSTANTS
  Entry,          \* an entry; the message is put in
  IdText,         \* a chunk id as text
  Noise,          \* what a symbol on the air may turn into
  MaxNoisyLength  \* bound: length of messages whose frames are disturbed

ASSUME FramingAssumption ==
  /\ {"c"} \cup Char \cup Noise \subseteq Symbol
  /\ IdText \in [1 .. MaxLength -> Seq(Symbol)]
  /\ Entry \in [from : Seq(Symbol), message : Seq(Symbol), checksum : Seq(Symbol),
                chunk_id : Seq(Symbol), chunk_batch : Seq(Symbol), timestamp : Seq(Symbol)]

VARIABLES
  sent,   \* the message field of the frame
  noisy,  \* was the frame changed?
  heard   \* what parse_message returned

framingVars == <<vars, sent, noisy, heard>>

Unheard == [valid |-> FALSE, heard |-> FALSE]

FramingInit == Init /\ sent = <<>> /\ noisy = FALSE /\ heard = Unheard

Cutting ==
  /\ SplitChar \/ SplitRest
  /\ UNCHANGED <<sent, noisy, heard>>

(* format_chunk, and the same in split_into_chunks                         *)
format_chunk(chunk) == <<"|", "c">> \o IdText[chunk.id] \o <<"|">> \o chunk.text

Sendable == {message} \cup {format_chunk(chunks[i]) : i \in DOMAIN chunks}

Frame(text) == prepare([Entry EXCEPT !.message = text])

(* One symbol of a frame changes on the air.                               *)
Disturbed(raw) ==
  {[raw EXCEPT ![i] = s] : i \in DOMAIN raw, s \in Noise} \ {raw}

Hear(text, raw) ==
  /\ pc = "done" /\ heard = Unheard
  /\ sent' = text
  /\ heard' = parse_message(raw)
  /\ UNCHANGED vars

HearClean == \E text \in Sendable : Hear(text, Frame(text)) /\ noisy' = FALSE

HearNoisy ==
  /\ Len(message) <= MaxNoisyLength
  /\ \E text \in Sendable :
       \E raw \in Disturbed(Frame(text)) : Hear(text, raw) /\ noisy' = TRUE

FramingNext == Cutting \/ HearClean \/ HearNoisy

FramingSpec == FramingInit /\ [][FramingNext]_framingVars

-----------------------------------------------------------------------------
(* Properties                                                              *)

(* A frame in which one symbol was changed on the air, be it a separator,  *)
(* the "*" or a digit of the checksum, is refused or says exactly what was *)
(* sent.                                                                   *)
CorruptionRefused ==
  noisy /\ heard.valid => heard = parse_message(Frame(sent))

(* What the other fields must be for a frame to be taken: nothing in them  *)
(* ends a field, the sender has a name, time and batch are numbers not 0.  *)
PlainEntry ==
  /\ \A text \in {Entry.from, Entry.checksum, Entry.chunk_id} : "|" \notin ToSet(text)
  /\ Entry.from # <<>>
  /\ \A text \in {Entry.timestamp, Entry.chunk_batch} : IsInt(text) /\ ToInt(text) # 0

(* What parse_message reads of a frame that is heard as it was sent is     *)
(* what was put in: the frame is taken, and sender, time, batch and the    *)
(* text, in one chunk, are those of the entry, also when the text contains *)
(* ":" or "*"; only a "|" in the text, a zero or an empty sender stand in  *)
(* the way.  The chunk id and the checksum of an entry are sent but never  *)
(* read: parse_message gives every text the id 1 and no checksum back.     *)
TextHeard ==
  /\ heard # Unheard /\ ~noisy
  /\ PlainEntry /\ "|" \notin ToSet(sent)
  => /\ heard.valid
     /\ heard.from = Entry.from
     /\ heard.timestamp = ToInt(Entry.timestamp)
     /\ heard.batch = ToInt(Entry.chunk_batch)
     /\ Len(heard.chunk) = 1 /\ heard.chunk[1].message = sent

(* Whatever the message contains, and be it the marker of a chunk, the     *)
(* frame is not refused, and no text is taken for a sender, batch or time  *)
(* unless the message spells out that field.                               *)
MetadataKept ==
  /\ heard # Unheard /\ ~noisy
  /\ PlainEntry /\ {"from", "chunk_batch", "timestamp"} \cap ToSet(sent) = {}
  => /\ heard.valid
     /\ heard.from = Entry.from
     /\ heard.timestamp = ToInt(Entry.timestamp) /\ heard.batch = ToInt(Entry.chunk_batch)
=============================================================================
