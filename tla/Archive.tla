------------------------------- MODULE Archive ------------------------------
(***************************************************************************)
(* The JSON files that are rewritten as a whole: read, add one entry, open *)
(* with "w", write.  MessageStream.save_message and save_message_async     *)
(* append to the archive of reassembled messages; Parser.save_chunk_data   *)
(* puts one chunk into the file of its message (keyed: an entry saved      *)
(* again replaces itself, a dictionary keeps the order of first insertion).*)
(*                                                                         *)
(* Opening with "w" empties the file; the text reaches it when it is       *)
(* closed, at offset 0.  Nothing ever deletes the file.  A save may be     *)
(* suspended at an await, or its thread preempted, between any two steps.  *)
(***************************************************************************)
EXTENDS Naturals, Sequences, FiniteSets, SequencesExt

CONSTANTS
  Saver,      \* tasks or threads that save
  Item,       \* entries; chunk ids if the file is keyed
  Text,       \* the chunk with that id as it is stored: a sequence of characters
  MaxCrashes  \* bound: how often the process dies

ASSUME ArchiveAssumption ==
  /\ Item \subseteq Nat \ {0}
  /\ \A e \in Item : Text[e] \in Seq(STRING)
  /\ MaxCrashes \in Nat

VARIABLES
  keyed,     \* which file: a dictionary by id, or a list; never changes
  kind,      \* what is at the path: "missing", "empty", "json" or "damaged"
  content,   \* the entries of the JSON text
  at,        \* where each saver is: "idle", "load", "open" or "write"
  entry,     \* the entry it saves
  messages,  \* what it read, its entry added
  tried,     \* entries whose save was called (history)
  saved,     \* entries whose save returned (history)
  alone,     \* savers that no other save has overlapped so far (history)
  kept,      \* entries saved without any overlap (history)
  crashes

fileVars == <<kind, content>>
history  == <<tried, saved, alone, kept>>
archiveVars == <<keyed, fileVars, at, entry, messages, history, crashes>>

Idle == at = [s \in Saver |-> "idle"]

(* The repository ships an archive with one JSON object per line, which    *)
(* json.load refuses; it is met when the process starts above backend/.    *)
ArchiveInit ==
  /\ keyed \in BOOLEAN
  /\ kind \in {"missing"} \cup IF keyed THEN {} ELSE {"damaged"}
  /\ content = <<>>
  /\ Idle
  /\ entry = [s \in Saver |-> 0]
  /\ messages = [s \in Saver |-> <<>>]
  /\ tried = {}
  /\ saved = {}
  /\ alone = {}
  /\ kept = {}
  /\ crashes = 0

Goto(s, from, to) == at[s] = from /\ at' = [at EXCEPT ![s] = to]

(* messages.append(new_entry), or data[str(chunk_id)] = message            *)
Added(list, e) == IF keyed /\ e \in ToSet(list) THEN list ELSE Append(list, e)

(* A save is called with a new message, or with a chunk, perhaps again.    *)
SaveStart(s, e) ==
  /\ keyed \/ e \notin tried
  /\ Goto(s, "idle", "load")
  /\ entry' = [entry EXCEPT ![s] = e]
  /\ tried' = tried \cup {e}
  /\ alone' = IF Idle THEN {s} ELSE {}
  /\ UNCHANGED <<keyed, fileVars, messages, saved, kept, crashes>>

(* load_messages: no file is an empty list.                                *)
SaveLoad(s) ==
  /\ kind \in {"missing", "json"}
  /\ Goto(s, "load", "open")
  /\ messages' = [messages EXCEPT ![s] = Added(content, entry[s])]
  /\ UNCHANGED <<keyed, fileVars, entry, history, crashes>>

(* Mutant: text that does not parse is an empty list, as in _load_json.    *)
SaveLoadLenient(s) ==
  /\ kind \in {"empty", "damaged"}
  /\ Goto(s, "load", "open")
  /\ messages' = [messages EXCEPT ![s] = <<entry[s]>>]
  /\ UNCHANGED <<keyed, fileVars, entry, history, crashes>>

(* json.load raises on an empty or damaged file: the save ends.            *)
SaveLoadRaises(s) ==
  /\ kind \in {"empty", "damaged"}
  /\ Goto(s, "load", "idle")
  /\ UNCHANGED <<keyed, fileVars, entry, messages, history, crashes>>

(* open(path, "w") *)
SaveOpen(s) ==
  /\ Goto(s, "open", "write")
  /\ kind' = "empty"
  /\ content' = <<>>
  /\ UNCHANGED <<keyed, entry, messages, history, crashes>>

(* json.dump and close, then return.  If another save wrote since the open *)
(* and its text was longer, the end of that text stays behind this one.    *)
SaveWrite(s) ==
  /\ Goto(s, "write", "idle")
  /\ \/ kind' = "json" /\ content' = messages[s]
     \/ kind # "empty" /\ kind' = "damaged" /\ content' = <<>>
  /\ saved' = saved \cup {entry[s]}
  /\ kept' = IF s \in alone THEN kept \cup {entry[s]} ELSE kept
  /\ UNCHANGED <<keyed, entry, messages, tried, alone, crashes>>

SaveStep(s) == \/ SaveLoad(s) \/ SaveLoadRaises(s) \/ SaveOpen(s) \/ SaveWrite(s)

(* The process dies and is started again; a write under way may leave part *)
(* of its text.                                                            *)
Crash ==
  /\ crashes < MaxCrashes
  /\ crashes' = crashes + 1
  /\ at' = [s \in Saver |-> "idle"]
  /\ entry' = [s \in Saver |-> 0]
  /\ messages' = [s \in Saver |-> <<>>]
  /\ \/ UNCHANGED fileVars
     \/ /\ \E s \in Saver : at[s] = "write"
        /\ kind' = "damaged"
        /\ content' = <<>>
  /\ UNCHANGED <<keyed, history>>

ArchiveNext ==
  \/ \E s \in Saver : (\E e \in Item : SaveStart(s, e)) \/ SaveStep(s)
  \/ Crash

ArchiveSpec == ArchiveInit /\ [][ArchiveNext]_archiveVars

-----------------------------------------------------------------------------
(* Python's sorted() of different keys, of which the pairs in before tell  *)
(* what comes before what                                                  *)
Sorted(S, before) ==
  CHOOSE text \in [1 .. Cardinality(S) -> S] :
    \A i, j \in 1 .. Cardinality(S) : i < j => <<text[i], text[j]>> \in before

(* "|c" in chunk *)
HasMarker(chunk) == \E i \in 1 .. Len(chunk) - 1 : chunk[i] = "|" /\ chunk[i + 1] = "c"

(* chunk.split("|", 1)[-1] *)
AfterBar(chunk) ==
  LET bar == CHOOSE i \in DOMAIN chunk :
               chunk[i] = "|" /\ \A j \in 1 .. i - 1 : chunk[j] # "|"
  IN  SubSeq(chunk, bar + 1, Len(chunk))

Stripped(chunk) == IF HasMarker(chunk) THEN AfterBar(chunk) ELSE chunk

Parts(ids) == [i \in DOMAIN ids |-> Stripped(Text[ids[i]])]

(* Mutant: the keys are sorted as strings, "10" before "2".                *)
reassemble_chunks_by_string ==
  LET S == ToSet(content)
      First(i) == IF i < 10 THEN i ELSE i \div 10
  IN  Parts(Sorted(S, {p \in S \X S :
                         \/ First(p[1]) < First(p[2])
                         \/ First(p[1]) = First(p[2]) /\ p[1] < p[2]}))

(* Parser.reassemble_chunks of a file that can be read: the parts that     *)
(* "".join puts together.  With no file there are none, as in the code,    *)
(* which returns ""; an empty or damaged file raises.                      *)
reassemble_chunks ==
  LET S == ToSet(content) IN Parts(Sorted(S, {p \in S \X S : p[1] < p[2]}))

(* An entry whose save no other save overlapped is never lost silently: as *)
(* long as the file can be read at all it holds that entry, whatever saves *)
(* race or die in the middle before or after.  A damaged archive is never  *)
(* taken for an empty one and written over.                                *)
NothingForgotten ==
  kind \in {"missing", "json"} => kept \subseteq ToSet(content)

(* Once every chunk was saved without an overlap, and as long as the file  *)
(* can be read, each is joined once and at its place among the ids, in     *)
(* whatever order and however often the chunks came: as it was stored if   *)
(* it has no "|c" in it, and less the first "|" if it has its marker in    *)
(* front, whose "c1|" stays.  (Of a text with "|c" further in,             *)
(* reassemble_chunks drops what precedes its first "|".)                   *)
ReassembledText ==
  keyed /\ kept = Item /\ kind = "json" =>
    LET place(e) == Cardinality({d \in Item : d <= e})
    IN  /\ Len(reassemble_chunks) = Cardinality(Item)
        /\ \A e \in Item :
             /\ ~HasMarker(Text[e]) => reassemble_chunks[place(e)] = Text[e]
             /\ HasMarker(Text[e]) /\ Head(Text[e]) = "|"
                  => reassemble_chunks[place(e)] = Tail(Text[e])

(* "Saves a fully reassembled message": when no save is under way, every   *)
(* message whose save returned is in the archive.                          *)
SavedIsStored == Idle => saved \subseteq ToSet(content)
=============================================================================
