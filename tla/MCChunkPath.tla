----------------------------- MODULE MCChunkPath ----------------------------
(* TLC instance of the path of a chunk: cut and framed (Framing), buffered *)
(* where it arrives (Reassembly), stored and joined (Archive).  No code of *)
(* the repository connects the three and they share no state, so it is     *)
(* enough that one of them moves in a behaviour while the others rest.     *)
EXTENDS MCChunking, MCReassembly, MCArchive

VARIABLE moving  \* "frames", "buffers" or "files"

Resting(part) == moving # part

MCInit ==
  /\ moving \in {"frames", "buffers", "files"}
  /\ FramingInit /\ BuffersInit /\ ArchiveInit
  /\ Resting("frames") => message = <<>> /\ max_size = 4
  /\ Resting("files") => keyed /\ kind = "missing"

MCNext ==
  /\ UNCHANGED moving
  /\ \/ moving = "frames"  /\ FramingNext /\ UNCHANGED <<bufferVars, archiveVars>>
     \/ moving = "buffers" /\ BuffersNext /\ UNCHANGED <<framingVars, archiveVars>>
     \/ moving = "files"   /\ ArchiveNext /\ UNCHANGED <<framingVars, bufferVars>>

MCSpec == MCInit /\ [][MCNext]_<<moving, framingVars, bufferVars, archiveVars>>

Symmetry == SenderSymmetry \cup SaverSymmetry
=============================================================================
