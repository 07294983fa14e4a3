------------------------------ MODULE MCArchive -----------------------------
(* TLC instances of Archive.  Chunk 9 has its marker in front, as          *)
(* split_into_chunks writes it; the text of chunk 10 has a "|c" in it.     *)
EXTENDS Archive, TLC

MCText ==
  [e \in Item |-> CASE e = 9  -> <<"|", "c", "9", "|", "x", "|", "y">>
                    [] e = 10 -> <<"a", "|", "c">>
                    [] OTHER  -> <<"b", "|">>]

SaverSymmetry == Permutations(Saver)
=============================================================================
