----------------------------- MODULE MCBackend ------------------------------
(* TLC instances of Backend.                                               *)
EXTENDS Backend

(* to_send.json does not exist: _load_json returns an empty dictionary.    *)
NoFile == <<>>
=============================================================================
