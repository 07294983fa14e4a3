----------------------------- MODULE MCWebClient ----------------------------
(* TLC instances of WebClient.                                             *)
EXTENDS WebClient
=============================================================================
