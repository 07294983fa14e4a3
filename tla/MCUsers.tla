------------------------------- MODULE MCUsers ------------------------------
(* Two clients and two names; one account exists at the start.             *)
EXTENDS Users
CONSTANTS ann, bob, p1, p2
MCAccounts ==
  { <<[username |-> ann, passphrase |-> p1, status |-> "active", stamp |-> None]>> }
=============================================================================
