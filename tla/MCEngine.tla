------------------------------ MODULE MCEngine ------------------------------
(* TLC instances of LoRaEngine.                                            *)
EXTENDS LoRaEngine
=============================================================================
