------------------------------ MODULE MCBroker ------------------------------
(***************************************************************************)
(* MQTTBroker for TLC.  Clients are interchangeable, and so are topics.    *)
(***************************************************************************)
EXTENDS MQTTBroker, TLC

Symmetry == Permutations(Client) \cup Permutations(Topic)
=============================================================================
