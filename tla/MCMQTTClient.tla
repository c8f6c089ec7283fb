---------------------------- MODULE MCMQTTClient ----------------------------
(***************************************************************************)
(* MQTTClient for TLC.                                                     *)
(***************************************************************************)
EXTENDS MQTTClient
=============================================================================
