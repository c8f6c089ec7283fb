----------------------------- MODULE MCWsWrapper -----------------------------
(***************************************************************************)
(* WsWrapper for TLC.                                                      *)
(***************************************************************************)
EXTENDS WsWrapper
=============================================================================
