----------------------------- MODULE MCWebSocket -----------------------------
(***************************************************************************)
(* WebSocketConnection for TLC, against a peer that sends whole and        *)
(* fragmented messages, control frames and frames masked against the       *)
(* rules.  PONG stands for all the frames that are ignored.                *)
(***************************************************************************)
EXTENDS WebSocketConnection, TLC

Whole(op) == [op |-> op, fin |-> TRUE, maskOk |-> TRUE]
Part(op)  == [Whole(op) EXCEPT !.fin = FALSE]

Frames == {Whole("data"), Part("data"), Whole("cont"), Part("cont"), Whole("close"),
           Whole("ping"), Whole("pong"), [Whole("data") EXCEPT !.maskOk = FALSE]}
=============================================================================
