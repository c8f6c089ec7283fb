------------------------------- MODULE Mailbox -------------------------------
(***************************************************************************)
(* What SharedMemoryConnection promises, without semaphores or steps: in   *)
(* each direction a slot for one message.  A message is put into an empty  *)
(* slot as a whole, and it leaves the slot once: either it is delivered,   *)
(* as it was put, or it is lost (the reader's buffer was too small for it, *)
(* or the reading process died).                                           *)
(***************************************************************************)
EXTENDS Sequences

CONSTANTS Direction, Message, NoMessage

VARIABLES slot,       \* slot[d]: the message in the slot, or NoMessage
          delivered   \* delivered[d]: the messages delivered so far

vars == <<slot, delivered>>

Init == /\ slot = [d \in Direction |-> NoMessage]
        /\ delivered = [d \in Direction |-> << >>]

Put(d, m) == /\ slot[d] = NoMessage
             /\ slot' = [slot EXCEPT ![d] = m]
             /\ UNCHANGED delivered

Get(d) == /\ slot[d] # NoMessage
          /\ slot' = [slot EXCEPT ![d] = NoMessage]
          /\ delivered' = [delivered EXCEPT ![d] = Append(@, slot[d])]

Lose(d) == /\ slot[d] # NoMessage
           /\ slot' = [slot EXCEPT ![d] = NoMessage]
           /\ UNCHANGED delivered

Next == \E d \in Direction : \/ \E m \in Message : Put(d, m)
                             \/ Get(d)
                             \/ Lose(d)

Spec == Init /\ [][Next]_vars
=============================================================================
