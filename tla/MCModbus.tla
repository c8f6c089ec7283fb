------------------------------ MODULE MCModbus ------------------------------
(***************************************************************************)
(* Modbus for TLC.  The bytes of a value differ from each other and from   *)
(* those of the other values.  Requests are cut within and after their     *)
(* header, after the function code, the address and half of a value.       *)
(***************************************************************************)
EXTENDS Modbus, TLC

CONSTANTS c1, c2

Read(a, n)  == [code |-> 3, address |-> a, count |-> n, values |-> << >>]
WriteSingle(a, v) == [code |-> 6, address |-> a, count |-> 1, values |-> <<v>>]
WriteMultiple(a, w) == [code |-> 16, address |-> a, count |-> Len(w), values |-> w]

MCOp == (c1 :> {Read(0, 2), WriteSingle(1, 258)})
     @@ (c2 :> {Read(2, 1), WriteMultiple(0, <<515, 1029>>)})

MCMaxCalls == (c1 :> 2) @@ (c2 :> 1)
MCValue32  == {<<1286, 1800>>}
MCCut      == {7, 11}
=============================================================================
