-------------------------- MODULE MCPushValidation --------------------------
(* Every batch of up to four records over two ids.  What the loop does     *)
(* depends on the kind and the id alone: the other fields are fixed.       *)
EXTENDS PushValidation

CONSTANTS phone, cash, i1, i2

MCRecords == [kind : {"ok", "malformed", "no_id"}, id : {i1, i2},
              device : {phone}, rev : {0}, inputs : {cash}, deleted : {FALSE}]

MCBatches == UNION {[1 .. n -> MCRecords] : n \in 0 .. 4}
=============================================================================
