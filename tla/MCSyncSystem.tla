---------------------------- MODULE MCSyncSystem ----------------------------
(***************************************************************************)
(* Small instances of SyncSystem: one user with two devices, two expenses, *)
(* a worker.  Where a run needs no base currency change, no second writer  *)
(* or no second row, its configuration leaves it out.                      *)
(***************************************************************************)
EXTENDS SyncSystem, TLC

CONSTANTS h1, h2, w1, r1, alice, phone, tablet, i1, i2, cash, card, usd, eur

MCDeviceOwner == (phone :> alice) @@ (tablet :> alice)
MCClientUser == [c \in Clients |-> alice]

Rec(id, device, rev, inputs) ==
  [kind |-> "ok", id |-> id, device |-> device, rev |-> rev,
   inputs |-> inputs, deleted |-> FALSE]

LogBoth == <<Rec(i1, phone, 0, cash), Rec(i2, phone, 0, card)>>
LogOne  == <<Rec(i1, phone, 0, cash)>>
LogTwo  == <<Rec(i2, tablet, 0, card)>>
Edit    == <<Rec(i1, tablet, 1, card)>>
Remove  == <<[Rec(i1, phone, 2, cash) EXCEPT !.deleted = TRUE]>>

SharedBatches == {LogBoth, Edit}
EditBatches   == {LogOne, Edit}
WriterBatches == {LogOne, Edit, Remove}
SingleBatches == {LogOne, LogTwo}
=============================================================================
