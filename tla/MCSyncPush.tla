----------------------------- MODULE MCSyncPush -----------------------------
(***************************************************************************)
(* Small instances of SyncPush.  Two users, two expenses; the batches are  *)
(* chosen so that concurrent requests meet on the same rows, in the same   *)
(* and in opposite orders, with lower, equal and higher revisions.         *)
(***************************************************************************)
EXTENDS SyncPush, TLC

CONSTANTS h1, h2, alice, bob, phone, tablet, bobPhone, stray, i1, i2, cash, card

MCDeviceOwner ==
  (phone :> alice) @@ (tablet :> alice) @@ (bobPhone :> bob) @@ (stray :> NULL)

Rec(id, device, rev, inputs) ==
  [kind |-> "ok", id |-> id, device |-> device, rev |-> rev,
   inputs |-> inputs, deleted |-> FALSE]

Bad(r, kind) == [r EXCEPT !.kind = kind]

(* Two devices edit the same two expenses and list them in opposite order; *)
(* one deletes, repeats an id, and comes late for the other.               *)
FirstLog  == <<Rec(i1, phone, 0, cash), Rec(i2, phone, 0, cash)>>
CrossEdit == <<[Rec(i2, tablet, 1, card) EXCEPT !.deleted = TRUE],
               Rec(i1, tablet, 0, card), Rec(i2, tablet, 3, cash)>>

(* Another user, with an id that may be taken, and nobody's device. *)
BobLog == <<Rec(i2, bobPhone, 1, cash), Rec(i1, stray, 3, cash)>>

(* A record the table cannot hold, in front of one it can and beside some  *)
(* that are malformed.                                                     *)
Poisoned == <<Bad(Rec(i1, phone, 0, cash), "unstorable"), Rec(i2, phone, 0, cash),
              Bad(Rec(i2, phone, 0, cash), "malformed"),
              Bad(Rec(i1, phone, 0, cash), "no_id")>>

ContentionBatches == {FirstLog, CrossEdit, BobLog, Poisoned}
PoisonBatches == {Poisoned, FirstLog}
OwnerBatches == {FirstLog, BobLog}
=============================================================================
