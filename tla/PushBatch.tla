----------------------------- MODULE PushBatch -----------------------------
(***************************************************************************)
(* The records of a push batch and what the validation loop of `push_sync` *)
(* makes of them, stated without the loop: which positions of the batch    *)
(* are parsed, and which ids are rejected before the database is read.     *)
(* PushValidation models the loop itself and shows that the two agree.     *)
(*                                                                         *)
(* A raw record is abstracted to what the handler does with it:            *)
(*   "ok"         it validates and the table can hold it                   *)
(*   "unstorable" it validates, but PostgreSQL refuses it (amount_original *)
(*                beyond NUMERIC(18,4), client_rev beyond BIGINT: the      *)
(*                schema bounds neither)                                   *)
(*   "malformed"  it does not validate, and its id is a UUID               *)
(*   "no_id"      it does not validate, and it has no usable id            *)
(***************************************************************************)
EXTENDS Expenses, Sequences

Kinds == {"ok", "unstorable", "malformed", "no_id"}

RawRecord == [kind    : Kinds,
              id      : Ids,
              device  : Devices,
              rev     : Nat,
              inputs  : Inputs,
              deleted : BOOLEAN]

WellFormed(r) == r.kind \in {"ok", "unstorable"}
Identified(r) == r.kind # "no_id"

(* Position k is the first of batch b to name its id. *)
FirstOfItsId(b, k) ==
  /\ Identified(b[k])
  /\ \A j \in 1 .. k - 1 : Identified(b[j]) => b[j].id # b[k].id

(* The positions kept in `parsed`. *)
Parsed(b) == {k \in DOMAIN b : WellFormed(b[k]) /\ FirstOfItsId(b, k)}

(* The ids in `rejects` after the loop.  A well-formed record whose id was *)
(* seen before rejects that id; a malformed one that repeats an id does    *)
(* not.                                                                    *)
RejectedOnSight(b) ==
  {b[k].id : k \in {n \in DOMAIN b : IF FirstOfItsId(b, n)
                                     THEN ~WellFormed(b[n])
                                     ELSE WellFormed(b[n])}}

(* The ids that get a result: every usable id of the batch. *)
Reported(b) == {b[k].id : k \in {n \in DOMAIN b : Identified(b[n])}}
=============================================================================
