------------------------------ MODULE Expenses ------------------------------
(***************************************************************************)
(* The data of the service: users, their devices, and the rows of the      *)
(* `expenses` table as far as synchronisation tells them apart.            *)
(*                                                                         *)
(* Amount, currency and date are abstracted to one opaque value, `inputs`: *)
(* the three columns the amount in the base currency is computed from.     *)
(* `base` is NULL or records WHAT was converted, the inputs that were read *)
(* and the target currency, so that an amount that is out of date shows.   *)
(***************************************************************************)
EXTENDS Integers

CONSTANTS
  Users,
  Devices,
  Ids,         \* expense ids, generated by the clients
  Inputs,      \* values of (amount_original, currency_original, spent_at)
  Currencies,  \* base currencies a user can have
  NULL         \* SQL NULL: no row, no lock holder, no amount_base

Base == [inputs : Inputs, ccy : Currencies]

Row == [user    : Users,
        device  : Devices,
        rev     : Nat,               \* client_rev
        inputs  : Inputs,
        deleted : BOOLEAN,           \* deleted_at IS NOT NULL
        base    : Base \cup {NULL},  \* amount_base, currency_base
        created : Nat,               \* created_at, in units of the sequence
        seq     : Nat]               \* server_seq

(* NULL is a value of its own. *)
ASSUME NullAssumption == NULL \notin Row \cup Base \cup Nat
=============================================================================
