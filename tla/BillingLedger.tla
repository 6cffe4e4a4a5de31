---------------------------- MODULE BillingLedger ----------------------------
(***************************************************************************)
(* What the RevenueCat webhook promises: a ledger in which every event is  *)
(* recorded once, in one step with its effect.  The effect of an event is  *)
(* to be merged into its user's row, or nothing: because its type changes  *)
(* nothing, because a newer event has been applied, or because nobody of   *)
(* that name was known when the event was looked at.                       *)
(***************************************************************************)
EXTENDS Entitlements

CONSTANT Events

VARIABLES
  users,     \* registered users
  recorded,  \* ids of the events in the ledger
  applied,   \* the events that changed a row
  early,     \* events that found no user
  ent        \* entitlement row of each user, NULL if there is none

ledger == <<users, recorded, applied, early, ent>>

Init ==
  /\ users \subseteq Users
  /\ recorded = {}
  /\ applied = {}
  /\ early = {}
  /\ ent = [u \in Users |-> NULL]

Register(u) ==
  /\ users' = users \cup {u}
  /\ UNCHANGED <<recorded, applied, early, ent>>

LookInVain(e) ==
  /\ e.user \notin users
  /\ early' = early \cup {e}
  /\ UNCHANGED <<users, recorded, applied, ent>>

Overtaken(e) == \E f \in applied : f.user = e.user /\ f.ts > e.ts

Record(e) ==
  /\ e.id \notin recorded
  /\ recorded' = recorded \cup {e.id}
  /\ UNCHANGED <<users, early>>

Apply(e) ==
  /\ Record(e)
  /\ e.user \in users
  /\ Handled(e)
  /\ applied' = applied \cup {e}
  /\ ent' = [ent EXCEPT ![e.user] = Merged(@, e)]

Skip(e) ==
  /\ Record(e)
  /\ e \in early \/ Overtaken(e) \/ ~Handled(e)
  /\ UNCHANGED <<applied, ent>>

Next ==
  \/ \E u \in Users : Register(u)
  \/ \E e \in Events : LookInVain(e) \/ Apply(e) \/ Skip(e)

Spec == Init /\ [][Next]_ledger
=============================================================================
