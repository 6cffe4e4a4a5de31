---------------------------- MODULE Entitlements ----------------------------
(***************************************************************************)
(* The entitlement row of a user, what a billing event makes of it         *)
(* (webhooks.py) and what it grants (entitlements/resolver.py, signal.py). *)
(***************************************************************************)
EXTENDS Domain, Integers

CONSTANTS
  EventIds,  \* RevenueCat's event ids
  Products   \* subscription products

Tiers == {"free", "pro"}
Statuses == {"active", "expired", "in_grace", "cancelled"}
Stores == {"app_store", "play_store", "stripe", "lemonsqueezy"}

(* `_EVENT_STATE`: the types that change the row, and what they put in it. *)
EventState ==
  [INITIAL_PURCHASE |-> [tier |-> "pro",  status |-> "active"],
   RENEWAL          |-> [tier |-> "pro",  status |-> "active"],
   PRODUCT_CHANGE   |-> [tier |-> "pro",  status |-> "active"],
   UNCANCELLATION   |-> [tier |-> "pro",  status |-> "active"],
   CANCELLATION     |-> [tier |-> "pro",  status |-> "cancelled"],
   BILLING_ISSUE    |-> [tier |-> "pro",  status |-> "in_grace"],
   EXPIRATION       |-> [tier |-> "free", status |-> "expired"]]

(* `_STORE_MAP`. *)
StoreMap == [APP_STORE |-> "app_store", MAC_APP_STORE |-> "app_store",
             PLAY_STORE |-> "play_store", STRIPE |-> "stripe"]

(* The raw names add to these a type and a store the code does not know,   *)
(* and a store in lower case.                                              *)
Types == DOMAIN EventState \cup {"TRANSFER"}
RawStores == DOMAIN StoreMap \cup {"AMAZON", "app_store"}
Upper(raw) == IF raw = "app_store" THEN "APP_STORE" ELSE raw

(* A billing event.  `user` is NULL when app_user_id is not one of our     *)
(* UUIDs; product, store and expiration are optional.                      *)
Event == [id : EventIds, type : Types, user : Users \cup {NULL}, ts : Nat,
          product : Products \cup {NULL}, store : RawStores \cup {NULL},
          expiration : Nat \cup {NULL}]

(* The column of the timestamp may hold NULL, but the only INSERT into the *)
(* table gives it a value.                                                 *)
Row == [tier : Tiers, status : Statuses, product : Products \cup {NULL},
        store : Stores \cup {NULL}, periodEnd : Nat \cup {NULL}, ts : Nat]

ASSUME EntitlementAssumption ==
  /\ NULL \notin Row /\ NULL \notin Users
  /\ NULL \notin RawStores \cup Nat

Handled(e) == e.type \in DOMAIN EventState

(* An unknown store counts as no store. *)
ResolveStore(raw) ==
  IF Upper(raw) \in DOMAIN StoreMap THEN StoreMap[Upper(raw)] ELSE NULL

(* The row an event proposes: the VALUES of the upsert. *)
Proposed(e) ==
  [tier |-> EventState[e.type].tier, status |-> EventState[e.type].status,
   product |-> e.product, store |-> ResolveStore(e.store),
   periodEnd |-> e.expiration, ts |-> e.ts]

(* Variant with a bug: a column the event does not carry is cleared. *)
Overwritten(old, e) == Proposed(e)

(* The upsert: the optional columns are overwritten only by a value.       *)
Merged(old, e) ==
  LET new == Proposed(e)
      keep(value, known) == IF value = NULL THEN known ELSE value
  IN  IF old = NULL THEN new
      ELSE [new EXCEPT !.product = keep(new.product, old.product),
                       !.store = keep(new.store, old.store),
                       !.periodEnd = keep(new.periodEnd, old.periodEnd)]

(* resolve_entitlement: whether a row grants the paid tier at a moment.    *)
IsPro(row, now) ==
  /\ row # NULL
  /\ row.tier = "pro"
  /\ row.status \in {"active", "in_grace", "cancelled"}
  /\ row.periodEnd = NULL \/ row.periodEnd > now

(* The signal a response carries: a free user who has used up the month.   *)
OverQuota(isPro, used, quota) == ~isPro /\ used >= quota
=============================================================================
