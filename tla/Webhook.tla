------------------------------- MODULE Webhook -------------------------------
(***************************************************************************)
(* POST /api/v1/webhooks/revenuecat: concurrent executions of              *)
(* `revenuecat_webhook`, each of them one READ COMMITTED transaction over  *)
(* processed_webhook_events, users and entitlements.                       *)
(*                                                                         *)
(* RevenueCat sends an event again until it has received a 200: after an   *)
(* error, after a response that was lost, or because it has waited too     *)
(* long, while the first delivery is still open.  The order is its own.    *)
(***************************************************************************)
EXTENDS Entitlements, FiniteSets

CONSTANTS
  Handlers,   \* concurrent executions of revenuecat_webhook
  Events,     \* the events RevenueCat has to report
  MaxCutOffs  \* bounds the number of crashes and lost connections

(* What a handler may make of an event, as its metric and response say. *)
Outcomes == {"duplicate", "unmatched", "stale", "unhandled", "applied"}

ASSUME WebhookAssumption ==
  /\ Events \subseteq Event
  /\ \A e, f \in Events : e.id = f.id => e = f
  /\ NULL \notin Events
  /\ NULL \notin Outcomes
  /\ MaxCutOffs \in Nat

VARIABLES
  pc,         \* what each handler does next
  event,      \* the event it handles, NULL if idle
  outcome,    \* what it will have made of the event once it has committed
  proposed,   \* its uncommitted entitlement row, NULL if there is none
  users,      \* committed users
  processed,  \* ids committed to processed_webhook_events
  ent,        \* committed entitlements
  secret,     \* whether REVENUECAT_WEBHOOK_AUTH is configured
  cutOffs,    \* crashes so far
  acked,      \* events RevenueCat has received a 200 for
  applied,    \* history: the events whose transition was committed
  early,      \* history: the events a handler found no user for
  raced       \* history: users of whom two transitions overlapped

handlerVars == <<pc, event, outcome, proposed>>
storeVars == <<users, processed, ent>>
historyVars == <<applied, early, raced>>
vars == <<handlerVars, storeVars, historyVars, secret, cutOffs, acked>>

TypeOK ==
  /\ pc \in [Handlers -> {"idle", "insert", "user", "compare", "upsert",
                          "commit", "respond", "unauthorized"}]
  /\ event \in [Handlers -> Events \cup {NULL}]
  /\ outcome \in [Handlers -> Outcomes \cup {NULL}]
  /\ proposed \in [Handlers -> Row \cup {NULL}]
  /\ \A h \in Handlers :
       /\ pc[h] = "idle" <=> event[h] = NULL
       /\ pc[h] \in {"commit", "respond"} <=> outcome[h] # NULL
       /\ proposed[h] # NULL => pc[h] = "commit" /\ outcome[h] = "applied"
  /\ users \subseteq Users
  /\ processed \subseteq EventIds
  /\ ent \in [Users -> Row \cup {NULL}]
  /\ secret \in BOOLEAN
  /\ cutOffs \in 0 .. MaxCutOffs
  /\ acked \subseteq Events
  /\ applied \subseteq Events
  /\ early \subseteq Events
  /\ raced \subseteq Users

Init ==
  /\ pc = [h \in Handlers |-> "idle"]
  /\ event = [h \in Handlers |-> NULL]
  /\ outcome = [h \in Handlers |-> NULL]
  /\ proposed = [h \in Handlers |-> NULL]
  /\ users \in SUBSET Users
  /\ processed = {}
  /\ ent = [u \in Users |-> NULL]
  /\ secret \in BOOLEAN
  /\ cutOffs = 0
  /\ acked = {}
  /\ applied = {}
  /\ early = {}
  /\ raced = {}

Goto(h, from, to) == pc[h] = from /\ pc' = [pc EXCEPT ![h] = to]

(* A decision that ends in COMMIT: what the response will say. *)
Decide(h, from, result) ==
  /\ Goto(h, from, "commit")
  /\ outcome' = [outcome EXCEPT ![h] = result]

(***************************************************************************)
(* The environment: registrations (deps.py), the operator who configures   *)
(* the shared secret, and RevenueCat.                                      *)
(***************************************************************************)
Register(u) ==
  /\ u \notin users
  /\ users' = users \cup {u}
  /\ UNCHANGED <<handlerVars, processed, ent, historyVars, secret, cutOffs,
                 acked>>

ConfigureSecret ==
  /\ ~secret
  /\ secret' = TRUE
  /\ UNCHANGED <<handlerVars, storeVars, historyVars, cutOffs, acked>>

(* A delivery, first or again.  Without a secret the endpoint is closed.   *)
Deliver(h, e) ==
  /\ e \in Events \ acked
  /\ Goto(h, "idle", IF secret THEN "insert" ELSE "unauthorized")
  /\ event' = [event EXCEPT ![h] = e]
  /\ UNCHANGED <<outcome, proposed, storeVars, historyVars, secret, cutOffs,
                 acked>>

-----------------------------------------------------------------------------
(* The handler. *)

(* Between its INSERT of the event and its COMMIT a handler holds the id.  *)
Holds(h, e) ==
  /\ event[h] = e
  /\ \/ pc[h] \in {"user", "compare", "upsert"}
     \/ pc[h] = "commit" /\ outcome[h] # "duplicate"

(* Variant with a bug: the id is looked up, and nothing holds it. *)
LookUpEvent(h) ==
  /\ pc[h] = "insert"
  /\ IF event[h].id \in processed
     THEN Decide(h, "insert", "duplicate")
     ELSE Goto(h, "insert", "user") /\ UNCHANGED outcome
  /\ UNCHANGED <<event, proposed, storeVars, historyVars, secret, cutOffs,
                 acked>>

(* INSERT ... ON CONFLICT DO NOTHING waits while another transaction has   *)
(* inserted the id and not ended, and inserts nothing if that committed.   *)
RecordEvent(h) ==
  /\ pc[h] = "insert"
  /\ \A g \in Handlers \ {h} : ~Holds(g, event[h])
  /\ IF event[h].id \in processed
     THEN Decide(h, "insert", "duplicate")
     ELSE Goto(h, "insert", "user") /\ UNCHANGED outcome
  /\ UNCHANGED <<event, proposed, storeVars, historyVars, secret, cutOffs,
                 acked>>

(* The user of the event, if it has one and the SELECT finds it. *)
FindUser(h) ==
  /\ pc[h] = "user"
  /\ IF event[h].user \in users
     THEN Goto(h, "user", "compare") /\ UNCHANGED <<outcome, early>>
     ELSE Decide(h, "user", "unmatched") /\ early' = early \cup {event[h]}
  /\ UNCHANGED <<event, proposed, storeVars, applied, raced, secret, cutOffs,
                 acked>>

(* Variant with a bug: an event as old as the last one is stale, too. *)
StaleOrEqual(e, row) ==
  row # NULL /\ row.ts # NULL /\ e.ts <= row.ts

(* Older than the last event that changed the row; an equal one is not.    *)
Stale(e, row) == row # NULL /\ row.ts # NULL /\ e.ts < row.ts

(* Variant with a bug: a type without a transition is an error. *)
CompareKnownTypes(h) ==
  LET e == event[h]
  IN  /\ pc[h] = "compare"
      /\ IF Stale(e, ent[e.user]) THEN Decide(h, "compare", "stale")
         ELSE Goto(h, "compare", IF Handled(e) THEN "upsert" ELSE "unauthorized")
              /\ UNCHANGED outcome
      /\ UNCHANGED <<event, proposed, storeVars, historyVars, secret, cutOffs,
                     acked>>

(* The entitlement is read without a lock and compared; a type without a   *)
(* transition ends here too.                                               *)
CompareWatermark(h) ==
  LET e == event[h]
  IN  /\ pc[h] = "compare"
      /\ IF Stale(e, ent[e.user]) THEN Decide(h, "compare", "stale")
         ELSE IF ~Handled(e) THEN Decide(h, "compare", "unhandled")
         ELSE Goto(h, "compare", "upsert") /\ UNCHANGED outcome
      /\ UNCHANGED <<event, proposed, storeVars, historyVars, secret, cutOffs,
                     acked>>

(* The upsert waits for the row's lock and then works on the newest        *)
(* committed row, without comparing it again.                              *)
ApplyTransition(h) ==
  LET e == event[h]
  IN  /\ Decide(h, "upsert", "applied")
      /\ \A g \in Handlers \ {h} : proposed[g] # NULL => event[g].user # e.user
      /\ proposed' = [proposed EXCEPT ![h] = Merged(ent[e.user], e)]
      /\ UNCHANGED <<event, storeVars, historyVars, secret, cutOffs, acked>>

(* Another transition of the same user is between its SELECT and COMMIT.   *)
Overlapped(h) ==
  \E g \in Handlers \ {h} : /\ event[g] # NULL
                            /\ event[g].user = event[h].user
                            /\ pc[g] = "upsert" \/ proposed[g] # NULL

(* Event and entitlement become visible together. *)
Commit(h) ==
  LET e == event[h]
  IN  /\ Goto(h, "commit", "respond")
      /\ processed' = processed \cup {e.id}
      /\ IF outcome[h] = "applied"
         THEN /\ ent' = [ent EXCEPT ![e.user] = proposed[h]]
              /\ applied' = applied \cup {e}
              /\ raced' = raced \cup (IF Overlapped(h) THEN {e.user} ELSE {})
         ELSE UNCHANGED <<ent, applied, raced>>
      /\ proposed' = [proposed EXCEPT ![h] = NULL]
      /\ UNCHANGED <<event, outcome, users, early, secret, cutOffs, acked>>

(* Variant with a bug: the outcome outlives the request. *)
EndRequestKeepingOutcome(h) ==
  /\ pc' = [pc EXCEPT ![h] = "idle"]
  /\ event' = [event EXCEPT ![h] = NULL]
  /\ proposed' = [proposed EXCEPT ![h] = NULL]
  /\ UNCHANGED <<outcome, storeVars, historyVars, secret>>

EndRequest(h) ==
  /\ pc' = [pc EXCEPT ![h] = "idle"]
  /\ event' = [event EXCEPT ![h] = NULL]
  /\ outcome' = [outcome EXCEPT ![h] = NULL]
  /\ proposed' = [proposed EXCEPT ![h] = NULL]
  /\ UNCHANGED <<storeVars, historyVars, secret>>

(* 200 whatever the outcome was. *)
Respond(h) ==
  /\ pc[h] = "respond"
  /\ acked' = acked \cup {event[h]}
  /\ EndRequest(h)
  /\ UNCHANGED cutOffs

(* 401. *)
Refuse(h) ==
  /\ pc[h] = "unauthorized"
  /\ EndRequest(h)
  /\ UNCHANGED <<acked, cutOffs>>

(* A crash or a lost connection: the open transaction rolls back; after    *)
(* the commit it is the response that is lost.                             *)
Abort(h) ==
  /\ pc[h] \notin {"idle", "unauthorized"}
  /\ cutOffs < MaxCutOffs
  /\ cutOffs' = cutOffs + 1
  /\ EndRequest(h)
  /\ UNCHANGED acked

Step(h) ==
  \/ RecordEvent(h)
  \/ FindUser(h)
  \/ CompareWatermark(h)
  \/ ApplyTransition(h)
  \/ Commit(h)
  \/ Respond(h)
  \/ Refuse(h)

(* RevenueCat has its answers: the model, not the service, ends here. *)
Settled == acked = Events /\ pc = [h \in Handlers |-> "idle"] /\ UNCHANGED vars

Next ==
  \/ \E u \in Users : Register(u)
  \/ ConfigureSecret
  \/ \E h \in Handlers : \/ \E e \in Events : Deliver(h, e)
                         \/ Step(h)
                         \/ Abort(h)
  \/ Settled

Spec == Init /\ [][Next]_vars

(* The event loop runs every handler, PostgreSQL grants free locks, and    *)
(* RevenueCat goes on delivering what it has no 200 for.  Registrations,   *)
(* the secret and crashes are not fair.                                    *)
Fairness ==
  /\ \A h \in Handlers : WF_vars(Step(h))
  /\ \A e \in Events : WF_vars(\E h \in Handlers : Deliver(h, e))

FairSpec == Spec /\ Fairness

-----------------------------------------------------------------------------
(* Properties. *)

(* However often and however concurrently an event is delivered, it is     *)
(* recorded once, and in the same step it is applied once or skipped for a *)
(* reason that holds.                                                      *)
Ledger == INSTANCE BillingLedger WITH recorded <- processed

ImplementsBillingLedger == Ledger!Spec

(* Unless two transitions of a user overlapped, the row shows the newest   *)
(* event recorded for the user, and in each optional column the value of   *)
(* the newest applied event that carried one.                              *)
Newest(S) == {e \in S : \A f \in S : f.ts <= e.ts}

LatestKnown(value, carried, Value(_)) ==
  IF carried = {} THEN value = NULL
  ELSE \E e \in Newest(carried) : value = Value(e)

ShowsNewest(row, A) ==
  /\ A = {} <=> row = NULL
  /\ row # NULL =>
       /\ \E e \in Newest(A) : row.ts = e.ts /\ row.tier = Proposed(e).tier
                                             /\ row.status = Proposed(e).status
       /\ LatestKnown(row.product, {e \in A : e.product # NULL},
                      LAMBDA e : e.product)
       /\ LatestKnown(row.store, {e \in A : ResolveStore(e.store) # NULL},
                      LAMBDA e : ResolveStore(e.store))
       /\ LatestKnown(row.periodEnd, {e \in A : e.expiration # NULL},
                      LAMBDA e : e.expiration)

NewestInForceUnlessRaced ==
  \A u \in Users \ raced :
    /\ ShowsNewest(ent[u], {e \in applied : e.user = u})
    /\ \A e \in Events \ early :
         e.id \in processed /\ e.user = u /\ Handled(e) => e.ts <= ent[u].ts

(* A 200 can be relied on: RevenueCat will not deliver the event again, so *)
(* it must be in the table, and must have changed the row unless it had no *)
(* user, had no transition, or a newer event has changed the row.          *)
AcknowledgedIsSettled ==
  \A e \in acked :
    /\ e.id \in processed
    /\ \/ e \in applied
       \/ e \in early
       \/ ~Handled(e)
       \/ \E f \in applied : f.user = e.user /\ f.ts > e.ts

(* Once the secret is configured, every event is recorded, whatever is     *)
(* delivered twice, out of order or cut off.                               *)
EveryEventSettled ==
  \A e \in Events : secret ~> e.id \in processed

-----------------------------------------------------------------------------
(* What the documentation claims and the code does not do. *)

(* "we only ever apply a state change from an event newer than the last    *)
(* one that actually changed the row" (migration of 2026-09-14): the       *)
(* watermark never goes back.                                              *)
WatermarkNeverRetreats ==
  [][\A u \in Users : ent[u] # NULL => /\ ent'[u] # NULL
                                       /\ ent'[u].ts >= ent[u].ts]_ent
=============================================================================
