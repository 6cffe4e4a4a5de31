----------------------------- MODULE MCWebhook -----------------------------
(***************************************************************************)
(* Small instances of Webhook: three events of one subscriber, the middle  *)
(* one without product and with a store we do not know, and one of a type  *)
(* that changes nothing.  The first names its store in lower case.  They   *)
(* may all arrive before the user exists.                                  *)
(***************************************************************************)
EXTENDS Webhook

CONSTANTS h1, h2, alice, e1, e2, e3, e4, monthly, yearly, usd

Purchase ==
  [id |-> e1, type |-> "INITIAL_PURCHASE", user |-> alice, ts |-> 1,
   product |-> monthly, store |-> "app_store", expiration |-> 5]
BillingIssue ==
  [id |-> e2, type |-> "BILLING_ISSUE", user |-> alice, ts |-> 2,
   product |-> NULL, store |-> "AMAZON", expiration |-> NULL]
Expiration ==
  [id |-> e3, type |-> "EXPIRATION", user |-> alice, ts |-> 2,
   product |-> yearly, store |-> NULL, expiration |-> 2]
Transfer ==
  [id |-> e4, type |-> "TRANSFER", user |-> alice, ts |-> 1,
   product |-> NULL, store |-> NULL, expiration |-> NULL]

SubscriberEvents == {Purchase, BillingIssue, Expiration, Transfer}
RacingEvents == {Purchase, BillingIssue, Transfer}
=============================================================================
