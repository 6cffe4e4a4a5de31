--------------------------- MODULE MCParseService ---------------------------
(***************************************************************************)
(* Small instances of ParseService: two handlers, two identities, a        *)
(* minute of two ticks, a day of four, a month of two days.  Each scenario *)
(* makes one part of the pipeline busy.                                    *)
(***************************************************************************)
EXTENDS ParseService, TLC

CONSTANTS h1, h2, w1, w2, ann, bob, mail, phone, EUR, GBP, USDT, plan,
          e1, e2

MCDeviceOwner == phone :> ann
MCUsers == 1 .. 2
MCScopes == MCUsers \cup {phone}

Ask(identity, kind) ==
  [identity |-> identity, email |-> NULL, device |-> NULL, kind |-> kind,
   token |-> TRUE, fits |-> TRUE, reference |-> NULL]
ByPhone(r) == [r EXCEPT !.device = phone]
WithMail(r) == [r EXCEPT !.email = mail]
At(r, day) == [r EXCEPT !.reference = day]

Ann(base) == [user |-> 1, identity |-> ann, email |-> mail, base |-> base]

Found(amount, currency, day, confidence) ==
  [amount |-> amount, currency |-> currency, day |-> day,
   confidence |-> confidence]

(* Nothing happens but what a scenario adds. *)
Nothing == [k \in Kinds |-> 0]
Quiet ==
  [start |-> 0, left |-> Nothing, counters |-> NoCounters,
   accounts |-> {Ann(EUR)}, used |-> 0, rates |-> Empty, failOpen |-> TRUE,
   pool |-> 2, requests |-> {ByPhone(Ask(ann, "parse"))}, answers |-> {},
   events |-> {}, payloads |-> {}]

(* Four requests of one device around the end of its minute. *)
Burst ==
  [Quiet EXCEPT !.left = [Nothing EXCEPT !["request"] = 4, !["tick"] = 3],
                !.used = Quota]

(* Two more of a scope that has nearly used up its day. *)
LongDay ==
  [Quiet EXCEPT !.left = [Nothing EXCEPT !["request"] = 3, !["tick"] = 3],
                !.start = 1, !.used = Quota,
                !.counters = [NoCounters EXCEPT ![1]["day"] =
                   [count |-> DayLimit - 1, started |-> 0, expires |-> 4]],
                !.requests = {Ask(ann, "parse"),
                              [Ask(ann, "parse") EXCEPT !.fits = FALSE]}]

(* Redis fails, before or after it has counted. *)
RedisDown ==
  [Quiet EXCEPT !.left = [Nothing EXCEPT !["request"] = 3, !["redis"] = 1,
                                         !["tick"] = 1],
                !.used = Quota, !.failOpen = FALSE,
                !.requests = {ByPhone(Ask(ann, "parse")),
                              ByPhone(Ask(bob, "parse"))},
                !.accounts = {Ann(EUR), [Ann(EUR) EXCEPT !.user = 2,
                                         !.identity = bob, !.email = NULL]}]
RedisDownOpen == [RedisDown EXCEPT !.failOpen = TRUE]

(* Nobody is known yet; two identities share an email. *)
FirstSight ==
  [Quiet EXCEPT !.left = [Nothing EXCEPT !["request"] = 3, !["crash"] = 1,
                                         !["keys"] = 1, !["database"] = 1],
                !.accounts = {},
                !.requests = {Ask(ann, "parse"), WithMail(Ask(ann, "parse")),
                              WithMail(Ask(bob, "parse")),
                              [Ask(ann, "parse") EXCEPT !.token = FALSE]}]
OneConnection ==
  [FirstSight EXCEPT !.pool = 1, !.left = [Nothing EXCEPT !["request"] = 3]]

(* A subscription begins and ends, and the quota fills up, under two       *)
(* requests; or the month ends, and a subscription with it.                *)
Purchase ==
  [id |-> e1, type |-> "INITIAL_PURCHASE", user |-> 1, ts |-> 1,
   product |-> plan, store |-> "APP_STORE", expiration |-> 8]
Expiration ==
  [id |-> e2, type |-> "EXPIRATION", user |-> 1, ts |-> 2, product |-> NULL,
   store |-> NULL, expiration |-> NULL]
Subscription ==
  [Quiet EXCEPT !.left = [Nothing EXCEPT !["request"] = 2, !["billing"] = 2,
                                         !["push"] = 1],
                !.used = Quota - 1,
                !.events = {Purchase, Expiration},
                !.requests = {Ask(ann, "parse"), Ask(ann, "transcribe")}]
MonthEnd ==
  [Quiet EXCEPT !.left = [Nothing EXCEPT !["request"] = 2, !["tick"] = 1,
                                         !["billing"] = 1, !["push"] = 1],
                !.start = 7, !.used = Quota - 1, !.events = {Purchase},
                !.requests = {Ask(ann, "parse")}]

(* Rates arrive while amounts are converted. *)
InEuro(dollar, pound) == [base |-> EUR, values |-> (USD :> dollar) @@ (EUR :> One)
                                                    @@ (GBP :> pound)]
Quotations ==
  {InEuro(3, 1), InEuro(8, NULL), InEuro(40, -1), InEuro(NULL, 3),
   [base |-> USD, values |-> (EUR :> 3) @@ (GBP :> 100)],
   [base |-> EUR, values |-> (EUR :> One) @@ (GBP :> 1)],
   [base |-> EUR, values |-> (USD :> 3) @@ (USDT :> 3)]}

MCPayloads == Quotations \cup {InEuro(40, 1), InEuro(40, 3)}

SomeRates ==
  [Empty EXCEPT ![GBP] = [@ EXCEPT ![0] = 3], ![EUR] = [@ EXCEPT ![0] = 5]]

Conversion ==
  [Quiet EXCEPT !.left = [Nothing EXCEPT !["request"] = 1, !["tick"] = 1,
                                         !["fx"] = 1],
                !.start = 3, !.rates = SomeRates,
                !.answers = {Found(2, GBP, NULL, 95), Found(2, GBP, 0, 60),
                             Found(1000, USD, 1, 95)},
                !.payloads = {InEuro(3, 1), InEuro(40, 1)}]

(* All that a model may answer, and a database that fails. *)
Answers ==
  [Quiet EXCEPT !.left = [Nothing EXCEPT !["request"] = 2, !["crash"] = 1,
                                         !["database"] = 1],
                !.rates = SomeRates,
                !.answers = {Found(2, GBP, NULL, 95), Found(2, USD, 1, 95),
                             Found(2, EUR, 0, 60), Found(2, USDT, 0, 95),
                             Found(NULL, EUR, 0, 95), Found(-2, EUR, 0, 95),
                             Found(2, EUR, 0, 20), Found(1000, GBP, 0, 95),
                             Found(INF, EUR, 0, 95), Found(INF, USD, 0, 60)},
                !.requests = {At(Ask(ann, "parse"), 0), Ask(ann, "transcribe")}]

(* Nobody asks; the database fails under the ingest, or two overlap.       *)
Ingest ==
  [Quiet EXCEPT !.left = [Nothing EXCEPT !["fx"] = 1, !["tick"] = 1,
                                         !["database"] = 1, !["crash"] = 1],
                !.start = 3, !.payloads = Quotations]
Overlap ==
  [Ingest EXCEPT !.left = [Nothing EXCEPT !["fx"] = 2, !["tick"] = 1],
                 !.payloads = {InEuro(3, 1), InEuro(40, 3)}]

MCScenarios ==
  [burst |-> Burst, long_day |-> LongDay, redis_down |-> RedisDown,
   redis_down_open |-> RedisDownOpen, first_sight |-> FirstSight,
   one_connection |-> OneConnection, subscription |-> Subscription,
   month_end |-> MonthEnd,
   conversion |-> Conversion, answers |-> Answers, ingest |-> Ingest,
   overlap |-> Overlap]
=============================================================================
