------------------------------- MODULE FxRates -------------------------------
(***************************************************************************)
(* The fx_rates table and the tasks that fill it (services/fx/ingest.py,   *)
(* worker/tasks/fx.py): the daily ingest with its retries and the backfill *)
(* of a range of days.                                                     *)
(*                                                                         *)
(* A provider quotes every currency against one base.  A quotation is a    *)
(* number of units of 1/One, NULL if it is not a finite number.  A stored  *)
(* rate is a number of units of 1/Scale: rate_per_usd has eight places.    *)
(***************************************************************************)
EXTENDS Domain, ServerClock

CONSTANTS
  USD,
  LongCodes,   \* codes a provider may send that CHAR(3) cannot hold
  Payloads,    \* responses of a provider
  One, Scale,  \* see above
  MaxRate,     \* bound of NUMERIC(18, 8), in units of 1/Scale
  Workers,     \* worker processes that run FX tasks
  MaxRetries   \* 3

ASSUME FxAssumption ==
  /\ USD \in Currencies
  /\ NULL \notin Currencies
  /\ LongCodes \cap Currencies = {}
  /\ One \in Nat \ {0}
  /\ Scale \in Nat \ {0}
  /\ MaxRate \in Nat /\ Scale <= MaxRate
  /\ MaxRetries \in Nat

VARIABLES
  rates,  \* committed rate_per_usd of each currency and day, NULL if none
  task,   \* what each worker does, NULL if nothing
  quoted  \* history: the quotation and the dollar it was divided by

fxVars == <<rates, task, quoted>>

Codes == Currencies \cup LongCodes

(* A response quotes some codes, by their value in its base.               *)
ASSUME PayloadAssumption ==
  \A p \in Payloads : /\ p.base \in Codes
                      /\ DOMAIN p.values \subseteq Codes
                      /\ \A c \in DOMAIN p.values : p.values[c] \in Int \cup {NULL}

Table(S) == [Currencies -> [Days -> S \cup {NULL}]]
Empty == [c \in Currencies |-> [d \in Days |-> NULL]]

-----------------------------------------------------------------------------
(* normalize_to_usd_pivot. *)

Usable(v) == v # NULL /\ v > 0

(* The dollar's quotation: one if the provider's base is the dollar,       *)
(* otherwise the payload's own, NULL if that cannot be divided by.         *)
Dollar(payload) ==
  IF payload.base = USD THEN One
  ELSE IF USD \in DOMAIN payload.values /\ Usable(payload.values[USD])
       THEN payload.values[USD]
       ELSE NULL

(* Variant with a bug: rounded towards zero. *)
Truncate(n, d) == (n * Scale) \div d

(* Decimal.quantize: to the nearest unit of the scale, halves to the even. *)
Quantize(n, d) ==
  LET q == (n * Scale) \div d
      r == (n * Scale) % d
  IN  IF 2 * r > d \/ (2 * r = d /\ q % 2 = 1) THEN q + 1 ELSE q

(* The codes that survive, the dollar added. *)
Accepted(payload) ==
  {USD} \cup IF Dollar(payload) = NULL THEN {}
             ELSE {c \in DOMAIN payload.values : Usable(payload.values[c])}

Normalized(payload) ==
  [c \in Accepted(payload) |->
     IF c = USD THEN Scale
     ELSE Quantize(payload.values[c], Dollar(payload))]

(* Entries for which quantize raises, or which the table cannot hold, fail *)
(* the statement that carries all of them.                                 *)
Storable(payload) ==
  \A c \in Accepted(payload) :
    c \in Currencies /\ Normalized(payload)[c] <= MaxRate

-----------------------------------------------------------------------------
(* The tasks. *)

Task == [kind : {"daily", "backfill"}, phase : {"fetch", "store", "backoff"},
         day : Days, last : Days, retries : 0 .. MaxRetries,
         payload : Payloads \cup {NULL}]

ASSUME FxNullAssumption == NULL \notin Nat \cup Payloads \cup Task

FxTypeOK ==
  /\ rates \in Table(Nat)
  /\ task \in [Workers -> Task \cup {NULL}]
  /\ \A w \in Workers : task[w] # NULL =>
       /\ task[w].payload # NULL <=> task[w].phase = "store"
       /\ task[w].kind = "daily" => task[w].day <= DayOf(now)

FxInit(initial) ==
  /\ rates = initial
  /\ task = [w \in Workers |-> NULL]
  /\ quoted = Empty

Run(kind, day, last, retries) ==
  [kind |-> kind, phase |-> "fetch", day |-> day, last |-> last,
   retries |-> retries, payload |-> NULL]

Assign(w, t) == task' = [task EXCEPT ![w] = t]

(* Beat starts the daily ingest, which reads the date and then fetches. *)
StartDaily(w) ==
  /\ task[w] = NULL
  /\ Assign(w, Run("daily", DayOf(now), DayOf(now), 0))
  /\ UNCHANGED <<rates, quoted>>

(* An operator starts a backfill. *)
StartBackfill(w, first, last) ==
  /\ task[w] = NULL
  /\ Assign(w, Run("backfill", first, last, 0))
  /\ UNCHANGED <<rates, quoted>>

(* Variant with a bug: retries are not counted. *)
RetryForever(t) ==
  IF t.kind = "daily" /\ t.retries < MaxRetries
  THEN [t EXCEPT !.phase = "backoff", !.payload = NULL]
  ELSE NULL

(* A failed attempt at the daily ingest is retried a few times. *)
AfterFailure(t) ==
  IF t.kind = "daily" /\ t.retries < MaxRetries
  THEN [t EXCEPT !.phase = "backoff", !.retries = @ + 1, !.payload = NULL]
  ELSE NULL

(* A backfill goes on with the next day of its range. *)
NextDay(t) ==
  IF t.kind = "backfill" /\ t.day < t.last
  THEN Run("backfill", t.day + 1, t.last, 0)
  ELSE NULL

FetchSucceeds(w, payload) ==
  /\ task[w] # NULL
  /\ task[w].phase = "fetch"
  /\ Assign(w, [task[w] EXCEPT !.phase = "store", !.payload = payload])
  /\ UNCHANGED <<rates, quoted>>

(* The provider cannot be reached or answers with an error: the backfill   *)
(* leaves the day out.                                                     *)
FetchFails(w) ==
  /\ task[w] # NULL
  /\ task[w].phase = "fetch"
  /\ Assign(w, IF task[w].kind = "daily" THEN AfterFailure(task[w])
               ELSE NextDay(task[w]))
  /\ UNCHANGED <<rates, quoted>>

(* upsert_rates: one statement and its commit. *)
StoreRates(w) ==
  LET t == task[w]
  IN  /\ t # NULL
      /\ t.phase = "store"
      /\ Storable(t.payload)
      /\ rates' = [c \in Currencies |->
                     IF c \in Accepted(t.payload)
                     THEN [rates[c] EXCEPT ![t.day] = Normalized(t.payload)[c]]
                     ELSE rates[c]]
      /\ quoted' = [c \in Currencies |->
                     IF c \in Accepted(t.payload) \ {USD}
                     THEN [quoted[c] EXCEPT ![t.day] =
                             [value |-> t.payload.values[c],
                              dollar |-> Dollar(t.payload)]]
                     ELSE quoted[c]]
      /\ Assign(w, NextDay(t))

(* The statement or quantize raises, because of an entry or because the    *)
(* database is gone: the whole payload is lost, and with it the rest of a  *)
(* backfill.                                                               *)
StoreFails(w) ==
  /\ task[w] # NULL
  /\ task[w].phase = "store"
  /\ Assign(w, AfterFailure(task[w]))
  /\ UNCHANGED <<rates, quoted>>

(* After the delay the task runs again from its start: it reads the date   *)
(* anew.                                                                   *)
Retry(w) ==
  /\ task[w] # NULL
  /\ task[w].phase = "backoff"
  /\ Assign(w, Run("daily", DayOf(now), DayOf(now), task[w].retries))
  /\ UNCHANGED <<rates, quoted>>

(* The worker stops: its message was acknowledged when the task started,   *)
(* so nothing runs it again.  (One that waits for a retry is still the     *)
(* broker's.)                                                              *)
LoseTask(w) ==
  /\ task[w] # NULL
  /\ task[w].phase # "backoff"
  /\ Assign(w, NULL)
  /\ UNCHANGED <<rates, quoted>>

-----------------------------------------------------------------------------
(* The converter's lookup: the day of the latest rate on or before a day,  *)
(* NULL if there is none.                                                  *)
RateDays(c, day) == {d \in Days : d <= day /\ rates[c][d] # NULL}

(* Variant with a bug: the earliest rate. *)
EarliestDay(c, day) ==
  IF RateDays(c, day) = {} THEN NULL
  ELSE CHOOSE d \in RateDays(c, day) : \A e \in RateDays(c, day) : d <= e

RateDay(c, day) ==
  IF RateDays(c, day) = {} THEN NULL
  ELSE CHOOSE d \in RateDays(c, day) : \A e \in RateDays(c, day) : e <= d

-----------------------------------------------------------------------------
(* Every stored rate is the quotation divided by the dollar's, to within   *)
(* half a unit of the scale, whatever base the provider quotes in, however *)
(* ingests and backfills overlap; the dollar's own is exactly one; and no  *)
(* quotation that is missing, zero, negative or not finite has left a rate.*)
NormalizedIsCrossRate ==
  \A c \in Currencies, d \in Days :
    /\ c = USD /\ rates[c][d] # NULL => rates[c][d] = Scale
    /\ quoted[c][d] # NULL =>
         LET q == quoted[c][d]
             error == rates[c][d] * q.dollar - q.value * Scale
         IN  /\ q.value > 0
             /\ 2 * error <= q.dollar
             /\ -2 * error <= q.dollar
=============================================================================
