---------------------------- MODULE ParseService ----------------------------
(***************************************************************************)
(* POST /api/v1/parse and /api/v1/transcribe: concurrent executions of     *)
(* `parse_expense` and `transcribe_expense` with their dependencies, in    *)
(* the order FastAPI runs them: authentication, provisioning, rate limit,  *)
(* quota gate, the paid calls, and the conversion of the amount.  Beside   *)
(* them run what they depend on: the clock, the billing webhook, the       *)
(* pushes that are metered, and the FX tasks.                              *)
(*                                                                         *)
(* A request gives up control at every await; each stretch between two     *)
(* awaits is an action.  Once the user is known, its transaction stays     *)
(* open, and keeps its connection, to its end, the paid calls included.    *)
(*                                                                         *)
(* What the environment may do in a behaviour is a scenario: the rows it   *)
(* starts with, the requests and answers that may come, and how often each *)
(* kind of event may happen.  A behaviour belongs to one scenario.         *)
(***************************************************************************)
EXTENDS Entitlements, RateLimiter, Accounts, FxRates, Extraction

CONSTANTS
  Handlers,     \* concurrent executions of the two endpoints
  DeviceOwner,  \* the identity a device belongs to
  Quota,        \* FREE_MONTHLY_LOG_QUOTA
  Scenarios     \* by name

VARIABLES
  pc,        \* what each handler does next
  ctx,       \* its local variables, NULL if idle
  ent,       \* committed entitlements
  usage,     \* committed usage_counters.log_count
  scenario,  \* the name of the scenario of this behaviour
  left,      \* how many events of each kind it still allows
  admitted,  \* history: how many of the requests let through, of each scope,
             \* had their first hit before a moment
  seen       \* history: what was so at some moment before the gate's decision

limiterVars == <<now, counters>>
worldVars == <<limiterVars, accounts, fxVars, ent, usage>>
Given == Scenarios[scenario]
vars == <<pc, ctx, worldVars, scenario, left, admitted, seen>>

Devices == DOMAIN DeviceOwner

(* The moments of the clock, and the one after them. *)
Moments == 0 .. Horizon + 1

(* Events a scenario counts. *)
Kinds == {"request", "tick", "redis", "keys", "billing", "push",
          "fx", "database", "crash"}

Request == [identity : Identities, email : Emails \cup {NULL},
            device : Devices \cup {NULL}, kind : {"parse", "transcribe"},
            token : BOOLEAN,            \* whether it is genuine and in force
            fits : BOOLEAN,             \* within the size limits
            reference : Days \cup {NULL}]

(* A model's answer; the fields may be missing or nonsense. *)
RawExtraction == [amount : Int \cup {NULL, INF}, currency : Codes \cup {NULL},
                  day : Days \cup {NULL}, confidence : Int]

(* What a scenario says: the rows that are there at its start, the settings*)
(* RATE_LIMIT_FAIL_OPEN and the pool's size, and what may come from        *)
(* outside.                                                                *)
Scenario ==
  [start : 0 .. Horizon, counters : [Scopes -> [Windows -> Counter \cup {NULL}]],
   accounts : SUBSET Account, used : Nat, rates : Table(Nat),
   failOpen : BOOLEAN, pool : Nat \ {0}, left : [Kinds -> Nat],
   requests : SUBSET Request, answers : SUBSET RawExtraction, events : SUBSET Event,
   payloads : SUBSET Payloads]

(* The rows it starts with are such as the service leaves them: a key lasts*)
(* as long as its window; users are numbered in the order of the inserts,  *)
(* and identities and emails are unique; a rate fits its column, and the   *)
(* dollar's is one.  Its billing events are transitions of known types.    *)
Consistent(s) ==
  /\ \A scope \in Scopes, w \in Windows :
       LET counter == s.counters[scope][w] IN
       counter # NULL => /\ counter.started <= s.start
                         /\ counter.expires = counter.started + Length[w]
                         /\ counter.expires > s.start
  /\ IsFiniteSet(s.accounts)
  /\ \A a \in s.accounts : a.user <= Cardinality(s.accounts)
  /\ UniqueRows(s.accounts)
  /\ \A c \in Currencies, d \in Days :
       s.rates[c][d] # NULL =>
         s.rates[c][d] <= MaxRate /\ (c = USD => s.rates[c][d] = Scale)
  /\ \A e \in s.events : Handled(e) /\ e.user # NULL

ASSUME ParseAssumption ==
  /\ IsFiniteSet(Handlers)
  /\ Quota \in Nat
  /\ Scopes = Users \cup Devices
  /\ \A name \in DOMAIN Scenarios :
       Scenarios[name] \in Scenario /\ Consistent(Scenarios[name])

Replies == {"unauthorized", "error", "unavailable", "too_many", "too_large",
            "quota_exceeded", "failed", "low_confidence", "ok"}

MinuteHit == [count : Nat, ttl : Nat, at : Nat]
Refusal == [window : Windows, hit : Nat, until : Nat]

Context ==
  [req : Request, account : Account \cup {NULL}, connected : BOOLEAN,
   minute : MinuteHit \cup {NULL}, refusal : Refusal \cup {NULL},
   pro : BOOLEAN, period : Months, paid : BOOLEAN, reference : Days,
   answer : RawExtraction \cup {NULL}, known : [from : SUBSET Days, to : SUBSET Days],
   fromDay : Days \cup {NULL}, toDay : Days \cup {NULL},
   rate : Nat \cup {NULL}, base : BOOLEAN, reply : Replies \cup {NULL}]

ASSUME ContextAssumption ==
  NULL \notin Devices \cup RawExtraction \cup Replies \cup MinuteHit \cup Refusal
             \cup Context

Begun(r) ==
  [req |-> r, account |-> NULL, connected |-> FALSE, minute |-> NULL,
   refusal |-> NULL, pro |-> FALSE, period |-> 0, paid |-> FALSE,
   reference |-> 0, answer |-> NULL, known |-> [from |-> {}, to |-> {}],
   fromDay |-> NULL, toDay |-> NULL, rate |-> NULL, base |-> FALSE,
   reply |-> NULL]

ParseTypeOK ==
  /\ LimiterTypeOK
  /\ AccountsTypeOK
  /\ FxTypeOK
  /\ pc \in [Handlers -> {"idle", "select", "insert", "refresh", "reselect",
                          "minute", "day", "entitlement", "usage", "stt",
                          "llm", "rate_from", "rate_to", "answer"}]
  /\ \A h \in Handlers :
       IF pc[h] = "idle" THEN ctx[h] = NULL
       ELSE /\ ctx[h] \in Context
            /\ ctx[h].reply # NULL <=> pc[h] = "answer"
            /\ pc[h] \in {"rate_from", "rate_to"} =>
                 ctx[h].answer # NULL /\ Convertible(ctx[h].answer)
  /\ Cardinality({h \in Handlers : ctx[h] # NULL /\ ctx[h].connected}) <= Given.pool
  /\ ent \in [Users -> Row \cup {NULL}]
  /\ usage \in [Users -> [Months -> Nat]]
  /\ left \in [Kinds -> Nat]
  /\ admitted \in [Scopes -> [Moments -> Nat]]
  /\ seen \in [Handlers -> SUBSET {"pro", "free", "over", "under"}]

Init ==
  /\ scenario \in DOMAIN Scenarios
  /\ now = Given.start
  /\ left = Given.left
  /\ counters = Given.counters
  /\ accounts = Given.accounts
  /\ ent = [u \in Users |-> NULL]
  /\ usage = [u \in Users |-> [m \in Months |->
                IF m = MonthOf(now) THEN Given.used ELSE 0]]
  /\ FxInit(Given.rates)
  /\ pc = [h \in Handlers |-> "idle"]
  /\ ctx = [h \in Handlers |-> NULL]
  /\ admitted = [s \in Scopes |-> [t \in Moments |-> 0]]
  /\ seen = [h \in Handlers |-> {}]

May(kind) == left[kind] > 0
Spend(kind) == May(kind) /\ left' = [left EXCEPT ![kind] = @ - 1]

(* A handler goes on with the local variables c, or has its answer. *)
Move(h, from, to, c) ==
  /\ pc[h] = from
  /\ pc' = [pc EXCEPT ![h] = to]
  /\ ctx' = [ctx EXCEPT ![h] = c]

Reply(h, from, c, reply) ==
  Move(h, from, "answer", [c EXCEPT !.reply = reply])

-----------------------------------------------------------------------------
(* Authentication and provisioning. *)

(* get_current_user: 401 for a token that does not verify, and also when   *)
(* the signing keys cannot be fetched, unless the fetch fails in a way the *)
(* JWT library does not wrap.                                              *)
Arrive(h) ==
  /\ \E r \in Given.requests :
       \/ /\ r.token
          /\ Move(h, "idle", "select", Begun(r))
          /\ Spend("request")
       \/ /\ ~r.token
          /\ Reply(h, "idle", Begun(r), "unauthorized")
          /\ Spend("request")
       \/ /\ May("request") /\ May("keys")
          /\ \E reply \in {"unauthorized", "error"} :
               Reply(h, "idle", Begun(r), reply)
          /\ left' = [left EXCEPT !["request"] = @ - 1, !["keys"] = @ - 1]
  /\ UNCHANGED <<worldVars, admitted>>

Connections == Cardinality({h \in Handlers : ctx[h] # NULL /\ ctx[h].connected})

(* Variant with a bug: the pool grows without bound. *)
SelectUserUnbounded(h) ==
  LET found == AccountsOf(ctx[h].req.identity)
  IN  /\ \/ \E a \in found :
              Move(h, "select", "minute",
                   [ctx[h] EXCEPT !.account = a, !.connected = TRUE])
         \/ /\ found = {}
            /\ Move(h, "select", "insert", [ctx[h] EXCEPT !.connected = TRUE])
      /\ UNCHANGED <<worldVars, left, admitted>>

(* The first SELECT takes a connection. *)
SelectUser(h) ==
  LET found == AccountsOf(ctx[h].req.identity)
  IN  /\ Connections < Given.pool
      /\ \/ \E a \in found :
              Move(h, "select", "minute",
                   [ctx[h] EXCEPT !.account = a, !.connected = TRUE])
         \/ /\ found = {}
            /\ Move(h, "select", "insert", [ctx[h] EXCEPT !.connected = TRUE])
      /\ UNCHANGED <<worldVars, left, admitted>>

(* Variant with a bug: a connection of a full pool is waited for without a *)
(* limit.                                                                  *)
PoolWaits(h) ==
  /\ pc[h] \in {"select", "refresh", "reselect"}
  /\ Connections = Given.pool
  /\ UNCHANGED vars

(* No connection becomes free within the pool's timeout. *)
PoolTimeout(h) ==
  /\ pc[h] \in {"select", "refresh", "reselect"}
  /\ Connections = Given.pool
  /\ Reply(h, pc[h], ctx[h], "error")
  /\ UNCHANGED <<worldVars, left, admitted>>

(* Variant with a bug: any error of the insert is taken for a lost race.   *)
ProvisionOrReselect(h) ==
  LET r == ctx[h].req
      next == [ctx[h] EXCEPT !.connected = FALSE]
  IN  /\ \/ /\ InsertAccount(r.identity, r.email)
            /\ Move(h, "insert", "refresh", next)
            /\ UNCHANGED left
         \/ /\ Clashes(r.identity, r.email)
            /\ Move(h, "insert", "reselect", next)
            /\ UNCHANGED <<accounts, left>>
         \/ /\ Spend("database")
            /\ Move(h, "insert", "reselect", next)
            /\ UNCHANGED accounts
      /\ UNCHANGED <<limiterVars, fxVars, ent, usage, admitted>>

(* First sight: the row is inserted, or a unique constraint is violated    *)
(* and the transaction rolled back.  Either way it is over, and its        *)
(* connection returns to the pool.                                         *)
Provision(h) ==
  LET r == ctx[h].req
      next == [ctx[h] EXCEPT !.connected = FALSE]
  IN  /\ \/ /\ InsertAccount(r.identity, r.email)
            /\ Move(h, "insert", "refresh", next)
         \/ /\ Clashes(r.identity, r.email)
            /\ Move(h, "insert", "reselect", next)
            /\ UNCHANGED accounts
      /\ UNCHANGED <<limiterVars, fxVars, ent, usage, left, admitted>>

(* After the insert, the row that was inserted; after a lost race, the     *)
(* winner's, and scalar_one raises if there is none.  Both take a          *)
(* connection again.                                                       *)
Reread(h) ==
  LET found == AccountsOf(ctx[h].req.identity)
      next == [ctx[h] EXCEPT !.connected = TRUE]
  IN  /\ pc[h] \in {"refresh", "reselect"}
      /\ Connections < Given.pool
      /\ \/ \E a \in found :
              Move(h, pc[h], "minute", [next EXCEPT !.account = a])
         \/ found = {} /\ Reply(h, pc[h], next, "error")
      /\ UNCHANGED <<worldVars, left, admitted>>

-----------------------------------------------------------------------------
(* enforce_parse_rate_limit. *)

(* The device, if it belongs to the user, else the user. *)
Scope(c) ==
  IF c.req.device # NULL /\ DeviceOwner[c.req.device] = c.account.identity
  THEN c.req.device ELSE c.account.user

(* The body follows: what does not fit is refused, and for the rest the    *)
(* entitlement is looked up.                                               *)
PassLimiter(h, from, c) ==
  IF c.req.fits THEN Move(h, from, "entitlement", c)
                ELSE Reply(h, from, c, "too_large")

(* A RedisError in either window: fail open or closed, with the windows    *)
(* hit so far hit.                                                         *)
RedisFails(h, window) ==
  /\ Spend("redis")
  /\ HitFails(Scope(ctx[h]), window)
  /\ IF Given.failOpen THEN PassLimiter(h, window, ctx[h])
                          ELSE Reply(h, window, ctx[h], "unavailable")
  /\ UNCHANGED <<now, accounts, fxVars, ent, usage, admitted>>

HitMinute(h) ==
  LET s == Scope(ctx[h])
      hit == Answer(counters'[s]["minute"])
  IN  /\ pc[h] = "minute"
      /\ Hit(s, "minute")
      /\ Move(h, "minute", "day",
              [ctx[h] EXCEPT !.minute = [count |-> hit.count, ttl |-> hit.ttl,
                                         at |-> now]])
      /\ UNCHANGED <<now, accounts, fxVars, ent, usage, left, admitted>>

(* 429, with the Retry-After of the first window that is exceeded. *)
Refuse(h, window, hitAt, ttl) ==
  Reply(h, "day",
        [ctx[h] EXCEPT !.refusal =
           [window |-> window, hit |-> hitAt,
            until |-> now + RetryAfter(ttl) * TicksPerSecond]],
        "too_many")

(* The second hit happens whatever the first one returned.  Then both are  *)
(* judged.                                                                 *)
HitDay(h) ==
  LET c == ctx[h]
      s == Scope(c)
      hit == Answer(counters'[s]["day"])
  IN  /\ pc[h] = "day"
      /\ Hit(s, "day")
      /\ \/ /\ Exceeded(c.minute, "minute")
            /\ Refuse(h, "minute", c.minute.at, c.minute.ttl)
            /\ UNCHANGED admitted
         \/ /\ ~Exceeded(c.minute, "minute")
            /\ Exceeded(hit, "day")
            /\ Refuse(h, "day", now, hit.ttl)
            /\ UNCHANGED admitted
         \/ /\ ~Exceeded(c.minute, "minute")
            /\ ~Exceeded(hit, "day")
            /\ PassLimiter(h, "day", c)
            /\ admitted' = [admitted EXCEPT ![s] = [t \in Moments |->
                              admitted[s][t] + IF c.minute.at < t THEN 1 ELSE 0]]
      /\ UNCHANGED <<now, accounts, fxVars, ent, usage, left>>

-----------------------------------------------------------------------------
(* build_entitlement_signal and the quota gate. *)

(* The entitlement, and the month of the server's clock. *)
ResolveEntitlement(h) ==
  /\ Move(h, "entitlement", "usage",
          [ctx[h] EXCEPT !.pro = IsPro(ent[ctx[h].account.user], now),
                         !.period = MonthOf(now)])
  /\ UNCHANGED <<worldVars, left, admitted>>

(* `datetime.now(UTC)` unless the client sent its own time. *)
Reference(c) == IF c.req.reference = NULL THEN DayOf(now) ELSE c.req.reference

(* Variant with a bug: only the language model is behind the gate. *)
TranscribeUngated(h) ==
  LET c == ctx[h]
      over == OverQuota(c.pro, usage[c.account.user][c.period], Quota)
  IN  /\ \/ /\ over /\ c.req.kind = "parse"
            /\ Reply(h, "usage", c, "quota_exceeded")
         \/ /\ ~over \/ c.req.kind = "transcribe"
            /\ Move(h, "usage", IF c.req.kind = "parse" THEN "llm" ELSE "stt",
                    [c EXCEPT !.paid = TRUE, !.reference = Reference(c)])
      /\ UNCHANGED <<worldVars, left, admitted>>

(* The counter of that month, and the gate: past it the first paid call    *)
(* starts, speech to text or the language model.                           *)
ReadUsage(h) ==
  LET c == ctx[h]
      over == OverQuota(c.pro, usage[c.account.user][c.period], Quota)
  IN  /\ \/ over /\ Reply(h, "usage", c, "quota_exceeded")
         \/ /\ ~over
            /\ Move(h, "usage", IF c.req.kind = "parse" THEN "llm" ELSE "stt",
                    [c EXCEPT !.paid = TRUE, !.reference = Reference(c)])
      /\ UNCHANGED <<worldVars, left, admitted>>

-----------------------------------------------------------------------------
(* The paid calls.  Each is cut off by a timeout, so it ends. *)

Transcribe(h) ==
  LET c == ctx[h]
  IN  /\ \/ Move(h, "stt", "llm", [c EXCEPT !.reference = Reference(c)])
         \/ Reply(h, "stt", c, "failed")
      /\ UNCHANGED <<worldVars, left, admitted>>

(* An amount in the base currency needs no rate. *)
Converting(h, raw, day) ==
  LET c == ctx[h]
      known == [from |-> RateDays(raw.currency, day),
                to |-> RateDays(c.account.base, day)]
      next == [c EXCEPT !.answer = raw, !.known = known]
  IN  IF raw.currency = c.account.base
      THEN Reply(h, "llm", [next EXCEPT !.base = TRUE], ReplyOf(raw))
      ELSE Move(h, "llm", "rate_from", next)

(* The model answers, or fails, or is too late. *)
Extract(h) ==
  LET c == ctx[h]
  IN  /\ \E answer \in Given.answers \cup {NULL} :
           LET raw == Outcome(answer)
               status == StatusOf(raw)
           IN  \/ /\ status = "failed"
                  /\ Reply(h, "llm", c, "failed")
               \/ /\ status # "failed"
                  /\ ~Convertible(raw)
                  /\ Reply(h, "llm", c, ReplyOf(raw))
               \/ /\ status # "failed"
                  /\ Convertible(raw)
                  /\ Converting(h, raw, SpentDay(raw, c.reference))
      /\ UNCHANGED <<worldVars, left, admitted>>

-----------------------------------------------------------------------------
(* convert: the two rates are read by two statements, each of which sees   *)
(* what is committed when it runs.  The dollar needs no rate.              *)

RateOn(c, day) ==
  IF c = USD THEN Scale ELSE IF day = NULL THEN NULL ELSE rates[c][day]

ReadFromRate(h) ==
  LET c == ctx[h]
      day == RateDay(c.answer.currency, SpentDay(c.answer, c.reference))
      rate == RateOn(c.answer.currency, day)
      next == [c EXCEPT !.fromDay = day, !.rate = rate]
  IN  /\ IF rate = NULL
         THEN Reply(h, "rate_from", next, ReplyOf(c.answer))
         ELSE Move(h, "rate_from", "rate_to", next)
      /\ UNCHANGED <<worldVars, left, admitted>>

ReadToRate(h) ==
  LET c == ctx[h]
      day == RateDay(c.account.base, SpentDay(c.answer, c.reference))
      rate == RateOn(c.account.base, day)
      next == [c EXCEPT !.toDay = day]
  IN  /\ \/ /\ rate = NULL
            /\ Reply(h, "rate_to", next, ReplyOf(c.answer))
         \/ /\ rate # NULL
            /\ ConversionRaises(c.answer.amount, c.rate, rate)
            /\ Reply(h, "rate_to", next, "error")
         \/ /\ rate # NULL
            /\ ~ConversionRaises(c.answer.amount, c.rate, rate)
            /\ Reply(h, "rate_to", [next EXCEPT !.base = TRUE],
                     ReplyOf(c.answer))
      /\ UNCHANGED <<worldVars, left, admitted>>

(* The response is sent; the session is closed and its connection returns. *)
Respond(h) ==
  /\ Move(h, "answer", "idle", NULL)
  /\ UNCHANGED <<worldVars, left, admitted>>

(* The phases that run a statement; before its call the language model's   *)
(* first runs that of the known categories.                                *)
Querying == {"select", "insert", "refresh", "reselect", "entitlement", "usage",
             "llm", "rate_from", "rate_to"}

(* The statement fails, or the connection for it: a server error.  A       *)
(* COMMIT of the insert may have taken effect all the same.                *)
DatabaseFails(h) ==
  /\ pc[h] \in Querying
  /\ Spend("database")
  /\ Reply(h, pc[h], ctx[h], "error")
  /\ \/ UNCHANGED accounts
     \/ /\ pc[h] = "insert"
        /\ InsertAccount(ctx[h].req.identity, ctx[h].req.email)
  /\ UNCHANGED <<limiterVars, fxVars, ent, usage, admitted>>

(* The client disconnects or the process stops. *)
Abort(h) ==
  /\ pc[h] # "idle"
  /\ Spend("crash")
  /\ Move(h, pc[h], "idle", NULL)
  /\ UNCHANGED <<worldVars, admitted>>

-----------------------------------------------------------------------------
(* The world around the handlers. *)

requestVars == <<pc, ctx, admitted>>

ClockTicks ==
  /\ Spend("tick")
  /\ Tick
  /\ UNCHANGED <<requestVars, accounts, fxVars, ent, usage>>

(* The webhook commits a transition of a user's entitlement. *)
BillingEvent ==
  /\ Spend("billing")
  /\ \E e \in Given.events :
       /\ \E a \in accounts : a.user = e.user
       /\ ent' = [ent EXCEPT ![e.user] = Merged(@, e)]
  /\ UNCHANGED <<requestVars, limiterVars, accounts, fxVars, usage>>

(* A push commits a new row, counted in the month in which it was met: the *)
(* current one, or the one before if the month has just turned.            *)
PushLands ==
  /\ Spend("push")
  /\ \E a \in accounts, m \in Months \cap {MonthOf(now), MonthOf(now) - 1} :
       usage' = [usage EXCEPT ![a.user][m] = @ + 1]
  /\ UNCHANGED <<requestVars, limiterVars, accounts, fxVars, ent>>

StartTask(w) ==
  /\ Spend("fx")
  /\ \/ StartDaily(w)
     \/ \E first, last \in Days : StartBackfill(w, first, last)
  /\ UNCHANGED <<requestVars, limiterVars, accounts, ent, usage>>

TaskStep(w) ==
  /\ \/ \E payload \in Given.payloads : FetchSucceeds(w, payload)
     \/ FetchFails(w)
     \/ StoreRates(w)
     \/ task[w] # NULL /\ task[w].phase = "store"
        /\ ~Storable(task[w].payload) /\ StoreFails(w)
     \/ Retry(w)
  /\ UNCHANGED <<requestVars, limiterVars, accounts, ent, usage, left>>

(* The database is lost under a task, or the task with its process. *)
TaskFault(w) ==
  /\ \/ Spend("database") /\ StoreFails(w)
     \/ Spend("crash") /\ LoseTask(w)
  /\ UNCHANGED <<requestVars, limiterVars, accounts, ent, usage>>

-----------------------------------------------------------------------------
(* A script in Redis is answered.  The client has no socket timeout, so    *)
(* this need not happen.                                                   *)
RedisStep(h) == HitMinute(h) \/ HitDay(h)

(* What a handler does otherwise once its request has arrived. *)
Step(h) ==
  \/ pc[h] = "select" /\ SelectUser(h)
  \/ PoolTimeout(h)
  \/ pc[h] = "insert" /\ Provision(h)
  \/ Reread(h)
  \/ pc[h] = "entitlement" /\ ResolveEntitlement(h)
  \/ pc[h] = "usage" /\ ReadUsage(h)
  \/ pc[h] = "stt" /\ Transcribe(h)
  \/ pc[h] = "llm" /\ Extract(h)
  \/ pc[h] = "rate_from" /\ ReadFromRate(h)
  \/ pc[h] = "rate_to" /\ ReadToRate(h)
  \/ Respond(h)

HandlerNext(h) ==
  \/ Arrive(h)
  \/ Step(h)
  \/ RedisStep(h)
  \/ \E w \in {"minute", "day"} : pc[h] = w /\ RedisFails(h, w)
  \/ DatabaseFails(h)
  \/ Abort(h)

WorldNext ==
  \/ ClockTicks
  \/ BillingEvent
  \/ PushLands
  \/ \E w \in Workers : StartTask(w) \/ TaskStep(w) \/ TaskFault(w)

(* History: what holds of a request's user at some moment between          *)
(* provisioning and the gate's decision.  The usage is that of the current *)
(* month, or of the month the gate has settled on.                         *)
Facts(h) ==
  LET u == ctx[h].account.user
      used == usage[u][IF pc[h] = "usage" THEN ctx[h].period ELSE MonthOf(now)]
  IN  {IF IsPro(ent[u], now) THEN "pro" ELSE "free",
       IF used >= Quota THEN "over" ELSE "under"}

Undecided == {"minute", "day", "entitlement", "usage"}

Observe ==
  seen' = [h \in Handlers |->
             IF pc'[h] \in Undecided THEN seen[h] \cup Facts(h)'
             ELSE IF pc'[h] = "idle" THEN {}
             ELSE seen[h]]

(* The scenario is over: the model, not the service, ends here. *)
Over ==
  /\ pc = [h \in Handlers |-> "idle"]
  /\ task = [w \in Workers |-> NULL]
  /\ UNCHANGED vars

Next ==
  \/ /\ (\E h \in Handlers : HandlerNext(h)) \/ WorldNext
     /\ Observe
     /\ UNCHANGED scenario
  \/ Over

Spec == Init /\ [][Next]_vars

(* Handlers and tasks go on: the event loop runs them, the paid calls and  *)
(* the fetches end by their timeouts, the pool gives a connection or gives *)
(* up, and a statement ends, if only with a lost connection.  Nothing else *)
(* is fair, a call to Redis in particular.                                 *)
Fairness ==
  /\ \A h \in Handlers : WF_vars(Step(h) /\ Observe /\ UNCHANGED scenario)
  /\ \A w \in Workers : WF_vars(TaskStep(w) /\ Observe /\ UNCHANGED scenario)

FairSpec == Spec /\ Fairness

-----------------------------------------------------------------------------
(* Properties. *)

(* However many first requests of however many identities race, there is   *)
(* one row per identity and one per email, and every request that is past  *)
(* provisioning acts for the row of the identity that was verified.        *)
OneUserPerIdentity ==
  /\ UniqueRows(accounts)
  /\ \A h \in Handlers :
       ctx[h] # NULL /\ ctx[h].account # NULL =>
         /\ ctx[h].account \in accounts
         /\ ctx[h].account.identity = ctx[h].req.identity

(* The limiter's fixed windows start with their first hit, so the limit    *)
(* per minute is not a bound for every minute.  This is: while Redis       *)
(* answers, fewer than twice the limit of a scope's requests are admitted  *)
(* within any interval as long as the window.                              *)
AtMostTwiceTheLimit ==
  \A s \in Scopes, from, to \in Moments :
    from <= to /\ to <= from + Length["minute"] =>
      admitted[s][to] - admitted[s][from] < 2 * Limit["minute"]

(* A client that waits as long as Retry-After says finds the window that   *)
(* refused it gone, whatever others of its scope have sent meanwhile.      *)
RetryAfterLifts ==
  \A h \in Handlers :
    ctx[h] # NULL /\ ctx[h].refusal # NULL =>
      LET r == ctx[h].refusal
          counter == counters[Scope(ctx[h])][r.window]
      IN  counter # NULL /\ counter.started <= r.hit => counter.expires <= r.until

(* Entitlement and usage are read one after the other, while billing       *)
(* events, pushes and the calendar go on.  Nevertheless nothing is paid    *)
(* for unless the user was paying, or below the quota, at some moment of   *)
(* the request; and nobody is turned away as over the quota who was a      *)
(* subscriber, or below it, throughout.                                    *)
GateIsHonest ==
  \A h \in Handlers :
    ctx[h] # NULL =>
      /\ ctx[h].paid => seen[h] \cap {"pro", "under"} # {}
      /\ ctx[h].reply = "quota_exceeded" => {"free", "over"} \subseteq seen[h]

(* Behind a lost race for a user's row there is a winner: whoever reads    *)
(* the row again, after the INSERT or after its violated constraint, finds *)
(* one, so that scalar_one does not raise, unless the email belongs to     *)
(* another identity's row.  Other errors of the INSERT are not taken for a *)
(* lost race.                                                              *)
LoserFindsWinner ==
  \A h \in Handlers :
    LET r == ctx[h].req IN
    /\ pc[h] = "refresh" => AccountsOf(r.identity) # {}
    /\ pc[h] = "reselect" =>
         \/ AccountsOf(r.identity) # {}
         \/ \E a \in accounts : /\ a.email = r.email /\ r.email # NULL
                                /\ a.identity # r.identity

(* The conversion reads two rates at two moments beside ingests and        *)
(* backfills.  Each is of a day that is not after the day of the expense,  *)
(* and not before the latest day known when the conversion began; if both  *)
(* were known then, there is an amount in the base currency.               *)
ConversionUsesKnownDay ==
  \A h \in Handlers :
    LET c == ctx[h] IN
    c # NULL /\ c.answer # NULL =>
      LET spent == SpentDay(c.answer, c.reference)
          Within(day, known) ==
            day # NULL => day <= spent /\ \A d \in known : d <= day
      IN  /\ Within(c.fromDay, c.known.from)
          /\ Within(c.toDay, c.known.to)
          /\ c.known.from # {} /\ c.known.to # {} /\ c.reply # NULL =>
               c.base \/ c.reply = "error"

(* A request that is not answered waits for Redis, and keeps its           *)
(* connection meanwhile; every other request ends nevertheless, be it      *)
(* because the pool has no connection left for it.                         *)
OnlyRedisHangs ==
  \A h \in Handlers :
    []<>(pc[h] = "idle") \/ <>[](pc[h] \in {"minute", "day"})

(* Every ingest task ends, whether its fetches and statements succeed or   *)
(* fail.                                                                   *)
EveryTaskEnds == \A w \in Workers : task[w] # NULL ~> task[w] = NULL
=============================================================================
