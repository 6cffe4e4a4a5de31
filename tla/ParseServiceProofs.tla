------------------------- MODULE ParseServiceProofs -------------------------
(***************************************************************************)
(* Proofs about ParseService, for every number of handlers, users, devices *)
(* and workers, every clock and every scenario.                            *)
(***************************************************************************)
EXTENDS ParseService, NumberLemmas, FiniteSetTheorems

-----------------------------------------------------------------------------
(* The clock and its calendar.                                             *)

LEMMA Calendar ==
  ASSUME NEW t \in 0 .. Horizon
  PROVE  DayOf(t) \in Days /\ MonthOf(t) \in Months
<1>1. /\ TicksPerSecond * SecondsPerDay \in Nat \ {0}
      /\ DaysPerMonth \in Nat \ {0} /\ Horizon \in Nat
  BY ClockAssumption
<1>2. DayOf(t) \in Nat /\ DayOf(Horizon) \in Nat /\ DayOf(t) <= DayOf(Horizon)
  BY <1>1, DivisionMonotone, Division DEF DayOf
<1>3. MonthOf(t) \in Nat /\ MonthOf(Horizon) \in Nat /\ MonthOf(t) <= MonthOf(Horizon)
  BY <1>1, <1>2, DivisionMonotone, Division DEF MonthOf
<1>4. QED
  BY <1>2, <1>3 DEF Days, Months

LEMMA DaysBounded == DayOf(Horizon) \in Nat /\ Days = 0 .. DayOf(Horizon) /\ 0 \in Days
<1>1. Horizon \in 0 .. Horizon
  BY ClockAssumption
<1>2. DayOf(Horizon) \in Nat
  BY <1>1, Calendar DEF Days
<1>3. QED
  BY <1>2 DEF Days

(* The converter's lookup finds the latest known day.                      *)
LEMMA LatestDay ==
  ASSUME NEW c, NEW day
  PROVE  /\ RateDays(c, day) = {} => RateDay(c, day) = NULL
         /\ RateDays(c, day) # {} =>
              /\ RateDay(c, day) \in RateDays(c, day)
              /\ \A d \in RateDays(c, day) : d <= RateDay(c, day)
         /\ RateDay(c, day) \in Days \cup {NULL}
<1>1. RateDays(c, day) \subseteq Days
  BY DEF RateDays
<1>2. CASE RateDays(c, day) = {}
  BY <1>2 DEF RateDay
<1>3. CASE RateDays(c, day) # {}
  <2>1. \E d \in RateDays(c, day) : \A e \in RateDays(c, day) : e <= d
    BY <1>1, <1>3, DaysBounded, Largest
  <2>2. RateDay(c, day) = CHOOSE d \in RateDays(c, day) : \A e \in RateDays(c, day) : e <= d
    BY <1>3 DEF RateDay
  <2>3. /\ RateDay(c, day) \in RateDays(c, day)
        /\ \A d \in RateDays(c, day) : d <= RateDay(c, day)
    BY <2>1, <2>2, Zenon
  <2>4. QED
    BY <1>1, <1>3, <2>3
<1>4. QED
  BY <1>2, <1>3

-----------------------------------------------------------------------------
(* The counters.                                                           *)

LEMMA Lengths ==
  \A w \in Windows : Length[w] \in Nat \ {0} /\ Limit[w] \in Nat
BY ClockAssumption, LimiterAssumption DEF Windows, Length, Limit

(* What a hit leaves, and what the script returns of it.                   *)
LEMMA HitFacts ==
  ASSUME LimiterTypeOK, NEW s \in Scopes, NEW w \in Windows, Hit(s, w)
  PROVE  /\ counters' \in [Scopes -> [Windows -> Counter \cup {NULL}]]
         /\ counters'[s][w] \in Counter
         /\ counters[s][w] = NULL => /\ counters'[s][w].started = now
                                     /\ counters'[s][w].expires = now + Length[w]
         /\ counters[s][w] # NULL =>
              /\ counters'[s][w].started = counters[s][w].started
              /\ counters'[s][w].expires = counters[s][w].expires
         /\ \A t \in Scopes, v \in Windows :
              t # s \/ v # w => counters'[t][v] = counters[t][v]
         /\ counters'[s][w].expires > now
         /\ Answer(counters'[s][w]).count \in Nat
         /\ Answer(counters'[s][w]).ttl \in Nat \ {0}
         /\ Answer(counters'[s][w]).ttl = counters'[s][w].expires - now
<1>1. /\ now \in Nat /\ Length[w] \in Nat \ {0}
      /\ counters \in [Scopes -> [Windows -> Counter \cup {NULL}]]
      /\ counters[s][w] # NULL => counters[s][w].expires > now
  BY ClockAssumption, Lengths DEF LimiterTypeOK
<1> DEFINE new == IF counters[s][w] = NULL
                  THEN [count |-> 1, started |-> now, expires |-> now + Length[w]]
                  ELSE [counters[s][w] EXCEPT !.count = @ + 1]
<1>2. counters' = [counters EXCEPT ![s][w] = new]
  BY DEF Hit
<1>3. /\ new \in Counter /\ new.expires > now
      /\ counters[s][w] = NULL => new.started = now /\ new.expires = now + Length[w]
      /\ counters[s][w] # NULL => /\ new.started = counters[s][w].started
                                  /\ new.expires = counters[s][w].expires
  <2>1. CASE counters[s][w] = NULL
    BY <1>1, <2>1 DEF Counter
  <2>2. CASE counters[s][w] # NULL
    <3>1. PICK old \in Counter : old = counters[s][w]
      BY <1>1, <2>2
    <3>2. new = [old EXCEPT !.count = @ + 1] /\ old.expires > now
      BY <1>1, <2>2, <3>1
    <3>3. QED
      BY <2>2, <3>1, <3>2 DEF Counter
  <2>3. QED
    BY <2>1, <2>2
<1> HIDE DEF new
<1>4. counters' \in [Scopes -> [Windows -> Counter \cup {NULL}]]
  BY <1>1, <1>2, <1>3
<1>5. /\ counters'[s][w] = new
      /\ \A t \in Scopes, v \in Windows :
           t # s \/ v # w => counters'[t][v] = counters[t][v]
  BY <1>1, <1>2
<1>6. /\ Answer(new).count \in Nat /\ Answer(new).ttl \in Nat \ {0}
      /\ Answer(new).ttl = new.expires - now
  BY <1>1, <1>3 DEF Answer, Counter
<1>7. QED
  BY <1>3, <1>4, <1>5, <1>6

LEMMA HitTyped ==
  ASSUME LimiterTypeOK, NEW s \in Scopes, NEW w \in Windows,
         HitFails(s, w), now' = now
  PROVE  LimiterTypeOK'
<1>1. CASE UNCHANGED counters
  BY <1>1 DEF LimiterTypeOK
<1>2. CASE Hit(s, w)
  BY <1>2, HitFacts DEF LimiterTypeOK
<1>3. QED
  BY <1>1, <1>2 DEF HitFails

LEMMA TickTyped ==
  ASSUME LimiterTypeOK, Tick
  PROVE  LimiterTypeOK' /\ now' = now + 1 /\ now' \in 0 .. Horizon
<1>1. now' = now + 1 /\ now' \in 0 .. Horizon /\ now \in Nat
  BY ClockAssumption DEF Tick, TimePasses, LimiterTypeOK
<1>2. /\ counters \in [Scopes -> [Windows -> Counter \cup {NULL}]]
      /\ counters' = [s \in Scopes |-> [w \in Windows |->
           IF counters[s][w] # NULL /\ counters[s][w].expires <= now'
           THEN NULL ELSE counters[s][w]]]
  BY DEF Tick, LimiterTypeOK
<1>3. ASSUME NEW s \in Scopes, NEW w \in Windows
      PROVE  /\ counters'[s][w] \in Counter \cup {NULL}
             /\ counters'[s][w] # NULL => counters'[s][w].expires > now'
  BY <1>1, <1>2 DEF Counter
<1>4. counters' \in [Scopes -> [Windows -> Counter \cup {NULL}]]
  BY <1>2, <1>3
<1>5. QED
  BY <1>1, <1>3, <1>4 DEF LimiterTypeOK

-----------------------------------------------------------------------------
(* The users table.                                                        *)

AccountsInv ==
  /\ AccountsTypeOK
  /\ IsFiniteSet(accounts)
  /\ \A a \in accounts : a.user <= Cardinality(accounts)
  /\ UniqueRows(accounts)

LEMMA InsertKeepsRows ==
  ASSUME AccountsInv, NEW identity \in Identities, NEW email \in Emails \cup {NULL},
         InsertAccount(identity, email)
  PROVE  /\ AccountsInv'
         /\ accounts \subseteq accounts'
         /\ \E a \in accounts' : a.identity = identity
<1> DEFINE new == NewAccount(identity, email)
<1>1. Cardinality(accounts) \in Nat
  BY FS_CardinalityType DEF AccountsInv
<1>2. /\ new.user = Cardinality(accounts) + 1 /\ new.identity = identity
      /\ new.email = email /\ new \in Account
  BY AccountAssumption DEF NewAccount, InsertAccount, Account
<1>3. accounts' = accounts \cup {new}
  BY DEF InsertAccount
<1>4. \A a \in accounts : /\ a.user \in Nat /\ a.user <= Cardinality(accounts)
                          /\ a.identity # identity
                          /\ a.email = email => email = NULL
  <2>1. Cardinality(Users) \in Nat
    BY AccountAssumption, FS_CardinalityType
  <2>2. \A a \in accounts : a.user \in 1 .. Cardinality(Users)
    BY AccountAssumption DEF AccountsInv, AccountsTypeOK, Account
  <2>3. \A a \in accounts : a.user \in Nat
    BY <2>1, <2>2
  <2>4. \A a \in accounts : a.identity # identity /\ (a.email = email => email = NULL)
    BY DEF InsertAccount, Clashes
  <2>5. QED
    BY <2>3, <2>4 DEF AccountsInv
<1> HIDE DEF new
<1>5. new \notin accounts
  BY <1>2, <1>4
<1>6. IsFiniteSet(accounts') /\ Cardinality(accounts') = Cardinality(accounts) + 1
  BY <1>3, <1>5, FS_AddElement DEF AccountsInv
<1>7. \A a \in accounts' : a.user <= Cardinality(accounts')
  BY <1>1, <1>2, <1>3, <1>4, <1>6
<1>8. UniqueRows(accounts')
  BY <1>1, <1>2, <1>3, <1>4 DEF AccountsInv, UniqueRows
<1>9. accounts' \subseteq Account
  BY <1>2, <1>3 DEF AccountsInv, AccountsTypeOK
<1>10. QED
  BY <1>2, <1>3, <1>6, <1>7, <1>8, <1>9 DEF AccountsInv, AccountsTypeOK

-----------------------------------------------------------------------------
(* The rates.                                                              *)

(* Rounding errs by at most half a unit.                                   *)
LEMMA Rounding ==
  ASSUME NEW n \in Nat, NEW d \in Nat \ {0}
  PROVE  /\ Quantize(n, d) \in Nat
         /\ 2 * (Quantize(n, d) * d - n * Scale) <= d
         /\ -2 * (Quantize(n, d) * d - n * Scale) <= d
<1>1. PICK m \in Nat : m = n * Scale
  BY FxAssumption
<1>2. PICK q \in Nat, r \in Nat : q = m \div d /\ r = m % d
  BY Division
<1>3. m = d * q + r /\ r < d
  BY <1>2, Division
<1>4. PICK z : /\ z = Quantize(n, d)
               /\ \/ z = q + 1 /\ 2 * r >= d
                  \/ z = q /\ 2 * r <= d
  <2>1. Quantize(n, d) = IF 2 * r > d \/ (2 * r = d /\ q % 2 = 1) THEN q + 1 ELSE q
    BY <1>1, <1>2 DEF Quantize
  <2>2. QED
    BY <2>1
<1>5. PICK p \in Nat : p = q * d /\ p = d * q
  OBVIOUS
<1>6. CASE z = q + 1 /\ 2 * r >= d
  <2>1. z * d = p + d
    BY <1>5, <1>6
  <2>2. QED
    BY <1>1, <1>3, <1>4, <1>5, <1>6, <2>1
<1>7. CASE z = q /\ 2 * r <= d
  <2>1. z * d = p
    BY <1>5, <1>7
  <2>2. QED
    BY <1>1, <1>3, <1>4, <1>5, <1>7, <2>1
<1>8. QED
  BY <1>4, <1>6, <1>7

LEMMA NormalizedFacts ==
  ASSUME NEW p \in Payloads
  PROVE  /\ Normalized(p)[USD] = Scale
         /\ \A c \in Accepted(p) : Normalized(p)[c] \in Nat
         /\ \A c \in Accepted(p) \ {USD} :
              /\ p.values[c] \in Nat \ {0} /\ Dollar(p) \in Nat \ {0}
              /\ Normalized(p)[c] = Quantize(p.values[c], Dollar(p))
<1>1. USD \in Accepted(p) /\ Normalized(p)[USD] = Scale
  BY DEF Accepted, Normalized
<1>2. Dollar(p) # NULL => Dollar(p) \in Nat \ {0}
  BY FxAssumption, PayloadAssumption DEF Dollar, Usable
<1>3. ASSUME NEW c \in Accepted(p) \ {USD}
      PROVE  /\ p.values[c] \in Nat \ {0} /\ Dollar(p) \in Nat \ {0}
             /\ Normalized(p)[c] = Quantize(p.values[c], Dollar(p))
             /\ Normalized(p)[c] \in Nat
  <2>1. Dollar(p) # NULL /\ c \in DOMAIN p.values /\ Usable(p.values[c])
    BY <1>3 DEF Accepted
  <2>2. p.values[c] \in Nat \ {0}
    BY <2>1, PayloadAssumption DEF Usable
  <2>3. Normalized(p)[c] = Quantize(p.values[c], Dollar(p))
    BY <1>3 DEF Normalized
  <2>4. QED
    BY <1>2, <2>1, <2>2, <2>3, Rounding
<1>4. QED
  BY <1>1, <1>3, FxAssumption

(* A stored rate fits its column, and the dollar's is one. *)
RatesFit ==
  \A c \in Currencies, d \in Days :
    rates[c][d] # NULL => rates[c][d] <= MaxRate /\ (c = USD => rates[c][d] = Scale)

Quotation == [value : Nat \ {0}, dollar : Nat \ {0}]

FxInv ==
  /\ FxTypeOK
  /\ quoted \in Table(Quotation) /\ \A d \in Days : quoted[USD][d] = NULL
  /\ RatesFit
  /\ NormalizedIsCrossRate

(* One currency's rates and quotations of a day, as a payload replaces them*)
(* or not.                                                                 *)
LEMMA StoreKeepsRates ==
  ASSUME FxInv, NEW w \in Workers, StoreRates(w)
  PROVE  /\ rates' \in Table(Nat) /\ quoted' \in Table(Quotation)
         /\ \A d \in Days : quoted'[USD][d] = NULL
         /\ RatesFit' /\ NormalizedIsCrossRate'
         /\ \A c \in Currencies, d \in Days : rates[c][d] # NULL => rates'[c][d] # NULL
<1> DEFINE t == task[w]
<1> DEFINE p == t.payload
<1> DEFINE q(c) == [value |-> p.values[c], dollar |-> Dollar(p)]
<1>1. p \in Payloads /\ t.day \in Days /\ Storable(p)
  BY DEF StoreRates, FxInv, FxTypeOK, Task
<1>2. /\ rates' = [c \in Currencies |->
                     IF c \in Accepted(p)
                     THEN [rates[c] EXCEPT ![t.day] = Normalized(p)[c]] ELSE rates[c]]
      /\ quoted' = [c \in Currencies |->
                     IF c \in Accepted(p) \ {USD}
                     THEN [quoted[c] EXCEPT ![t.day] = q(c)] ELSE quoted[c]]
  BY DEF StoreRates
<1>3. /\ rates \in Table(Nat) /\ quoted \in Table(Quotation)
      /\ \A c \in Currencies : /\ rates[c] \in [Days -> Nat \cup {NULL}]
                               /\ quoted[c] \in [Days -> Quotation \cup {NULL}]
  BY DEF FxInv, FxTypeOK, Table
<1>4. /\ \A c \in Accepted(p) : Normalized(p)[c] \in Nat /\ Normalized(p)[c] <= MaxRate
      /\ Normalized(p)[USD] = Scale
      /\ \A c \in Accepted(p) \ {USD} :
           /\ q(c) \in Quotation
           /\ 2 * (Normalized(p)[c] * Dollar(p) - p.values[c] * Scale) <= Dollar(p)
           /\ -2 * (Normalized(p)[c] * Dollar(p) - p.values[c] * Scale) <= Dollar(p)
  <2>1. /\ \A c \in Accepted(p) : Normalized(p)[c] \in Nat
        /\ Normalized(p)[USD] = Scale
    BY <1>1, NormalizedFacts
  <2>2. \A c \in Accepted(p) : Normalized(p)[c] <= MaxRate
    BY <1>1 DEF Storable
  <2>3. ASSUME NEW c \in Accepted(p) \ {USD}
        PROVE  /\ q(c) \in Quotation
               /\ 2 * (Normalized(p)[c] * Dollar(p) - p.values[c] * Scale) <= Dollar(p)
               /\ -2 * (Normalized(p)[c] * Dollar(p) - p.values[c] * Scale) <= Dollar(p)
    <3>1. /\ p.values[c] \in Nat \ {0} /\ Dollar(p) \in Nat \ {0}
          /\ Normalized(p)[c] = Quantize(p.values[c], Dollar(p))
      BY <1>1, <2>3, NormalizedFacts
    <3>2. q(c) \in Quotation
      BY <3>1 DEF Quotation
    <3>3. QED
      BY <3>1, <3>2, Rounding
  <2>4. QED
    BY <2>1, <2>2, <2>3
<1>5. /\ \A c \in Currencies, d \in Days :
           rates'[c][d] = IF c \in Accepted(p) /\ d = t.day THEN Normalized(p)[c]
                          ELSE rates[c][d]
      /\ \A c \in Currencies, d \in Days :
           quoted'[c][d] = IF c \in Accepted(p) \ {USD} /\ d = t.day THEN q(c)
                           ELSE quoted[c][d]
  BY <1>2, <1>3
<1>6. rates' \in Table(Nat) /\ quoted' \in Table(Quotation)
  <2>1. \A c \in Currencies : /\ rates'[c] \in [Days -> Nat \cup {NULL}]
                              /\ quoted'[c] \in [Days -> Quotation \cup {NULL}]
    BY <1>2, <1>3, <1>4
  <2>2. QED
    BY <1>2, <2>1 DEF Table
<1>7. /\ \A c \in Accepted(p) \ {USD} : q(c).value = p.values[c] /\ q(c).dollar = Dollar(p)
      /\ NULL \notin Nat
  BY FxNullAssumption
<1> HIDE DEF t, p, q
<1>8. RatesFit'
  BY <1>4, <1>5 DEF RatesFit, FxInv
<1>9. \A c \in Currencies, d \in Days : rates[c][d] # NULL => rates'[c][d] # NULL
  BY <1>4, <1>5, <1>7
<1>10. NormalizedIsCrossRate'
  <2> SUFFICES ASSUME NEW c \in Currencies, NEW d \in Days
               PROVE  /\ c = USD /\ rates'[c][d] # NULL => rates'[c][d] = Scale
                      /\ quoted'[c][d] # NULL =>
                           LET v == quoted'[c][d]
                               error == rates'[c][d] * v.dollar - v.value * Scale
                           IN  /\ v.value > 0
                               /\ 2 * error <= v.dollar
                               /\ -2 * error <= v.dollar
    BY DEF NormalizedIsCrossRate
  <2>1. c = USD /\ rates'[c][d] # NULL => rates'[c][d] = Scale
    BY <1>8 DEF RatesFit
  <2>2. CASE c \in Accepted(p) \ {USD} /\ d = t.day
    <3>1. quoted'[c][d] = q(c) /\ rates'[c][d] = Normalized(p)[c]
      BY <1>5, <2>2
    <3>2. q(c).value \in Nat \ {0}
      BY <1>4, <2>2 DEF Quotation
    <3>3. QED
      BY <1>4, <1>7, <2>1, <2>2, <3>1, <3>2
  <2>3. CASE ~ (c \in Accepted(p) \ {USD} /\ d = t.day)
    <3>1. quoted'[c][d] = quoted[c][d]
      BY <1>5, <2>3
    <3>2. CASE c = USD
      <4>1. quoted'[c][d] = NULL
        BY <3>1, <3>2 DEF FxInv
      <4>2. QED
        BY <2>1, <4>1
    <3>3. CASE c # USD
      <4>1. rates'[c][d] = rates[c][d]
        BY <1>5, <2>3, <3>3
      <4>2. QED
        BY <2>1, <3>1, <4>1 DEF FxInv, NormalizedIsCrossRate
    <3>4. QED
      BY <3>2, <3>3
  <2>4. QED
    BY <2>2, <2>3
<1>11. \A d \in Days : quoted'[USD][d] = NULL
  BY <1>5, FxAssumption DEF FxInv
<1>12. QED
  BY <1>6, <1>8, <1>9, <1>10, <1>11

-----------------------------------------------------------------------------
(* The tasks that fill the table.                                          *)

(* What a worker may be doing. *)
GoodTask(t) ==
  t # NULL => /\ t \in Task
              /\ t.payload # NULL <=> t.phase = "store"
              /\ t.kind = "daily" => t.day <= DayOf(now)

LEMMA TasksAreGood ==
  FxTypeOK <=> /\ rates \in Table(Nat)
               /\ DOMAIN task = Workers /\ task = [w \in Workers |-> task[w]]
               /\ \A w \in Workers : GoodTask(task[w])
<1>1. ASSUME FxTypeOK
      PROVE  /\ rates \in Table(Nat)
             /\ DOMAIN task = Workers /\ task = [w \in Workers |-> task[w]]
             /\ \A w \in Workers : GoodTask(task[w])
  BY <1>1 DEF FxTypeOK, GoodTask
<1>2. ASSUME rates \in Table(Nat), DOMAIN task = Workers,
             task = [w \in Workers |-> task[w]], \A w \in Workers : GoodTask(task[w])
      PROVE  FxTypeOK
  <2>1. \A w \in Workers : task[w] \in Task \cup {NULL}
    BY <1>2 DEF GoodTask
  <2>2. task \in [Workers -> Task \cup {NULL}]
    BY <1>2, <2>1
  <2>3. QED
    BY <1>2, <2>2 DEF FxTypeOK, GoodTask
<1>3. QED
  BY <1>1, <1>2

LEMMA RunIsGood ==
  ASSUME NEW kind \in {"daily", "backfill"}, NEW day \in Days, NEW last \in Days,
         NEW retries \in 0 .. MaxRetries, kind = "daily" => day <= DayOf(now)
  PROVE  GoodTask(Run(kind, day, last, retries))
BY FxNullAssumption DEF GoodTask, Run, Task

LEMMA NextDayIsGood ==
  ASSUME NEW t \in Task
  PROVE  GoodTask(NextDay(t))
<1>1. t.kind = "backfill" /\ t.day < t.last => t.day + 1 \in Days
  BY DaysBounded DEF Task
<1>2. t.last \in Days /\ 0 \in 0 .. MaxRetries
  BY FxAssumption DEF Task
<1>3. CASE t.kind = "backfill" /\ t.day < t.last
  <2>1. GoodTask(Run("backfill", t.day + 1, t.last, 0))
    BY <1>1, <1>2, <1>3, RunIsGood
  <2>2. QED
    BY <1>3, <2>1 DEF NextDay
<1>4. CASE ~ (t.kind = "backfill" /\ t.day < t.last)
  BY <1>4 DEF NextDay, GoodTask
<1>5. QED
  BY <1>3, <1>4

LEMMA FailureIsGood ==
  ASSUME NEW t \in Task, t.kind = "daily" => t.day <= DayOf(now)
  PROVE  GoodTask(AfterFailure(t))
<1>1. CASE t.kind = "daily" /\ t.retries < MaxRetries
  <2>1. AfterFailure(t) = [t EXCEPT !.phase = "backoff", !.retries = t.retries + 1,
                                    !.payload = NULL]
    BY <1>1 DEF AfterFailure
  <2>2. t.retries + 1 \in 0 .. MaxRetries
    BY <1>1, FxAssumption DEF Task
  <2>3. QED
    BY <1>1, <2>1, <2>2 DEF GoodTask, Task
<1>2. CASE ~ (t.kind = "daily" /\ t.retries < MaxRetries)
  BY <1>2 DEF AfterFailure, GoodTask
<1>3. QED
  BY <1>1, <1>2

LEMMA AssignIsTyped ==
  ASSUME FxTypeOK, NEW w \in Workers, NEW t, GoodTask(t), Assign(w, t),
         now' = now, rates' \in Table(Nat)
  PROVE  FxTypeOK'
<1>1. /\ DOMAIN task = Workers /\ task = [v \in Workers |-> task[v]]
      /\ \A v \in Workers : GoodTask(task[v])
  BY TasksAreGood
<1>2. task' = [task EXCEPT ![w] = t]
  BY DEF Assign
<1>3. /\ DOMAIN task' = Workers /\ task' = [v \in Workers |-> task'[v]]
      /\ \A v \in Workers : task'[v] = IF v = w THEN t ELSE task[v]
  BY <1>1, <1>2
<1>4. \A v \in Workers : GoodTask(task'[v])
  BY <1>1, <1>3
<1>5. \A v \in Workers : GoodTask(task[v])'
  BY <1>4 DEF GoodTask
<1>6. \A v \in Workers : task'[v] \in Task \cup {NULL}
  BY <1>4 DEF GoodTask
<1>7. task' \in [Workers -> Task \cup {NULL}]
  BY <1>3, <1>6
<1>8. QED
  BY <1>5, <1>7 DEF FxTypeOK, GoodTask

(* What a step of the world leaves of the rates: none is ever taken away.  *)
RatesStay == \A c \in Currencies, d \in Days : rates[c][d] # NULL => rates'[c][d] # NULL

LEMMA RatesUnchanged ==
  ASSUME FxInv, FxTypeOK', UNCHANGED <<rates, quoted>>
  PROVE  FxInv' /\ RatesStay
BY DEF FxInv, RatesFit, NormalizedIsCrossRate, RatesStay

LEMMA StartKeepsRates ==
  ASSUME FxInv, LimiterTypeOK, NEW w \in Workers, StartTask(w)
  PROVE  FxInv' /\ RatesStay
<1>1. /\ DayOf(now) \in Days /\ 0 \in 0 .. MaxRetries /\ now' = now
      /\ UNCHANGED <<rates, quoted>> /\ FxTypeOK /\ rates' \in Table(Nat)
      /\ DayOf(now) <= DayOf(now)
  <2>1. DayOf(now) \in Days
    BY Calendar DEF LimiterTypeOK
  <2>2. QED
    BY <2>1, DaysBounded, FxAssumption
       DEF StartTask, StartDaily, StartBackfill, limiterVars, FxInv, FxTypeOK
<1>2. CASE StartDaily(w)
  <2>1. GoodTask(Run("daily", DayOf(now), DayOf(now), 0))
    BY <1>1, RunIsGood
  <2>2. FxTypeOK'
    BY <1>1, <1>2, <2>1, AssignIsTyped DEF StartDaily
  <2>3. QED
    BY <1>1, <2>2, RatesUnchanged
<1>3. ASSUME NEW first \in Days, NEW last \in Days, StartBackfill(w, first, last)
      PROVE  FxInv' /\ RatesStay
  <2>1. GoodTask(Run("backfill", first, last, 0))
    BY <1>1, RunIsGood
  <2>2. FxTypeOK'
    BY <1>1, <1>3, <2>1, AssignIsTyped DEF StartBackfill
  <2>3. QED
    BY <1>1, <2>2, RatesUnchanged
<1>4. QED
  BY <1>2, <1>3 DEF StartTask

(* A failed store, and a lost task. *)
LEMMA FaultKeepsRates ==
  ASSUME FxInv, now' = now, NEW w \in Workers, StoreFails(w) \/ LoseTask(w)
  PROVE  FxInv' /\ RatesStay
<1>1. /\ FxTypeOK /\ UNCHANGED <<rates, quoted>> /\ rates' \in Table(Nat)
      /\ task[w] # NULL /\ GoodTask(task[w])
  BY TasksAreGood DEF StoreFails, LoseTask, FxInv
<1>2. GoodTask(AfterFailure(task[w])) /\ GoodTask(NULL)
  BY <1>1, FailureIsGood DEF GoodTask
<1>3. FxTypeOK'
  <2>1. CASE StoreFails(w)
    BY <1>1, <1>2, <2>1, AssignIsTyped DEF StoreFails
  <2>2. CASE LoseTask(w)
    BY <1>1, <1>2, <2>2, AssignIsTyped DEF LoseTask
  <2>3. QED
    BY <2>1, <2>2
<1>4. QED
  BY <1>1, <1>3, RatesUnchanged

LEMMA TaskKeepsRates ==
  ASSUME FxInv, LimiterTypeOK, scenario \in DOMAIN Scenarios,
         NEW w \in Workers, TaskStep(w)
  PROVE  FxInv' /\ RatesStay
<1>1. now' = now /\ FxTypeOK /\ rates \in Table(Nat) /\ GoodTask(task[w])
  BY TasksAreGood DEF TaskStep, limiterVars, FxInv
<1>2. ASSUME NEW payload \in Given.payloads, FetchSucceeds(w, payload)
      PROVE  FxInv' /\ RatesStay
  <2>1. payload \in Payloads /\ payload # NULL
    BY <1>2, ParseAssumption, FxNullAssumption DEF Given, Scenario
  <2> DEFINE t == [task[w] EXCEPT !.phase = "store", !.payload = payload]
  <2>2. GoodTask(t)
    BY <1>1, <1>2, <2>1 DEF FetchSucceeds, GoodTask, Task
  <2>3. Assign(w, t) /\ UNCHANGED <<rates, quoted>>
    BY <1>2 DEF FetchSucceeds
  <2> HIDE DEF t
  <2>4. FxTypeOK'
    BY <1>1, <2>2, <2>3, AssignIsTyped
  <2>5. QED
    BY <2>3, <2>4, RatesUnchanged
<1>3. CASE FetchFails(w)
  <2> DEFINE t == IF task[w].kind = "daily" THEN AfterFailure(task[w]) ELSE NextDay(task[w])
  <2>1. GoodTask(t)
    BY <1>1, <1>3, FailureIsGood, NextDayIsGood DEF FetchFails, GoodTask
  <2>2. Assign(w, t) /\ UNCHANGED <<rates, quoted>>
    BY <1>3 DEF FetchFails
  <2> HIDE DEF t
  <2>3. FxTypeOK'
    BY <1>1, <2>1, <2>2, AssignIsTyped
  <2>4. QED
    BY <2>2, <2>3, RatesUnchanged
<1>4. CASE StoreRates(w)
  <2>1. /\ rates' \in Table(Nat) /\ quoted' \in Table(Quotation)
        /\ \A d \in Days : quoted'[USD][d] = NULL
        /\ RatesFit' /\ NormalizedIsCrossRate' /\ RatesStay
    BY <1>4, StoreKeepsRates DEF RatesStay
  <2>2. Assign(w, NextDay(task[w])) /\ task[w] # NULL
    BY <1>4 DEF StoreRates
  <2>3. GoodTask(NextDay(task[w]))
    BY <1>1, <2>2, NextDayIsGood DEF GoodTask
  <2>4. FxTypeOK'
    BY <1>1, <2>1, <2>2, <2>3, AssignIsTyped
  <2>5. QED
    BY <2>1, <2>4 DEF FxInv
<1>5. CASE Retry(w)
  <2>1. DayOf(now) \in Days /\ DayOf(now) <= DayOf(now) /\ task[w].retries \in 0 .. MaxRetries
    BY <1>1, <1>5, Calendar, DaysBounded DEF LimiterTypeOK, Retry, GoodTask, Task
  <2>2. GoodTask(Run("daily", DayOf(now), DayOf(now), task[w].retries))
    BY <2>1, RunIsGood
  <2>3. FxTypeOK'
    BY <1>1, <1>5, <2>2, AssignIsTyped DEF Retry
  <2>4. QED
    BY <1>5, <2>3, RatesUnchanged DEF Retry
<1>6. QED
  BY <1>1, <1>2, <1>3, <1>4, <1>5, FaultKeepsRates DEF TaskStep

LEMMA TickKeepsRates ==
  ASSUME FxInv, LimiterTypeOK, Tick, UNCHANGED fxVars
  PROVE  FxInv' /\ RatesStay
<1>1. now \in 0 .. Horizon /\ now' = now + 1 /\ now' \in 0 .. Horizon /\ Horizon \in Nat
  BY TickTyped, ClockAssumption DEF LimiterTypeOK
<1>2. DayOf(now) \in Nat /\ DayOf(now') \in Nat /\ DayOf(now) <= DayOf(now')
  <2>1. TicksPerSecond * SecondsPerDay \in Nat \ {0} /\ now \in Nat /\ now' \in Nat
    BY <1>1, ClockAssumption
  <2>2. QED
    BY <1>1, <2>1, Division, DivisionMonotone DEF DayOf
<1>3. FxTypeOK'
  <2>1. task' = task /\ rates' = rates /\ FxTypeOK
    BY DEF fxVars, FxInv
  <2>2. \A w \in Workers : task[w] # NULL => task[w].day \in Nat
    BY <2>1, DaysBounded DEF FxTypeOK, Task
  <2>3. QED
    BY <1>2, <2>1, <2>2 DEF FxTypeOK
<1>4. QED
  BY <1>3, RatesUnchanged DEF fxVars

-----------------------------------------------------------------------------
(* What the handlers stand on: everything that is not theirs.              *)

WorldInv ==
  /\ scenario \in DOMAIN Scenarios
  /\ LimiterTypeOK /\ AccountsInv /\ FxInv
  /\ ent \in [Users -> Row \cup {NULL}]
  /\ usage \in [Users -> [Months -> Nat]]
  /\ left \in [Kinds -> Nat]

(* How it changes, as far as a handler that waits can tell: rows and rates *)
(* stay, the clock does not go back, and a counter keeps its start and its *)
(* expiry until it is gone.                                                *)
CountersOnward ==
  \A s \in Scopes, w \in Windows :
    \/ counters[s][w] = NULL /\ counters'[s][w] = NULL
    \/ counters[s][w] = NULL /\ counters'[s][w] # NULL
       /\ counters'[s][w].started = now
    \/ counters[s][w] # NULL /\ counters'[s][w] = NULL
       /\ counters[s][w].expires <= now'
    \/ counters[s][w] # NULL /\ counters'[s][w] # NULL
       /\ counters'[s][w].started = counters[s][w].started
       /\ counters'[s][w].expires = counters[s][w].expires

Onward ==
  /\ scenario' = scenario
  /\ now \in Nat /\ now' \in Nat /\ now <= now'
  /\ accounts \subseteq accounts'
  /\ RatesStay
  /\ CountersOnward

LEMMA SpendTyped ==
  ASSUME left \in [Kinds -> Nat], NEW kind \in Kinds, Spend(kind)
  PROVE  left' \in [Kinds -> Nat]
<1>1. left[kind] \in Nat /\ left[kind] > 0 /\ left[kind] - 1 \in Nat
  BY DEF Spend, May
<1>2. left' = [left EXCEPT ![kind] = left[kind] - 1]
  BY DEF Spend
<1>3. QED
  BY <1>1, <1>2

(* Most steps of a handler leave it all alone. *)
LEMMA WorldStays ==
  ASSUME WorldInv, UNCHANGED worldVars, scenario' = scenario, left' \in [Kinds -> Nat]
  PROVE  WorldInv' /\ Onward
<1>1. /\ now' = now /\ counters' = counters /\ accounts' = accounts
      /\ rates' = rates /\ task' = task /\ quoted' = quoted /\ ent' = ent /\ usage' = usage
  BY DEF worldVars, limiterVars, fxVars
<1>2. LimiterTypeOK' /\ AccountsInv'
  BY <1>1 DEF WorldInv, LimiterTypeOK, AccountsInv, AccountsTypeOK, UniqueRows
<1>3. FxTypeOK'
  BY <1>1 DEF WorldInv, FxInv, FxTypeOK
<1>4. FxInv' /\ RatesStay
  BY <1>1, <1>3, RatesUnchanged DEF WorldInv
<1>5. now \in Nat
  BY ClockAssumption DEF WorldInv, LimiterTypeOK
<1>6. CountersOnward
  BY <1>1 DEF CountersOnward
<1>7. QED
  BY <1>1, <1>2, <1>4, <1>5, <1>6 DEF WorldInv, Onward

(* A hit, also one whose answer is lost. *)
LEMMA WorldCounts ==
  ASSUME WorldInv, NEW s \in Scopes, NEW w \in Windows, HitFails(s, w),
         UNCHANGED <<now, accounts, fxVars, ent, usage>>, scenario' = scenario,
         left' \in [Kinds -> Nat]
  PROVE  WorldInv' /\ Onward
<1>1. /\ now' = now /\ accounts' = accounts
      /\ rates' = rates /\ task' = task /\ quoted' = quoted /\ ent' = ent /\ usage' = usage
  BY DEF fxVars
<1>2. LimiterTypeOK'
  BY <1>1, HitTyped DEF WorldInv
<1>3. AccountsInv'
  BY <1>1 DEF WorldInv, AccountsInv, AccountsTypeOK, UniqueRows
<1>4. FxTypeOK'
  BY <1>1 DEF WorldInv, FxInv, FxTypeOK
<1>5. FxInv' /\ RatesStay
  BY <1>1, <1>4, RatesUnchanged DEF WorldInv
<1>6. now \in Nat
  BY ClockAssumption DEF WorldInv, LimiterTypeOK
<1>7. CountersOnward
  <2>1. CASE UNCHANGED counters
    BY <2>1 DEF CountersOnward
  <2>2. CASE Hit(s, w)
    <3>1. /\ counters'[s][w] # NULL
          /\ counters[s][w] = NULL => counters'[s][w].started = now
          /\ counters[s][w] # NULL =>
               /\ counters'[s][w].started = counters[s][w].started
               /\ counters'[s][w].expires = counters[s][w].expires
          /\ \A t \in Scopes, v \in Windows :
               t # s \/ v # w => counters'[t][v] = counters[t][v]
      BY <2>2, HitFacts, CounterAssumption DEF WorldInv
    <3>2. QED
      BY <3>1 DEF CountersOnward
  <2>3. QED
    BY <2>1, <2>2 DEF HitFails
<1>8. QED
  BY <1>1, <1>2, <1>3, <1>5, <1>6, <1>7 DEF WorldInv, Onward

(* A new row of the users table. *)
LEMMA WorldProvisions ==
  ASSUME WorldInv, NEW identity \in Identities, NEW email \in Emails \cup {NULL},
         InsertAccount(identity, email),
         UNCHANGED <<limiterVars, fxVars, ent, usage>>, scenario' = scenario,
         left' \in [Kinds -> Nat]
  PROVE  WorldInv' /\ Onward
<1>1. /\ now' = now /\ counters' = counters
      /\ rates' = rates /\ task' = task /\ quoted' = quoted /\ ent' = ent /\ usage' = usage
  BY DEF fxVars, limiterVars
<1>2. LimiterTypeOK'
  BY <1>1 DEF WorldInv, LimiterTypeOK
<1>3. AccountsInv' /\ accounts \subseteq accounts'
  BY InsertKeepsRows DEF WorldInv
<1>4. FxTypeOK'
  BY <1>1 DEF WorldInv, FxInv, FxTypeOK
<1>5. FxInv' /\ RatesStay
  BY <1>1, <1>4, RatesUnchanged DEF WorldInv
<1>6. now \in Nat
  BY ClockAssumption DEF WorldInv, LimiterTypeOK
<1>7. CountersOnward
  BY <1>1 DEF CountersOnward
<1>8. QED
  BY <1>1, <1>2, <1>3, <1>5, <1>6, <1>7 DEF WorldInv, Onward

(* The clock. *)
LEMMA WorldTicks ==
  ASSUME WorldInv, ClockTicks, scenario' = scenario
  PROVE  WorldInv' /\ Onward
<1>1. /\ accounts' = accounts /\ UNCHANGED fxVars /\ ent' = ent /\ usage' = usage
      /\ Tick /\ left' \in [Kinds -> Nat]
  BY SpendTyped DEF ClockTicks, Kinds, WorldInv
<1>2. LimiterTypeOK' /\ now' = now + 1 /\ now' \in 0 .. Horizon
  BY <1>1, TickTyped DEF WorldInv
<1>3. AccountsInv'
  BY <1>1 DEF WorldInv, AccountsInv, AccountsTypeOK, UniqueRows
<1>4. FxInv' /\ RatesStay
  BY <1>1, TickKeepsRates DEF WorldInv
<1>5. now \in Nat
  BY ClockAssumption DEF WorldInv, LimiterTypeOK
<1>6. CountersOnward
  <2>1. \A s \in Scopes, w \in Windows :
          counters'[s][w] = IF counters[s][w] # NULL /\ counters[s][w].expires <= now'
                            THEN NULL ELSE counters[s][w]
    BY <1>1 DEF Tick
  <2>2. QED
    BY <2>1 DEF CountersOnward
<1>7. QED
  BY <1>1, <1>2, <1>3, <1>4, <1>5, <1>6 DEF WorldInv, Onward

LEMMA ProposedTyped ==
  ASSUME NEW e \in Event, Handled(e)
  PROVE  Proposed(e) \in Row
<1>1. /\ EventState[e.type].tier \in Tiers /\ EventState[e.type].status \in Statuses
  BY DEF Handled, EventState, Tiers, Statuses
<1>2. ResolveStore(e.store) \in Stores \cup {NULL}
  BY DEF ResolveStore, Upper, StoreMap, Stores
<1>3. QED
  BY <1>1, <1>2 DEF Proposed, Row, Event

LEMMA MergedTyped ==
  ASSUME NEW e \in Event, Handled(e), NEW old \in Row \cup {NULL}
  PROVE  Merged(old, e) \in Row
<1>1. PICK new \in Row : new = Proposed(e)
  BY ProposedTyped
<1>2. CASE old = NULL
  BY <1>1, <1>2 DEF Merged
<1>3. CASE old # NULL
  <2>1. /\ old.product \in Products \cup {NULL} /\ old.store \in Stores \cup {NULL}
        /\ old.periodEnd \in Nat \cup {NULL}
    BY <1>3 DEF Row
  <2>2. PICK x \in Products \cup {NULL}, y \in Stores \cup {NULL}, z \in Nat \cup {NULL} :
          /\ x = IF new.product = NULL THEN old.product ELSE new.product
          /\ y = IF new.store = NULL THEN old.store ELSE new.store
          /\ z = IF new.periodEnd = NULL THEN old.periodEnd ELSE new.periodEnd
    BY <1>1, <2>1, ZenonT(30) DEF Row
  <2>3. Merged(old, e) = [new EXCEPT !.product = x, !.store = y, !.periodEnd = z]
    BY <1>1, <1>3, <2>2 DEF Merged
  <2>4. QED
    BY <2>2, <2>3 DEF Row
<1>4. QED
  BY <1>2, <1>3

(* Billing events and pushes, which no handler depends on, except through  *)
(* the gate.                                                               *)
LEMMA WorldBills ==
  ASSUME WorldInv, BillingEvent \/ PushLands, scenario' = scenario
  PROVE  WorldInv' /\ Onward
<1>1. /\ accounts' = accounts /\ UNCHANGED <<fxVars, limiterVars>>
      /\ left' \in [Kinds -> Nat]
  BY SpendTyped DEF BillingEvent, PushLands, Kinds, WorldInv
<1>2. ent' \in [Users -> Row \cup {NULL}]
  <2>1. CASE BillingEvent
    <3>1. PICK e \in Given.events : ent' = [ent EXCEPT ![e.user] = Merged(ent[e.user], e)]
      BY <2>1 DEF BillingEvent
    <3>2. e \in Event /\ Handled(e) /\ e.user # NULL
      BY ParseAssumption DEF WorldInv, Given, Scenario, Consistent
    <3>3. e.user \in Users
      BY <3>2 DEF Event
    <3>4. Merged(ent[e.user], e) \in Row
      BY <3>2, <3>3, MergedTyped DEF WorldInv
    <3>5. QED
      BY <3>1, <3>3, <3>4 DEF WorldInv
  <2>2. CASE PushLands
    BY <2>2 DEF PushLands, WorldInv
  <2>3. QED
    BY <2>1, <2>2
<1>3. usage' \in [Users -> [Months -> Nat]]
  <2>1. CASE BillingEvent
    BY <2>1 DEF BillingEvent, WorldInv
  <2>2. CASE PushLands
    <3>1. PICK a \in accounts, m \in Months :
            usage' = [usage EXCEPT ![a.user][m] = usage[a.user][m] + 1]
      BY <2>2 DEF PushLands
    <3>2. a.user \in Users
      BY DEF WorldInv, AccountsInv, AccountsTypeOK, Account
    <3>3. usage[a.user][m] + 1 \in Nat
      BY <3>2 DEF WorldInv
    <3>4. QED
      BY <3>1, <3>2, <3>3 DEF WorldInv
  <2>3. QED
    BY <2>1, <2>2
<1>4. /\ now' = now /\ counters' = counters
      /\ rates' = rates /\ task' = task /\ quoted' = quoted
  BY <1>1 DEF fxVars, limiterVars
<1>5. LimiterTypeOK' /\ AccountsInv'
  BY <1>1, <1>4 DEF WorldInv, LimiterTypeOK, AccountsInv, AccountsTypeOK, UniqueRows
<1>6. FxTypeOK'
  BY <1>4 DEF WorldInv, FxInv, FxTypeOK
<1>7. FxInv' /\ RatesStay
  BY <1>4, <1>6, RatesUnchanged DEF WorldInv
<1>8. now \in Nat /\ CountersOnward
  BY <1>4, ClockAssumption DEF WorldInv, LimiterTypeOK, CountersOnward
<1>9. QED
  BY <1>1, <1>2, <1>3, <1>4, <1>5, <1>7, <1>8 DEF WorldInv, Onward

(* The FX tasks. *)
LEMMA WorldIngests ==
  ASSUME WorldInv, scenario' = scenario, NEW w \in Workers,
         StartTask(w) \/ TaskStep(w) \/ TaskFault(w)
  PROVE  WorldInv' /\ Onward
<1>1. /\ now' = now /\ counters' = counters /\ accounts' = accounts
      /\ ent' = ent /\ usage' = usage
  BY DEF StartTask, TaskStep, TaskFault, limiterVars
<1>2. left' \in [Kinds -> Nat]
  BY SpendTyped DEF StartTask, TaskStep, TaskFault, WorldInv, Kinds
<1>3. FxInv' /\ RatesStay
  BY <1>1, StartKeepsRates, TaskKeepsRates, FaultKeepsRates DEF TaskFault, WorldInv
<1>4. LimiterTypeOK' /\ AccountsInv'
  BY <1>1 DEF WorldInv, LimiterTypeOK, AccountsInv, AccountsTypeOK, UniqueRows
<1>5. now \in Nat /\ CountersOnward
  BY <1>1, ClockAssumption DEF WorldInv, LimiterTypeOK, CountersOnward
<1>6. QED
  BY <1>1, <1>2, <1>3, <1>4, <1>5 DEF WorldInv, Onward

-----------------------------------------------------------------------------
(* A handler at p with the local variables c.                              *)

Unlocated == {"select", "insert", "refresh", "reselect"}
Located == {"minute", "day", "entitlement", "usage", "stt", "llm",
            "rate_from", "rate_to"}
Phases == Unlocated \cup Located \cup {"idle", "answer"}

(* Which of its variables it has set. *)
Control(p, c) ==
  /\ p \in Phases
  /\ p = "idle" <=> c = NULL
  /\ p # "idle" => /\ c \in Context
                   /\ c.reply # NULL <=> p = "answer"
                   /\ p \in Unlocated => c.account = NULL
                   /\ p \in Located => c.account # NULL
                   /\ p \in {"select", "refresh", "reselect"} => ~c.connected
                   /\ p = "day" => c.minute # NULL
                   /\ p \in Located =>
                        (c.answer # NULL <=> p \in {"rate_from", "rate_to"})
                   /\ p \notin {"rate_to", "answer"} => c.fromDay = NULL
                   /\ p # "answer" => c.toDay = NULL
                   /\ p = "rate_to" => c.rate # NULL

(* Whose request it serves, and why it reads the row once more.            *)
Identified(p, c) ==
  /\ c.account # NULL => /\ c.account \in accounts
                         /\ c.account.identity = c.req.identity
  /\ p = "refresh" => AccountsOf(c.req.identity) # {}
  /\ p = "reselect" => Clashes(c.req.identity, c.req.email)

(* A window that was open at t and ends at e: it is still there, or it is  *)
(* over and whatever is there now started after t.                         *)
EndsBy(s, w, t, e) ==
  /\ t \in Nat /\ e \in Nat /\ t < e
  /\ \/ now < e /\ counters[s][w] # NULL /\ counters[s][w].expires = e
     \/ /\ e <= now
        /\ counters[s][w] # NULL => t < counters[s][w].started

Timed(p, c) ==
  /\ p = "day" => /\ c.minute.at <= now
                  /\ EndsBy(Scope(c), "minute", c.minute.at, c.minute.at + c.minute.ttl)
  /\ c.refusal # NULL =>
       /\ c.account # NULL
       /\ \E e \in Nat : /\ e <= c.refusal.until
                         /\ EndsBy(Scope(c), c.refusal.window, c.refusal.hit, e)

(* What the conversion has read. *)
Spent(c) == SpentDay(c.answer, c.reference)

Within(day, known, spent) ==
  day # NULL => /\ day \in Days /\ day <= spent
                /\ \A d \in known : d <= day

Converted(p, c) ==
  c.answer # NULL =>
    /\ c.account # NULL
    /\ Convertible(c.answer)
    /\ Spent(c) \in Days
    /\ c.known.from \subseteq RateDays(c.answer.currency, Spent(c))
    /\ c.known.to \subseteq RateDays(c.account.base, Spent(c))
    /\ Within(c.fromDay, c.known.from, Spent(c))
    /\ Within(c.toDay, c.known.to, Spent(c))
    /\ c.known.from # {} /\ c.known.to # {} /\ c.reply # NULL =>
         c.base \/ c.reply = "error"

Sound(p, c) == Identified(p, c) /\ Timed(p, c) /\ Converted(p, c)
Fine(p, c) == Control(p, c) /\ (p # "idle" => Sound(p, c))

LEMMA ScopeTyped ==
  ASSUME NEW c \in Context, c.account # NULL
  PROVE  Scope(c) \in Scopes
<1>1. c.account \in Account /\ c.req \in Request
  BY DEF Context
<1>2. c.account.user \in Users /\ c.req.device \in Devices \cup {NULL}
  BY <1>1 DEF Account, Request
<1>3. QED
  BY <1>2, ParseAssumption DEF Scope

LEMMA EndsByStays ==
  ASSUME WorldInv, WorldInv', Onward, NEW s \in Scopes, NEW w \in Windows,
         NEW t, NEW e, EndsBy(s, w, t, e)
  PROVE  EndsBy(s, w, t, e)'
<1>1. /\ now \in Nat /\ now' \in Nat /\ now <= now'
      /\ t \in Nat /\ e \in Nat /\ t < e
  BY DEF Onward, EndsBy
<1>2. /\ counters[s][w] # NULL => /\ counters[s][w].started \in Nat
                                  /\ counters[s][w].expires \in Nat
                                  /\ now < counters[s][w].expires
      /\ counters'[s][w] # NULL => /\ counters'[s][w].started \in Nat
                                   /\ counters'[s][w].expires \in Nat
                                   /\ now' < counters'[s][w].expires
  BY DEF WorldInv, LimiterTypeOK, Counter
<1>3. \/ counters[s][w] = NULL /\ counters'[s][w] = NULL
      \/ counters[s][w] = NULL /\ counters'[s][w] # NULL
         /\ counters'[s][w].started = now
      \/ counters[s][w] # NULL /\ counters'[s][w] = NULL
         /\ counters[s][w].expires <= now'
      \/ counters[s][w] # NULL /\ counters'[s][w] # NULL
         /\ counters'[s][w].started = counters[s][w].started
         /\ counters'[s][w].expires = counters[s][w].expires
  BY DEF Onward, CountersOnward
<1>4. CASE now < e /\ counters[s][w] # NULL /\ counters[s][w].expires = e
  <2>1. CASE counters'[s][w] = NULL
    BY <1>1, <1>3, <1>4, <2>1 DEF EndsBy
  <2>2. CASE counters'[s][w] # NULL
    BY <1>1, <1>2, <1>3, <1>4, <2>2 DEF EndsBy
  <2>3. QED
    BY <2>1, <2>2
<1>5. CASE e <= now /\ (counters[s][w] # NULL => t < counters[s][w].started)
  BY <1>1, <1>2, <1>3, <1>5 DEF EndsBy
<1>6. QED
  BY <1>4, <1>5 DEF EndsBy

(* What holds of a handler still holds after a step that is not its own.   *)
LEMMA SoundStays ==
  ASSUME WorldInv, WorldInv', Onward, NEW p, NEW c, Control(p, c), p # "idle", Sound(p, c)
  PROVE  Sound(p, c)'
<1>1. /\ c \in Context /\ accounts \subseteq accounts' /\ RatesStay
      /\ now \in Nat /\ now' \in Nat /\ now <= now'
  BY DEF Control, Onward
<1>2. Identified(p, c)'
  BY <1>1 DEF Sound, Identified, AccountsOf, Clashes
<1>3. Timed(p, c)'
  <2>1. ASSUME p = "day"
        PROVE  /\ c.minute.at <= now'
               /\ EndsBy(Scope(c), "minute", c.minute.at, c.minute.at + c.minute.ttl)'
    <3>1. /\ c.minute.at <= now /\ c.minute.at \in Nat
          /\ EndsBy(Scope(c), "minute", c.minute.at, c.minute.at + c.minute.ttl)
      BY <2>1 DEF Sound, Timed, EndsBy
    <3>2. c.account # NULL /\ "minute" \in Windows
      BY <2>1 DEF Control, Located, Windows
    <3>3. Scope(c) \in Scopes
      BY <1>1, <3>2, ScopeTyped
    <3>4. QED
      BY <1>1, <3>1, <3>2, <3>3, EndsByStays
  <2>2. ASSUME c.refusal # NULL
        PROVE  /\ c.account # NULL
               /\ \E e \in Nat :
                    /\ e <= c.refusal.until
                    /\ EndsBy(Scope(c), c.refusal.window, c.refusal.hit, e)'
    <3>1. PICK e \in Nat : /\ e <= c.refusal.until
                           /\ EndsBy(Scope(c), c.refusal.window, c.refusal.hit, e)
      BY <2>2 DEF Sound, Timed
    <3>2. c.account # NULL /\ c.refusal \in Refusal
      BY <1>1, <2>2 DEF Sound, Timed, Context
    <3>3. Scope(c) \in Scopes /\ c.refusal.window \in Windows
      BY <1>1, <3>2, ScopeTyped DEF Refusal
    <3>4. EndsBy(Scope(c), c.refusal.window, c.refusal.hit, e)'
      BY <3>1, <3>3, EndsByStays
    <3>5. QED
      BY <3>1, <3>2, <3>4
  <2>3. QED
    BY <2>1, <2>2 DEF Timed, Scope
<1>4. Converted(p, c)'
  <2>1. ASSUME c.answer # NULL
        PROVE  /\ c.known.from \subseteq RateDays(c.answer.currency, Spent(c))'
               /\ c.known.to \subseteq RateDays(c.account.base, Spent(c))'
    <3>1. /\ c.account # NULL /\ Convertible(c.answer)
          /\ c.known.from \subseteq RateDays(c.answer.currency, Spent(c))
          /\ c.known.to \subseteq RateDays(c.account.base, Spent(c))
      BY <2>1 DEF Sound, Converted
    <3>2. c.answer.currency \in Currencies /\ c.account.base \in Currencies
      BY <1>1, <3>1 DEF Convertible, NormalizeCurrency, Context, Account
    <3>3. \A d \in Days : /\ rates[c.answer.currency][d] # NULL =>
                               rates'[c.answer.currency][d] # NULL
                          /\ rates[c.account.base][d] # NULL =>
                               rates'[c.account.base][d] # NULL
      BY <1>1, <3>2 DEF RatesStay
    <3>4. QED
      BY <3>1, <3>3 DEF RateDays, Spent
  <2>2. QED
    BY <2>1 DEF Sound, Converted, Spent
<1>5. QED
  BY <1>2, <1>3, <1>4 DEF Sound

(* A handler that is not idle waits, and then goes on from where it is.    *)
Occupies(c) == c # NULL /\ c.connected

HandlersInv ==
  /\ pc \in [Handlers -> Phases]
  /\ ctx \in [Handlers -> Context \cup {NULL}]
  /\ \A h \in Handlers : Fine(pc[h], ctx[h])

Goes(h, p, n) ==
  /\ pc' = [pc EXCEPT ![h] = p]
  /\ ctx' = [ctx EXCEPT ![h] = n]
  /\ Control(p, n)
  /\ p # "idle" => Sound(p, n)'
  /\ Occupies(n) => Occupies(ctx[h]) \/ Connections < Given.pool

LEMMA Replying ==
  ASSUME NEW p \in Located \cup Unlocated, NEW c, Control(p, c), Sound(p, c)',
         NEW reply \in Replies, NEW n, n = [c EXCEPT !.reply = reply],
         c.answer # NULL /\ c.known.from # {} /\ c.known.to # {} =>
           c.base \/ reply = "error"
  PROVE  Control("answer", n) /\ Sound("answer", n)'
<1>1. c \in Context /\ p # "idle" /\ reply # NULL
  BY ContextAssumption DEF Control, Located, Unlocated
<1>2. /\ n \in Context /\ n.reply = reply /\ n.req = c.req /\ n.account = c.account
      /\ n.refusal = c.refusal /\ n.answer = c.answer /\ n.reference = c.reference
      /\ n.known = c.known /\ n.fromDay = c.fromDay /\ n.toDay = c.toDay
      /\ n.base = c.base
  BY <1>1 DEF Context
<1>3. Control("answer", n)
  BY <1>1, <1>2, ContextAssumption DEF Control, Phases, Located, Unlocated
<1>4. Identified("answer", n)'
  BY <1>2 DEF Sound, Identified
<1>5. Timed("answer", n)'
  BY <1>2 DEF Sound, Timed, Scope
<1>6. Converted("answer", n)'
  BY <1>2 DEF Sound, Converted, Spent
<1>7. QED
  BY <1>3, <1>4, <1>5, <1>6 DEF Sound

(* Before its user is known, a request has nothing else. *)
LEMMA Nothing ==
  ASSUME NEW p \in Unlocated, NEW c, Control(p, c), Sound(p, c)'
  PROVE  /\ c \in Context /\ c.account = NULL /\ c.refusal = NULL /\ c.reply = NULL
         /\ c.answer = NULL /\ c.fromDay = NULL /\ c.toDay = NULL
BY DEF Control, Unlocated, Sound, Timed, Converted

LEMMA Locating ==
  ASSUME WorldInv', NEW p \in Unlocated, NEW c, Control(p, c), Sound(p, c)',
         NEW a \in accounts', a.identity = c.req.identity,
         NEW n, n = [c EXCEPT !.account = a, !.connected = TRUE]
  PROVE  Control("minute", n) /\ Sound("minute", n)'
<1>1. /\ c \in Context /\ c.account = NULL
      /\ c.answer = NULL /\ c.fromDay = NULL /\ c.toDay = NULL /\ c.refusal = NULL
      /\ c.reply = NULL
  BY Nothing
<1>2. a \in Account /\ a # NULL
  BY RowAssumption DEF WorldInv, AccountsInv, AccountsTypeOK
<1>3. /\ n \in Context /\ n.reply = NULL /\ n.req = c.req /\ n.account = a
      /\ n.refusal = NULL
      /\ n.answer = NULL /\ n.fromDay = NULL /\ n.toDay = NULL
  BY <1>1, <1>2 DEF Context
<1>4. Control("minute", n)
  BY <1>2, <1>3, ContextAssumption DEF Control, Phases, Located, Unlocated
<1>5. Sound("minute", n)'
  BY <1>2, <1>3, ContextAssumption
     DEF Sound, Identified, Timed, Converted, Replies
<1>6. QED
  BY <1>4, <1>5

(* Its other steps keep what is known of it, when they keep its user, its  *)
(* refusal and its answer.                                                 *)
LEMMA GoingOn ==
  ASSUME NEW p \in Located, NEW c, Control(p, c), Sound(p, c)',
         NEW q \in Located \ {"day", "rate_from", "rate_to"}, NEW n \in Context,
         n.req = c.req, n.account = c.account, n.refusal = c.refusal,
         n.answer = NULL /\ n.fromDay = NULL /\ n.toDay = NULL, n.reply = NULL
  PROVE  Control(q, n) /\ Sound(q, n)'
<1>1. c \in Context /\ c.account # NULL
  BY DEF Control, Located
<1>2. Control(q, n)
  BY <1>1, ContextAssumption DEF Control, Phases, Located, Unlocated
<1>3. Sound(q, n)'
  BY <1>1, ContextAssumption
     DEF Sound, Identified, Timed, Converted, Scope, Located, Unlocated, Replies
<1>4. QED
  BY <1>2, <1>3

LEMMA Waits ==
  ASSUME WorldInv, WorldInv', Onward, HandlersInv, NEW h \in Handlers, pc[h] # "idle"
  PROVE  \E p, c : p = pc[h] /\ c = ctx[h] /\ Control(p, c) /\ p # "idle" /\ Sound(p, c)'
<1>1. PICK p, c : p = pc[h] /\ c = ctx[h]
  OBVIOUS
<1>2. Control(p, c) /\ p # "idle" /\ Sound(p, c)
  BY <1>1 DEF HandlersInv, Fine
<1>3. Sound(p, c)'
  BY <1>2, SoundStays
<1>4. QED
  BY <1>1, <1>2, <1>3

(* The conclusion of the lemmas on a handler's steps. *)
Steps(h) == WorldInv' /\ Onward /\ \E p, n : Goes(h, p, n)

LEMMA BegunTyped ==
  ASSUME NEW r \in Request
  PROVE  /\ Begun(r) \in Context /\ Begun(r).reply = NULL
         /\ Begun(r).account = NULL
         /\ Begun(r).answer = NULL /\ Begun(r).fromDay = NULL /\ Begun(r).toDay = NULL
         /\ Begun(r).refusal = NULL /\ ~Begun(r).connected
<1>1. 0 \in Days /\ 0 \in Months
  <2>1. 0 \in 0 .. Horizon /\ Horizon \in 0 .. Horizon
    BY ClockAssumption
  <2>2. MonthOf(Horizon) \in Nat
    BY <2>1, Calendar DEF Months
  <2>3. QED
    BY <2>2, DaysBounded DEF Months
<1>2. QED
  BY <1>1 DEF Begun, Context

LEMMA Arriving ==
  ASSUME WorldInv, HandlersInv, NEW h \in Handlers, Arrive(h), scenario' = scenario
  PROVE  Steps(h)
<1>1. PICK r \in Given.requests :
        \/ /\ r.token
           /\ Move(h, "idle", "select", Begun(r))
           /\ Spend("request")
        \/ /\ Reply(h, "idle", Begun(r), "unauthorized")
           /\ Spend("request")
        \/ /\ May("request") /\ May("keys")
           /\ \E reply \in {"unauthorized", "error"} :
                Reply(h, "idle", Begun(r), reply)
           /\ left' = [left EXCEPT !["request"] = @ - 1, !["keys"] = @ - 1]
  BY DEF Arrive
<1>2. r \in Request
  BY ParseAssumption DEF Given, Scenario, WorldInv
<1>3. left \in [Kinds -> Nat] /\ "request" \in Kinds /\ "keys" \in Kinds
      /\ UNCHANGED worldVars
  BY DEF WorldInv, Kinds, Arrive
<1>4. left' \in [Kinds -> Nat]
  <2>1. CASE Spend("request")
    BY <1>3, <2>1, SpendTyped
  <2>2. CASE /\ May("request") /\ May("keys")
             /\ left' = [left EXCEPT !["request"] = @ - 1, !["keys"] = @ - 1]
    <3>1. PICK k, q : /\ k = left["keys"] /\ q = left["request"]
                      /\ k \in Nat /\ q \in Nat /\ q > 0 /\ k > 0
      BY <1>3, <2>2 DEF May
    <3>2. left' = [left EXCEPT !["request"] = q - 1, !["keys"] = k - 1]
      BY <2>2, <3>1
    <3>3. q - 1 \in Nat /\ k - 1 \in Nat
      BY <3>1
    <3>4. QED
      BY <1>3, <3>2, <3>3
  <2>3. QED
    BY <1>1, <2>1, <2>2
<1>5. WorldInv' /\ Onward
  BY <1>3, <1>4, WorldStays
<1>6. /\ Begun(r) \in Context /\ Begun(r).reply = NULL
      /\ Begun(r).account = NULL
      /\ Begun(r).answer = NULL /\ Begun(r).fromDay = NULL /\ Begun(r).toDay = NULL
      /\ Begun(r).refusal = NULL /\ ~Begun(r).connected
  BY <1>2, BegunTyped
<1>7. CASE Move(h, "idle", "select", Begun(r))
  <2>1. PICK n : n = Begun(r)
    OBVIOUS
  <2>2. Control("select", n)
    BY <1>6, <2>1, ContextAssumption DEF Control, Phases, Located, Unlocated
  <2>3. Sound("select", n)'
    BY <1>6, <2>1, ContextAssumption
       DEF Sound, Identified, Timed, Converted, Replies
  <2>4. Goes(h, "select", n)
    BY <1>6, <1>7, <2>1, <2>2, <2>3 DEF Goes, Move, Occupies
  <2>5. QED
    BY <1>5, <2>4 DEF Steps
<1>8. ASSUME NEW reply \in {"unauthorized", "error"}, Reply(h, "idle", Begun(r), reply)
      PROVE  Steps(h)
  <2>1. PICK b, n : b = Begun(r) /\ n = [b EXCEPT !.reply = reply]
    OBVIOUS
  <2>2. reply \in Replies
    BY DEF Replies
  <2>3. /\ n \in Context /\ n.reply = reply /\ n.account = NULL
        /\ n.answer = NULL /\ n.fromDay = NULL /\ n.toDay = NULL /\ n.refusal = NULL
        /\ ~n.connected
    BY <1>6, <2>1, <2>2 DEF Context
  <2>4. Control("answer", n)
    BY <2>2, <2>3, ContextAssumption DEF Control, Phases, Located, Unlocated
  <2>5. Sound("answer", n)'
    BY <2>3 DEF Sound, Identified, Timed, Converted
  <2>6. Goes(h, "answer", n)
    BY <1>8, <2>1, <2>3, <2>4, <2>5 DEF Goes, Reply, Move, Occupies
  <2>7. QED
    BY <1>5, <2>6 DEF Steps
<1>9. QED
  BY <1>1, <1>7, <1>8

(* SELECT: its row, or none. *)
LEMMA Selecting ==
  ASSUME WorldInv, HandlersInv, NEW h \in Handlers, SelectUser(h), scenario' = scenario
  PROVE  Steps(h)
<1>1. /\ UNCHANGED <<worldVars, left>> /\ Connections < Given.pool
      /\ pc[h] = "select"
  BY DEF SelectUser, Move
<1>2. WorldInv' /\ Onward /\ accounts' = accounts
  BY <1>1, WorldStays DEF worldVars, WorldInv
<1>3. PICK c : c = ctx[h] /\ Control("select", c) /\ Sound("select", c)'
  BY <1>1, <1>2, Waits
<1>4. ASSUME NEW a \in AccountsOf(c.req.identity),
             Move(h, "select", "minute", [c EXCEPT !.account = a, !.connected = TRUE])
      PROVE  Steps(h)
  <2>1. PICK n : n = [c EXCEPT !.account = a, !.connected = TRUE]
    OBVIOUS
  <2>2. a \in accounts' /\ a.identity = c.req.identity /\ "select" \in Unlocated
    BY <1>2, <1>4 DEF AccountsOf, Unlocated
  <2>3. Control("minute", n) /\ Sound("minute", n)'
    BY <1>2, <1>3, <2>1, <2>2, Locating
  <2>4. Goes(h, "minute", n)
    BY <1>1, <1>4, <2>1, <2>3 DEF Goes, Move
  <2>5. QED
    BY <1>2, <2>4 DEF Steps
<1>5. CASE Move(h, "select", "insert", [c EXCEPT !.connected = TRUE])
  <2>1. PICK n : n = [c EXCEPT !.connected = TRUE]
    OBVIOUS
  <2>2. /\ c \in Context /\ c.account = NULL
        /\ c.answer = NULL /\ c.fromDay = NULL /\ c.toDay = NULL /\ c.refusal = NULL
        /\ c.reply = NULL
    BY <1>3, Nothing DEF Unlocated
  <2>3. /\ n \in Context /\ n.account = NULL
        /\ n.answer = NULL /\ n.fromDay = NULL /\ n.toDay = NULL /\ n.refusal = NULL
        /\ n.reply = NULL
    BY <2>1, <2>2 DEF Context
  <2>4. Control("insert", n)
    BY <2>3, ContextAssumption DEF Control, Phases, Located, Unlocated
  <2>5. Sound("insert", n)'
    BY <2>3, ContextAssumption
       DEF Sound, Identified, Timed, Converted, Replies
  <2>6. Goes(h, "insert", n)
    BY <1>1, <1>5, <2>1, <2>4, <2>5 DEF Goes, Move
  <2>7. QED
    BY <1>2, <2>6 DEF Steps
<1>6. QED
  BY <1>3, <1>4, <1>5 DEF SelectUser

LEMMA TimingOut ==
  ASSUME WorldInv, HandlersInv, NEW h \in Handlers, PoolTimeout(h), scenario' = scenario
  PROVE  Steps(h)
<1>1. /\ UNCHANGED <<worldVars, left>> /\ pc[h] \in {"select", "refresh", "reselect"}
      /\ Reply(h, pc[h], ctx[h], "error")
  BY DEF PoolTimeout
<1>2. WorldInv' /\ Onward
  BY <1>1, WorldStays DEF WorldInv
<1>3. PICK p, c : p = pc[h] /\ c = ctx[h] /\ Control(p, c) /\ Sound(p, c)'
  BY <1>1, <1>2, Waits
<1>4. PICK n : n = [c EXCEPT !.reply = "error"]
  OBVIOUS
<1>5. p \in Unlocated /\ "error" \in Replies /\ ~c.connected /\ c \in Context
  BY <1>1, <1>3 DEF Unlocated, Replies, Control
<1>6. ~n.connected
  BY <1>4, <1>5 DEF Context
<1>7. c.answer = NULL
  BY <1>3, <1>5, Nothing
<1>8. Control("answer", n) /\ Sound("answer", n)'
  BY <1>3, <1>4, <1>5, <1>7, Replying
<1>9. Goes(h, "answer", n)
  BY <1>1, <1>3, <1>4, <1>6, <1>8 DEF Goes, Reply, Move, Occupies
<1>10. QED
  BY <1>2, <1>9 DEF Steps

(* INSERT: a row of its own, or somebody else's in the way. *)
LEMMA Provisioning ==
  ASSUME WorldInv, HandlersInv, NEW h \in Handlers, Provision(h), scenario' = scenario
  PROVE  Steps(h)
<1>1. PICK c : c = ctx[h]
  OBVIOUS
<1> DEFINE n == [c EXCEPT !.connected = FALSE]
<1>2. /\ pc[h] = "insert" /\ UNCHANGED <<limiterVars, fxVars, ent, usage, left>>
      /\ \/ /\ InsertAccount(c.req.identity, c.req.email)
            /\ Move(h, "insert", "refresh", n)
         \/ /\ Clashes(c.req.identity, c.req.email)
            /\ Move(h, "insert", "reselect", n)
            /\ UNCHANGED accounts
  BY <1>1 DEF Provision, Move
<1>3. Control("insert", c) /\ c \in Context /\ Sound("insert", c)
  BY <1>1, <1>2 DEF HandlersInv, Fine, Control
<1>4. c.req.identity \in Identities /\ c.req.email \in Emails \cup {NULL}
  BY <1>3 DEF Context, Request
<1>5. WorldInv' /\ Onward
  <2>1. CASE InsertAccount(c.req.identity, c.req.email)
    BY <1>2, <1>4, <2>1, WorldProvisions DEF WorldInv
  <2>2. CASE UNCHANGED accounts
    BY <1>2, <2>2, WorldStays DEF worldVars, WorldInv
  <2>3. QED
    BY <1>2, <2>1, <2>2
<1>6. Sound("insert", c)'
  BY <1>3, <1>5, SoundStays
<1>7. /\ c.account = NULL
      /\ c.answer = NULL /\ c.fromDay = NULL /\ c.toDay = NULL /\ c.refusal = NULL /\ c.reply = NULL
  BY <1>3, <1>6, Nothing DEF Unlocated
<1>8. /\ n \in Context /\ n.account = NULL
      /\ n.answer = NULL /\ n.fromDay = NULL /\ n.toDay = NULL /\ n.refusal = NULL
      /\ n.reply = NULL /\ n.req = c.req /\ ~n.connected
  BY <1>3, <1>7 DEF Context
<1> HIDE DEF n
<1>9. PICK m : m = n
  OBVIOUS
<1>10. CASE /\ InsertAccount(c.req.identity, c.req.email)
            /\ Move(h, "insert", "refresh", n)
  <2>1. \E a \in accounts' : a.identity = m.req.identity
    BY <1>4, <1>8, <1>9, <1>10, InsertKeepsRows DEF WorldInv
  <2>2. Control("refresh", m)
    BY <1>8, <1>9, ContextAssumption DEF Control, Phases, Located, Unlocated
  <2>3. Sound("refresh", m)'
    BY <1>8, <1>9, <2>1, ContextAssumption
       DEF Sound, Identified, Timed, Converted, Replies, AccountsOf
  <2>4. Goes(h, "refresh", m)
    BY <1>8, <1>9, <1>10, <2>2, <2>3 DEF Goes, Move, Occupies
  <2>5. QED
    BY <1>5, <2>4 DEF Steps
<1>11. CASE /\ Clashes(c.req.identity, c.req.email)
            /\ Move(h, "insert", "reselect", n)
            /\ UNCHANGED accounts
  <2>1. Clashes(m.req.identity, m.req.email)'
    BY <1>8, <1>9, <1>11 DEF Clashes
  <2>2. Control("reselect", m)
    BY <1>8, <1>9, ContextAssumption DEF Control, Phases, Located, Unlocated
  <2>3. Sound("reselect", m)'
    BY <1>8, <1>9, <2>1, ContextAssumption
       DEF Sound, Identified, Timed, Converted, Replies
  <2>4. Goes(h, "reselect", m)
    BY <1>8, <1>9, <1>11, <2>2, <2>3 DEF Goes, Move, Occupies
  <2>5. QED
    BY <1>5, <2>4 DEF Steps
<1>12. QED
  BY <1>2, <1>10, <1>11

(* The second SELECT, which may find no row if the email is taken.         *)
LEMMA Rereading ==
  ASSUME WorldInv, HandlersInv, NEW h \in Handlers, Reread(h), scenario' = scenario
  PROVE  Steps(h)
<1>1. /\ UNCHANGED <<worldVars, left>> /\ pc[h] \in {"refresh", "reselect"}
      /\ Connections < Given.pool
  BY DEF Reread
<1>2. WorldInv' /\ Onward /\ accounts' = accounts
  BY <1>1, WorldStays DEF WorldInv, worldVars
<1>3. PICK p, c : p = pc[h] /\ c = ctx[h] /\ Control(p, c) /\ Sound(p, c)'
  BY <1>1, <1>2, Waits
<1>4. p \in Unlocated
  BY <1>1, <1>3 DEF Unlocated
<1>5. /\ c \in Context /\ c.account = NULL
      /\ c.answer = NULL /\ c.fromDay = NULL /\ c.toDay = NULL /\ c.refusal = NULL
      /\ c.reply = NULL
  BY <1>3, <1>4, Nothing
<1> DEFINE next == [c EXCEPT !.connected = TRUE]
<1>6. \/ \E a \in AccountsOf(c.req.identity) : Move(h, p, "minute", [next EXCEPT !.account = a])
      \/ AccountsOf(c.req.identity) = {} /\ Reply(h, p, next, "error")
  BY <1>3 DEF Reread
<1>7. ASSUME NEW a \in AccountsOf(c.req.identity),
             Move(h, p, "minute", [next EXCEPT !.account = a])
      PROVE  Steps(h)
  <2>1. PICK n : n = [c EXCEPT !.account = a, !.connected = TRUE]
    OBVIOUS
  <2>2. a \in accounts' /\ a.identity = c.req.identity
    BY <1>2, <1>7 DEF AccountsOf
  <2>3. Control("minute", n) /\ Sound("minute", n)'
    BY <1>2, <1>3, <1>4, <2>1, <2>2, Locating
  <2>4. n = [next EXCEPT !.account = a]
    BY <1>5, <2>1 DEF Context
  <2>5. Goes(h, "minute", n)
    BY <1>1, <1>7, <2>3, <2>4 DEF Goes, Move
  <2>6. QED
    BY <1>2, <2>5 DEF Steps
<1>8. CASE AccountsOf(c.req.identity) = {} /\ Reply(h, p, next, "error")
  <2>1. PICK m : m = next
    OBVIOUS
  <2>2. /\ m \in Context /\ m.account = NULL
        /\ m.answer = NULL /\ m.fromDay = NULL /\ m.toDay = NULL
        /\ m.refusal = NULL /\ m.reply = NULL
    BY <1>5, <2>1 DEF Context
  <2>3. PICK n : n = [m EXCEPT !.reply = "error"]
    OBVIOUS
  <2>4. "error" \in Replies
    BY DEF Replies
  <2>5. /\ n \in Context /\ n.reply = "error" /\ n.account = NULL
        /\ n.answer = NULL /\ n.fromDay = NULL /\ n.toDay = NULL /\ n.refusal = NULL
    BY <2>2, <2>3, <2>4 DEF Context
  <2>6. Control("answer", n)
    BY <2>4, <2>5, ContextAssumption DEF Control, Phases, Located, Unlocated
  <2>7. Sound("answer", n)'
    BY <2>5 DEF Sound, Identified, Timed, Converted
  <2>8. Goes(h, "answer", n)
    BY <1>1, <1>8, <2>1, <2>3, <2>6, <2>7 DEF Goes, Reply, Move
  <2>9. QED
    BY <1>2, <2>8 DEF Steps
<1>9. QED
  BY <1>6, <1>7, <1>8

(* A request that is let through, or is too large. *)
LEMMA Passing ==
  ASSUME WorldInv', Onward, NEW h \in Handlers, NEW p \in {"minute", "day"}, NEW c,
         c = ctx[h], Control(p, c), Sound(p, c)', PassLimiter(h, p, c)
  PROVE  \E q, n : Goes(h, q, n)
<1>1. /\ c \in Context /\ c.account # NULL
      /\ c.answer = NULL /\ c.fromDay = NULL /\ c.toDay = NULL /\ c.reply = NULL
      /\ p \in Located
  BY DEF Control, Located, Unlocated
<1>2. CASE Move(h, p, "entitlement", c)
  <2>1. "entitlement" \in Located \ {"day", "rate_from", "rate_to"}
    BY DEF Located
  <2>2. Control("entitlement", c) /\ Sound("entitlement", c)'
    BY <1>1, <2>1, GoingOn
  <2>3. Goes(h, "entitlement", c)
    BY <1>2, <2>2 DEF Goes, Move
  <2>4. QED
    BY <2>3
<1>3. CASE Reply(h, p, c, "too_large")
  <2>1. PICK n : n = [c EXCEPT !.reply = "too_large"]
    OBVIOUS
  <2>2. "too_large" \in Replies
    BY DEF Replies
  <2>3. Control("answer", n) /\ Sound("answer", n)'
    BY <1>1, <2>1, <2>2, Replying
  <2>4. n.connected = c.connected /\ n # NULL /\ c # NULL
    BY <1>1, <2>1, <2>2, ContextAssumption DEF Context
  <2>5. Goes(h, "answer", n)
    BY <1>3, <2>1, <2>3, <2>4 DEF Goes, Reply, Move, Occupies
  <2>6. QED
    BY <2>5
<1>4. QED
  BY <1>2, <1>3 DEF PassLimiter

LEMMA Failing ==
  ASSUME WorldInv, HandlersInv, NEW h \in Handlers, NEW p \in {"minute", "day"},
         pc[h] = p, RedisFails(h, p), scenario' = scenario
  PROVE  Steps(h)
<1>1. PICK c : c = ctx[h] /\ Control(p, c)
  BY DEF HandlersInv, Fine
<1>2. /\ c \in Context /\ c.account # NULL
      /\ c.answer = NULL /\ c.fromDay = NULL /\ c.toDay = NULL /\ c.reply = NULL
      /\ p \in Located /\ p \in Windows /\ p # "idle"
  BY <1>1 DEF Control, Located, Unlocated, Windows
<1>3. Scope(c) \in Scopes
  BY <1>2, ScopeTyped
<1>4. /\ HitFails(Scope(c), p) /\ Spend("redis")
      /\ UNCHANGED <<now, accounts, fxVars, ent, usage>>
      /\ IF Given.failOpen THEN PassLimiter(h, p, c)
                           ELSE Reply(h, p, c, "unavailable")
  BY <1>1 DEF RedisFails
<1>5. left' \in [Kinds -> Nat]
  BY <1>4, SpendTyped DEF WorldInv, Kinds
<1>6. WorldInv' /\ Onward
  BY <1>2, <1>3, <1>4, <1>5, WorldCounts
<1>7. Sound(p, c)'
  BY <1>1, <1>2, <1>6, Waits
<1>8. CASE PassLimiter(h, p, c)
  BY <1>1, <1>6, <1>7, <1>8, Passing DEF Steps
<1>9. CASE Reply(h, p, c, "unavailable")
  <2>1. PICK n : n = [c EXCEPT !.reply = "unavailable"]
    OBVIOUS
  <2>2. "unavailable" \in Replies
    BY DEF Replies
  <2>3. n.connected = c.connected /\ n # NULL /\ c # NULL
    BY <1>2, <2>1, <2>2, ContextAssumption DEF Context
  <2>4. Control("answer", n) /\ Sound("answer", n)'
    BY <1>1, <1>2, <1>7, <2>1, <2>2, Replying
  <2>5. Goes(h, "answer", n)
    BY <1>1, <1>9, <2>1, <2>3, <2>4 DEF Goes, Reply, Move, Occupies
  <2>6. QED
    BY <1>6, <2>5 DEF Steps
<1>10. QED
  BY <1>4, <1>8, <1>9

(* A window that is hit ends with its key. *)
LEMMA HitEnds ==
  ASSUME WorldInv, NEW s \in Scopes, NEW w \in Windows, Hit(s, w), now' = now
  PROVE  /\ Answer(counters'[s][w]).count \in Nat
         /\ Answer(counters'[s][w]).ttl \in Nat
         /\ now \in Nat
         /\ \E t, e : /\ t = now /\ e = now + Answer(counters'[s][w]).ttl
                     /\ EndsBy(s, w, t, e)'
<1>1. now \in Nat
  BY ClockAssumption DEF WorldInv, LimiterTypeOK
<1>2. /\ counters'[s][w] \in Counter /\ counters'[s][w].expires > now
      /\ Answer(counters'[s][w]).count \in Nat /\ Answer(counters'[s][w]).ttl \in Nat \ {0}
      /\ Answer(counters'[s][w]).ttl = counters'[s][w].expires - now
  BY HitFacts DEF WorldInv
<1>3. PICK e \in Nat : e = counters'[s][w].expires
  BY <1>2 DEF Counter
<1>4. PICK t : t = now
  OBVIOUS
<1>5. EndsBy(s, w, t, e)'
  BY <1>1, <1>2, <1>3, <1>4, CounterAssumption DEF EndsBy
<1>6. e = now + Answer(counters'[s][w]).ttl
  BY <1>1, <1>2, <1>3
<1>7. QED
  BY <1>1, <1>2, <1>4, <1>5, <1>6

LEMMA HittingMinute ==
  ASSUME WorldInv, HandlersInv, NEW h \in Handlers, HitMinute(h), scenario' = scenario
  PROVE  Steps(h)
<1>1. /\ pc[h] = "minute" /\ UNCHANGED <<now, accounts, fxVars, ent, usage, left>>
  BY DEF HitMinute
<1>2. PICK c : c = ctx[h] /\ Control("minute", c)
  BY <1>1 DEF HandlersInv, Fine
<1>3. /\ c \in Context /\ c.account # NULL
      /\ c.answer = NULL /\ c.fromDay = NULL /\ c.toDay = NULL /\ c.reply = NULL
      /\ "minute" \in Located /\ "minute" \in Windows
  BY <1>2 DEF Control, Located, Unlocated, Windows
<1>4. PICK s \in Scopes : s = Scope(c)
  BY <1>3, ScopeTyped
<1>5. PICK m : m = [count |-> Answer(counters'[s]["minute"]).count,
                    ttl |-> Answer(counters'[s]["minute"]).ttl, at |-> now]
  OBVIOUS
<1>6. PICK n : n = [c EXCEPT !.minute = m]
  OBVIOUS
<1>7. Hit(s, "minute") /\ Move(h, "minute", "day", n)
  BY <1>2, <1>4, <1>5, <1>6 DEF HitMinute
<1>8. WorldInv' /\ Onward
  BY <1>1, <1>3, <1>7, WorldCounts DEF HitFails, WorldInv
<1>9. Sound("minute", c)'
  BY <1>1, <1>2, <1>8, Waits
<1>10. /\ m \in MinuteHit /\ m # NULL
       /\ m.at <= now' /\ EndsBy(s, "minute", m.at, m.at + m.ttl)'
  <2>1. /\ Answer(counters'[s]["minute"]).count \in Nat
        /\ Answer(counters'[s]["minute"]).ttl \in Nat /\ now \in Nat
    BY <1>1, <1>3, <1>7, HitEnds
  <2>2. PICK t, e : /\ t = now /\ e = now + Answer(counters'[s]["minute"]).ttl
                    /\ EndsBy(s, "minute", t, e)'
    BY <1>1, <1>3, <1>7, HitEnds
  <2>3. m.at = t /\ m.at + m.ttl = e
    BY <1>5, <2>2
  <2>4. PICK x, y : x = m.at /\ y = m.at + m.ttl
    OBVIOUS
  <2>5. EndsBy(s, "minute", x, y)'
    BY <2>2, <2>3, <2>4
  <2>6. EndsBy(s, "minute", m.at, m.at + m.ttl)'
    BY <2>4, <2>5
  <2>7. m \in MinuteHit
    BY <1>5, <2>1 DEF MinuteHit
  <2>8. m.at <= now'
    BY <1>1, <1>5, <2>1
  <2>9. QED
    BY <2>6, <2>7, <2>8, ContextAssumption
<1>11. /\ n \in Context /\ n.minute = m /\ n.req = c.req /\ n.account = c.account
       /\ n.refusal = c.refusal
       /\ n.answer = NULL /\ n.fromDay = NULL /\ n.toDay = NULL /\ n.reply = NULL
       /\ n.connected = c.connected
  BY <1>3, <1>6, <1>10 DEF Context
<1>12. Scope(n) = s
  BY <1>4, <1>11 DEF Scope
<1>13. Control("day", n)
  BY <1>3, <1>10, <1>11, ContextAssumption DEF Control, Phases, Located, Unlocated
<1>14. Sound("day", n)'
  <2>1. Identified("day", n)'
    BY <1>9, <1>11 DEF Sound, Identified
  <2>2. Timed("day", n)'
    <3>1. EndsBy(Scope(n), "minute", n.minute.at, n.minute.at + n.minute.ttl)'
      BY <1>10, <1>11, <1>12
    <3>2. n.minute.at <= now'
      BY <1>10, <1>11
    <3>3. n.refusal # NULL =>
            /\ n.account # NULL
            /\ \E e \in Nat : /\ e <= n.refusal.until
                              /\ EndsBy(Scope(n), n.refusal.window, n.refusal.hit, e)'
      BY <1>4, <1>9, <1>11, <1>12 DEF Sound, Timed
    <3>4. QED
      BY <3>1, <3>2, <3>3 DEF Timed
  <2>3. Converted("day", n)'
    BY <1>11, ContextAssumption DEF Converted, Replies
  <2>4. QED
    BY <2>1, <2>2, <2>3 DEF Sound
<1>15. Goes(h, "day", n)
  <2>1. n # NULL /\ c # NULL
    BY <1>3, <1>11, ContextAssumption
  <2>2. QED
    BY <1>2, <1>7, <1>11, <1>13, <1>14, <2>1 DEF Goes, Move, Occupies
<1>16. QED
  BY <1>8, <1>15 DEF Steps

(* A client that is refused waits at least as long as the window lasts.    *)
LEMMA WaitingLongEnough ==
  ASSUME NEW ttl \in Nat
  PROVE  RetryAfter(ttl) * TicksPerSecond \in Nat /\ ttl <= RetryAfter(ttl) * TicksPerSecond
<1>1. PICK k \in Nat \ {0} : k = TicksPerSecond
  BY ClockAssumption
<1>2. PICK s \in Nat : s = (ttl + k - 1) \div k
  <2>1. ttl + k - 1 \in Nat
    OBVIOUS
  <2>2. QED
    BY <2>1, Division
<1>3. s * k \in Nat /\ ttl <= s * k
  BY <1>2, RoundedUp
<1>4. CASE s < 1
  <2>1. RetryAfter(ttl) = 1
    BY <1>1, <1>2, <1>4 DEF RetryAfter
  <2>2. s = 0 /\ s * k = 0
    BY <1>4
  <2>3. QED
    BY <1>1, <1>3, <2>1, <2>2
<1>5. CASE ~ (s < 1)
  <2>1. RetryAfter(ttl) = s
    BY <1>1, <1>2, <1>5 DEF RetryAfter
  <2>2. QED
    BY <1>1, <1>3, <2>1
<1>6. QED
  BY <1>4, <1>5

(* 429. *)
LEMMA Refusing ==
  ASSUME WorldInv', Onward, now' = now, NEW h \in Handlers, NEW c, c = ctx[h],
         Control("day", c), Sound("day", c)', NEW w \in Windows,
         NEW t \in Nat, NEW ttl \in Nat, t <= now,
         EndsBy(Scope(c), w, t, t + ttl)', Refuse(h, w, t, ttl)
  PROVE  \E q, n : Goes(h, q, n)
<1>1. PICK u : u = now + RetryAfter(ttl) * TicksPerSecond
  OBVIOUS
<1>2. u \in Nat /\ t + ttl <= u
  <2>1. PICK r \in Nat : r = RetryAfter(ttl) * TicksPerSecond /\ ttl <= r
    BY WaitingLongEnough
  <2>2. QED
    BY <1>1, <2>1 DEF Onward
<1>3. PICK r : r = [window |-> w, hit |-> t, until |-> u]
  OBVIOUS
<1>4. r \in Refusal /\ r # NULL
  BY <1>2, <1>3, ContextAssumption DEF Refusal
<1>5. PICK n : n = [[c EXCEPT !.refusal = r] EXCEPT !.reply = "too_many"]
  OBVIOUS
<1>6. /\ c \in Context /\ c.account # NULL
      /\ c.answer = NULL /\ c.fromDay = NULL /\ c.toDay = NULL /\ c.reply = NULL
      /\ "too_many" \in Replies
  BY DEF Control, Located, Unlocated, Replies
<1>7. Move(h, "day", "answer", n)
  BY <1>1, <1>3, <1>5 DEF Refuse, Reply
<1>8. /\ n \in Context /\ n.reply = "too_many" /\ n.req = c.req /\ n.account = c.account
      /\ n.refusal = r
      /\ n.answer = NULL /\ n.fromDay = NULL /\ n.toDay = NULL /\ n.connected = c.connected
  BY <1>4, <1>5, <1>6 DEF Context
<1>9. Control("answer", n)
  BY <1>6, <1>8, ContextAssumption DEF Control, Phases, Located, Unlocated
<1>10. Timed("answer", n)'
  <2>1. PICK e \in Nat : e = t + ttl
    OBVIOUS
  <2>2. Scope(n) = Scope(c)
    BY <1>8 DEF Scope
  <2>3. EndsBy(Scope(n), n.refusal.window, n.refusal.hit, e)' /\ e <= n.refusal.until
    BY <1>2, <1>3, <1>8, <2>1, <2>2
  <2>4. QED
    BY <1>6, <1>8, <2>1, <2>3 DEF Timed
<1>11. Sound("answer", n)'
  BY <1>8, <1>10 DEF Sound, Identified, Converted
<1>12. Goes(h, "answer", n)
  <2>1. n # NULL /\ c # NULL
    BY <1>6, <1>8, ContextAssumption
  <2>2. QED
    BY <1>7, <1>8, <1>9, <1>11, <2>1 DEF Goes, Move, Occupies
<1>13. QED
  BY <1>12

LEMMA HittingDay ==
  ASSUME WorldInv, HandlersInv, NEW h \in Handlers, HitDay(h), scenario' = scenario
  PROVE  Steps(h)
<1>1. pc[h] = "day" /\ UNCHANGED <<now, accounts, fxVars, ent, usage, left>>
  BY DEF HitDay
<1>2. PICK c : c = ctx[h] /\ Control("day", c)
  BY <1>1 DEF HandlersInv, Fine
<1>3. /\ c \in Context /\ c.account # NULL /\ c.minute \in MinuteHit
      /\ "minute" \in Windows /\ "day" \in Windows
  BY <1>2 DEF Control, Located, Unlocated, Windows, Context
<1>4. PICK s \in Scopes : s = Scope(c)
  BY <1>3, ScopeTyped
<1>5. /\ Hit(s, "day")
      /\ \/ Refuse(h, "minute", c.minute.at, c.minute.ttl)
         \/ Refuse(h, "day", now, Answer(counters'[s]["day"]).ttl)
         \/ PassLimiter(h, "day", c)
  BY <1>2, <1>4 DEF HitDay
<1>6. WorldInv' /\ Onward
  BY <1>1, <1>3, <1>5, WorldCounts DEF HitFails, WorldInv
<1>7. Sound("day", c)'
  BY <1>1, <1>2, <1>6, Waits
<1>8. CASE Refuse(h, "minute", c.minute.at, c.minute.ttl)
  <2>1. PICK t \in Nat, ttl \in Nat : t = c.minute.at /\ ttl = c.minute.ttl
    BY <1>3 DEF MinuteHit
  <2>2. t <= now /\ EndsBy(Scope(c), "minute", t, t + ttl)'
    BY <1>1, <1>7, <2>1 DEF Sound, Timed
  <2>3. \E q, n : Goes(h, q, n)
    BY <1>1, <1>2, <1>3, <1>6, <1>7, <1>8, <2>1, <2>2, Refusing
  <2>4. QED
    BY <1>6, <2>3 DEF Steps
<1>9. CASE Refuse(h, "day", now, Answer(counters'[s]["day"]).ttl)
  <2>1. /\ Answer(counters'[s]["day"]).ttl \in Nat /\ now \in Nat
        /\ \E t, e : /\ t = now /\ e = now + Answer(counters'[s]["day"]).ttl
                     /\ EndsBy(s, "day", t, e)'
    BY <1>1, <1>3, <1>5, HitEnds
  <2>2. PICK t \in Nat, ttl \in Nat :
          /\ t = now /\ ttl = Answer(counters'[s]["day"]).ttl
          /\ EndsBy(s, "day", t, t + ttl)'
    BY <2>1
  <2>3. t <= now /\ EndsBy(Scope(c), "day", t, t + ttl)'
    BY <1>4, <2>2
  <2>4. \E q, n : Goes(h, q, n)
    BY <1>1, <1>2, <1>3, <1>6, <1>7, <1>9, <2>2, <2>3, Refusing
  <2>5. QED
    BY <1>6, <2>4 DEF Steps
<1>10. CASE PassLimiter(h, "day", c)
  BY <1>2, <1>6, <1>7, <1>10, Passing DEF Steps
<1>11. QED
  BY <1>5, <1>8, <1>9, <1>10

(* A reply before there is an answer to convert. *)
LEMMA Answering ==
  ASSUME WorldInv', Onward, NEW h \in Handlers, NEW p \in Located, NEW c, c = ctx[h],
         Control(p, c), Sound(p, c)', c.answer = NULL,
         NEW reply \in Replies, Reply(h, p, c, reply)
  PROVE  \E q, n : Goes(h, q, n)
<1>1. PICK n : n = [c EXCEPT !.reply = reply]
  OBVIOUS
<1>2. c \in Context /\ c # NULL
  BY ContextAssumption DEF Control, Located
<1>3. n.connected = c.connected /\ n # NULL
  BY <1>1, <1>2, ContextAssumption DEF Context
<1>4. Control("answer", n) /\ Sound("answer", n)'
  BY <1>1, Replying
<1>5. Goes(h, "answer", n)
  BY <1>1, <1>2, <1>3, <1>4 DEF Goes, Reply, Move, Occupies
<1>6. QED
  BY <1>5

LEMMA Resolving ==
  ASSUME WorldInv, HandlersInv, NEW h \in Handlers, ResolveEntitlement(h),
         scenario' = scenario
  PROVE  Steps(h)
<1>1. pc[h] = "entitlement" /\ UNCHANGED <<worldVars, left>>
  BY DEF ResolveEntitlement, Move
<1>2. WorldInv' /\ Onward
  BY <1>1, WorldStays DEF WorldInv
<1>3. PICK c : c = ctx[h] /\ Control("entitlement", c) /\ Sound("entitlement", c)'
  BY <1>1, <1>2, Waits
<1>4. /\ c \in Context /\ c.account # NULL
      /\ c.answer = NULL /\ c.fromDay = NULL /\ c.toDay = NULL /\ c.reply = NULL
      /\ "entitlement" \in Located
      /\ "usage" \in Located \ {"day", "rate_from", "rate_to"} /\ c # NULL
  BY <1>3, ContextAssumption DEF Control, Located, Unlocated
<1>5. PICK b, m : b = IsPro(ent[c.account.user], now) /\ m = MonthOf(now)
  OBVIOUS
<1>6. b \in BOOLEAN /\ m \in Months
  BY <1>5, Calendar DEF IsPro, WorldInv, LimiterTypeOK
<1>7. PICK n : n = [c EXCEPT !.pro = b, !.period = m]
  OBVIOUS
<1>8. Move(h, "entitlement", "usage", n)
  BY <1>3, <1>5, <1>7 DEF ResolveEntitlement
<1>9. /\ n \in Context /\ n.req = c.req /\ n.account = c.account
      /\ n.refusal = c.refusal
      /\ n.answer = NULL /\ n.fromDay = NULL /\ n.toDay = NULL /\ n.reply = NULL
      /\ n.connected = c.connected
  BY <1>4, <1>6, <1>7, ZenonT(30) DEF Context
<1>10. Control("usage", n) /\ Sound("usage", n)'
  BY <1>3, <1>4, <1>9, GoingOn
<1>11. Goes(h, "usage", n)
  BY <1>3, <1>4, <1>8, <1>9, <1>10 DEF Goes, Move, Occupies
<1>12. QED
  BY <1>2, <1>11 DEF Steps

LEMMA ReferenceTyped ==
  ASSUME WorldInv, NEW c \in Context
  PROVE  Reference(c) \in Days
<1>1. c.req \in Request /\ DayOf(now) \in Days
  BY Calendar DEF Context, WorldInv, LimiterTypeOK
<1>2. QED
  BY <1>1 DEF Reference, Request

LEMMA Gating ==
  ASSUME WorldInv, HandlersInv, NEW h \in Handlers, ReadUsage(h), scenario' = scenario
  PROVE  Steps(h)
<1>1. pc[h] = "usage" /\ UNCHANGED <<worldVars, left>>
  BY DEF ReadUsage, Move, Reply
<1>2. WorldInv' /\ Onward
  BY <1>1, WorldStays DEF WorldInv
<1>3. PICK c : c = ctx[h] /\ Control("usage", c) /\ Sound("usage", c)'
  BY <1>1, <1>2, Waits
<1>4. /\ c \in Context /\ c.account # NULL
      /\ c.answer = NULL /\ c.fromDay = NULL /\ c.toDay = NULL /\ c.reply = NULL
      /\ "usage" \in Located /\ c # NULL
  BY <1>3, ContextAssumption DEF Control, Located, Unlocated
<1>5. PICK q, n : /\ q = IF c.req.kind = "parse" THEN "llm" ELSE "stt"
                  /\ n = [c EXCEPT !.paid = TRUE, !.reference = Reference(c)]
  OBVIOUS
<1>6. CASE Reply(h, "usage", c, "quota_exceeded")
  <2>1. "quota_exceeded" \in Replies
    BY DEF Replies
  <2>2. \E r, m : Goes(h, r, m)
    BY <1>2, <1>3, <1>4, <1>6, <2>1, Answering
  <2>3. QED
    BY <1>2, <2>2 DEF Steps
<1>7. CASE Move(h, "usage", q, n)
  <2>1. q \in Located \ {"day", "rate_from", "rate_to"}
    BY <1>5 DEF Located
  <2>2. Reference(c) \in Days
    BY <1>4, ReferenceTyped
  <2>3. /\ n \in Context /\ n.req = c.req /\ n.account = c.account
        /\ n.refusal = c.refusal
        /\ n.answer = NULL /\ n.fromDay = NULL /\ n.toDay = NULL /\ n.reply = NULL
        /\ n.connected = c.connected
    BY <1>4, <1>5, <2>2 DEF Context
  <2>4. Control(q, n) /\ Sound(q, n)'
    BY <1>3, <1>4, <2>1, <2>3, GoingOn
  <2>5. Goes(h, q, n)
    BY <1>3, <1>4, <1>7, <2>3, <2>4 DEF Goes, Move, Occupies
  <2>6. QED
    BY <1>2, <2>5 DEF Steps
<1>8. QED
  BY <1>3, <1>5, <1>6, <1>7 DEF ReadUsage

LEMMA Transcribing ==
  ASSUME WorldInv, HandlersInv, NEW h \in Handlers, Transcribe(h), scenario' = scenario
  PROVE  Steps(h)
<1>1. pc[h] = "stt" /\ UNCHANGED <<worldVars, left>>
  BY DEF Transcribe, Move, Reply
<1>2. WorldInv' /\ Onward
  BY <1>1, WorldStays DEF WorldInv
<1>3. PICK c : c = ctx[h] /\ Control("stt", c) /\ Sound("stt", c)'
  BY <1>1, <1>2, Waits
<1>4. /\ c \in Context /\ c.account # NULL
      /\ c.answer = NULL /\ c.fromDay = NULL /\ c.toDay = NULL /\ c.reply = NULL
      /\ "stt" \in Located /\ c # NULL
      /\ "llm" \in Located \ {"day", "rate_from", "rate_to"}
  BY <1>3, ContextAssumption DEF Control, Located, Unlocated
<1>5. PICK n : n = [c EXCEPT !.reference = Reference(c)]
  OBVIOUS
<1>6. CASE Reply(h, "stt", c, "failed")
  <2>1. "failed" \in Replies
    BY DEF Replies
  <2>2. \E r, m : Goes(h, r, m)
    BY <1>2, <1>3, <1>4, <1>6, <2>1, Answering
  <2>3. QED
    BY <1>2, <2>2 DEF Steps
<1>7. CASE Move(h, "stt", "llm", n)
  <2>1. Reference(c) \in Days
    BY <1>4, ReferenceTyped
  <2>2. /\ n \in Context /\ n.req = c.req /\ n.account = c.account
        /\ n.refusal = c.refusal
        /\ n.answer = NULL /\ n.fromDay = NULL /\ n.toDay = NULL /\ n.reply = NULL
        /\ n.connected = c.connected
    BY <1>4, <1>5, <2>1 DEF Context
  <2>3. Control("llm", n) /\ Sound("llm", n)'
    BY <1>3, <1>4, <2>2, GoingOn
  <2>4. Goes(h, "llm", n)
    BY <1>3, <1>4, <1>7, <2>2, <2>3 DEF Goes, Move, Occupies
  <2>5. QED
    BY <1>2, <2>4 DEF Steps
<1>8. QED
  BY <1>3, <1>5, <1>6, <1>7 DEF Transcribe

(* The answer of the model, and the rates known as the conversion begins.  *)
LEMMA Extracting ==
  ASSUME WorldInv, HandlersInv, NEW h \in Handlers, Extract(h), scenario' = scenario
  PROVE  Steps(h)
<1>1. pc[h] = "llm" /\ UNCHANGED <<worldVars, left>>
  BY DEF Extract, Converting, Move, Reply
<1>2. WorldInv' /\ Onward /\ rates' = rates
  BY <1>1, WorldStays DEF WorldInv, worldVars, fxVars
<1>3. PICK c : c = ctx[h] /\ Control("llm", c) /\ Sound("llm", c)'
  BY <1>1, <1>2, Waits
<1>4. /\ c \in Context /\ c.account # NULL /\ c.reply = NULL
      /\ c.answer = NULL /\ c.fromDay = NULL /\ c.toDay = NULL
      /\ "llm" \in Located /\ c # NULL
  BY <1>3, ContextAssumption DEF Control, Located, Unlocated
<1>5. PICK answer, raw, status :
        /\ answer \in Given.answers \cup {NULL}
        /\ raw = Outcome(answer) /\ status = ReplyOf(raw)
        /\ \/ Reply(h, "llm", c, "failed")
           \/ Reply(h, "llm", c, status)
           \/ /\ StatusOf(raw) # "failed" /\ Convertible(raw)
              /\ Converting(h, raw, SpentDay(raw, c.reference))
  <2>1. PICK answer \in Given.answers \cup {NULL} :
          \/ Reply(h, "llm", c, "failed")
          \/ Reply(h, "llm", c, ReplyOf(Outcome(answer)))
          \/ /\ StatusOf(Outcome(answer)) # "failed" /\ Convertible(Outcome(answer))
             /\ Converting(h, Outcome(answer), SpentDay(Outcome(answer), c.reference))
    BY <1>3 DEF Extract
  <2>2. QED
    BY <2>1
<1>6. "failed" \in Replies /\ status \in Replies
  BY <1>5 DEF ReplyOf, StatusOf, Replies
<1>7. CASE Reply(h, "llm", c, "failed") \/ Reply(h, "llm", c, status)
  <2>1. \E r, m : Goes(h, r, m)
    BY <1>2, <1>3, <1>4, <1>6, <1>7, Answering
  <2>2. QED
    BY <1>2, <2>1 DEF Steps
<1>8. CASE /\ StatusOf(raw) # "failed" /\ Convertible(raw)
           /\ Converting(h, raw, SpentDay(raw, c.reference))
  <2>1. raw \in RawExtraction /\ raw # NULL
    <3>1. raw # NULL
      BY <1>5, <1>8 DEF StatusOf
    <3>2. Given.answers \subseteq RawExtraction
      BY ParseAssumption DEF WorldInv, Given, Scenario
    <3>3. QED
      BY <1>5, <3>1, <3>2 DEF Outcome
  <2>2. PICK day : day = SpentDay(raw, c.reference)
    OBVIOUS
  <2>3. day \in Days
    BY <1>4, <2>1, <2>2 DEF SpentDay, RawExtraction, Context
  <2>4. PICK known : known = [from |-> RateDays(raw.currency, day),
                              to |-> RateDays(c.account.base, day)]
    OBVIOUS
  <2>5. known \in [from : SUBSET Days, to : SUBSET Days]
    BY <2>4 DEF RateDays
  <2>6. PICK next : next = [c EXCEPT !.answer = raw, !.known = known]
    OBVIOUS
  <2>7. /\ next \in Context /\ next.req = c.req /\ next.account = c.account
        /\ next.refusal = c.refusal /\ next.reply = NULL /\ next.answer = raw
        /\ next.known = known /\ next.reference = c.reference
        /\ next.fromDay = NULL /\ next.toDay = NULL /\ next.connected = c.connected
    BY <1>4, <2>1, <2>5, <2>6 DEF Context
  <2>8. Timed("rate_from", next)' /\ Identified("rate_from", next)'
    BY <1>3, <2>7 DEF Sound, Timed, Identified, Scope
  <2>9. Converted("rate_from", next)'
    BY <1>2, <1>4, <1>8, <2>2, <2>3, <2>4, <2>7
       DEF Converted, Spent, Within, RateDays
  <2>10. CASE raw.currency = c.account.base
              /\ Reply(h, "llm", [next EXCEPT !.base = TRUE], status)
    <3>1. PICK n : n = [[next EXCEPT !.base = TRUE] EXCEPT !.reply = status]
      OBVIOUS
    <3>2. /\ n \in Context /\ n.req = c.req /\ n.account = c.account
          /\ n.refusal = c.refusal /\ n.reply = status /\ n.answer = raw
          /\ n.known = known /\ n.reference = c.reference /\ n.base
          /\ n.fromDay = NULL /\ n.toDay = NULL /\ n.connected = c.connected
      BY <1>6, <2>7, <3>1 DEF Context
    <3>3. Control("answer", n)
      BY <1>6, <3>2, ContextAssumption DEF Control, Phases, Located, Unlocated
    <3>4. Timed("answer", n)' /\ Identified("answer", n)'
      BY <2>7, <2>8, <3>2 DEF Timed, Identified, Scope
    <3>5. Converted("answer", n)'
      BY <2>7, <2>9, <3>2 DEF Converted, Spent
    <3>6. Goes(h, "answer", n)
      <4>1. n # NULL
        BY <3>2, ContextAssumption
      <4>2. QED
        BY <1>3, <1>4, <2>10, <3>1, <3>2, <3>3, <3>4, <3>5, <4>1
           DEF Goes, Reply, Move, Occupies, Sound
    <3>7. QED
      BY <1>2, <3>6 DEF Steps
  <2>11. CASE Move(h, "llm", "rate_from", next)
    <3>1. Control("rate_from", next)
      BY <1>4, <2>1, <2>7, ContextAssumption DEF Control, Phases, Located, Unlocated
    <3>2. Goes(h, "rate_from", next)
      <4>1. next # NULL
        BY <2>7, ContextAssumption
      <4>2. QED
        BY <1>3, <1>4, <2>7, <2>8, <2>9, <2>11, <3>1, <4>1
           DEF Goes, Move, Occupies, Sound
    <3>3. QED
      BY <1>2, <3>2 DEF Steps
  <2>12. QED
    BY <1>3, <1>5, <1>8, <2>2, <2>4, <2>6, <2>10, <2>11 DEF Converting
<1>9. QED
  BY <1>5, <1>7, <1>8

(* What the converter finds for a currency. *)
LEMMA RateFound ==
  ASSUME WorldInv, NEW cur \in Currencies, NEW spent \in Days
  PROVE  /\ RateDay(cur, spent) \in Days \cup {NULL}
         /\ RateOn(cur, RateDay(cur, spent)) \in Nat \cup {NULL}
         /\ RateOn(cur, RateDay(cur, spent)) # NULL =>
              RateOn(cur, RateDay(cur, spent)) <= MaxRate
         /\ RateDays(cur, spent) # {} => RateOn(cur, RateDay(cur, spent)) # NULL
         /\ \A known \in SUBSET RateDays(cur, spent) :
              Within(RateDay(cur, spent), known, spent)
<1>1. PICK day : day = RateDay(cur, spent)
  OBVIOUS
<1>2. /\ RateDays(cur, spent) = {} => day = NULL
      /\ RateDays(cur, spent) # {} => /\ day \in RateDays(cur, spent)
                                      /\ \A d \in RateDays(cur, spent) : d <= day
      /\ day \in Days \cup {NULL}
  BY <1>1, LatestDay
<1>3. \A d \in Days : /\ rates[cur][d] \in Nat \cup {NULL}
                      /\ rates[cur][d] # NULL => rates[cur][d] <= MaxRate
  BY DEF WorldInv, FxInv, FxTypeOK, Table, RatesFit
<1>4. /\ Scale \in Nat /\ Scale # NULL /\ Scale <= MaxRate
      /\ NULL \notin Days
  BY FxAssumption, FxNullAssumption, DaysBounded
<1>5. /\ RateOn(cur, day) \in Nat \cup {NULL}
      /\ RateOn(cur, day) # NULL => RateOn(cur, day) <= MaxRate
  BY <1>2, <1>3, <1>4 DEF RateOn
<1>6. RateDays(cur, spent) # {} => RateOn(cur, day) # NULL
  BY <1>2, <1>4 DEF RateOn, RateDays
<1>7. ASSUME NEW known \in SUBSET RateDays(cur, spent)
      PROVE  Within(day, known, spent)
  BY <1>2 DEF Within, RateDays
<1>8. QED
  BY <1>1, <1>2, <1>5, <1>6, <1>7

LEMMA Concluding ==
  ASSUME NEW p \in {"rate_from", "rate_to"}, NEW c, Control(p, c), Sound(p, c)',
         NEW n \in Context, n.req = c.req, n.account = c.account,
         n.refusal = c.refusal, n.answer = c.answer, n.reference = c.reference,
         n.known = c.known, n.reply \in Replies,
         Within(n.fromDay, c.known.from, Spent(c)),
         Within(n.toDay, c.known.to, Spent(c)),
         c.known.from # {} /\ c.known.to # {} => n.base \/ n.reply = "error"
  PROVE  Control("answer", n) /\ Sound("answer", n)'
<1>1. Control("answer", n)
  BY ContextAssumption DEF Control, Phases, Located, Unlocated
<1>2. Identified("answer", n)'
  BY DEF Sound, Identified
<1>3. Timed("answer", n)'
  BY DEF Sound, Timed, Scope
<1>4. Converted("answer", n)'
  BY DEF Sound, Converted, Spent
<1>5. QED
  BY <1>1, <1>2, <1>3, <1>4 DEF Sound

(* Where a conversion stands before it reads a rate. *)
LEMMA Converts ==
  ASSUME NEW p \in {"rate_from", "rate_to"}, NEW c, Control(p, c), Sound(p, c)'
  PROVE  /\ c \in Context /\ c # NULL /\ c.account # NULL /\ c.answer # NULL
         /\ c.reply = NULL /\ c.toDay = NULL
         /\ c.answer \in RawExtraction /\ c.answer.currency \in Currencies
         /\ c.account.base \in Currencies /\ Spent(c) \in Days
         /\ c.known.from \subseteq RateDays(c.answer.currency, Spent(c))'
         /\ c.known.to \subseteq RateDays(c.account.base, Spent(c))'
         /\ Within(c.fromDay, c.known.from, Spent(c))
         /\ ReplyOf(c.answer) \in Replies
<1>1. /\ c \in Context /\ c # NULL /\ c.account # NULL /\ c.answer # NULL
      /\ c.reply = NULL /\ c.toDay = NULL
  BY ContextAssumption DEF Control, Located
<1>2. /\ Convertible(c.answer) /\ Spent(c) \in Days
      /\ c.known.from \subseteq RateDays(c.answer.currency, Spent(c))'
      /\ c.known.to \subseteq RateDays(c.account.base, Spent(c))'
      /\ Within(c.fromDay, c.known.from, Spent(c))
  BY <1>1 DEF Sound, Converted
<1>3. c.answer \in RawExtraction /\ c.account \in Account
  BY <1>1 DEF Context
<1>4. c.answer.currency \in Currencies /\ c.account.base \in Currencies
  BY <1>2, <1>3 DEF Convertible, NormalizeCurrency, Account
<1>5. ReplyOf(c.answer) \in Replies
  BY DEF ReplyOf, StatusOf, Replies
<1>6. QED
  BY <1>1, <1>2, <1>3, <1>4, <1>5

LEMMA ReadingFrom ==
  ASSUME WorldInv, HandlersInv, NEW h \in Handlers, pc[h] = "rate_from",
         ReadFromRate(h), scenario' = scenario
  PROVE  Steps(h)
<1>1. UNCHANGED <<worldVars, left>>
  BY DEF ReadFromRate
<1>2. WorldInv' /\ Onward /\ rates' = rates
  BY <1>1, WorldStays DEF WorldInv, worldVars, fxVars
<1>3. PICK c : c = ctx[h] /\ Control("rate_from", c) /\ Sound("rate_from", c)'
  BY <1>1, <1>2, Waits
<1>4. PICK day, rate : /\ day = RateDay(c.answer.currency, Spent(c))
                       /\ rate = RateOn(c.answer.currency, day)
  OBVIOUS
<1>5. /\ c \in Context /\ c # NULL /\ c.account # NULL /\ c.answer # NULL
      /\ c.reply = NULL /\ c.toDay = NULL
      /\ c.answer.currency \in Currencies /\ Spent(c) \in Days
      /\ c.known.from \subseteq RateDays(c.answer.currency, Spent(c))
      /\ ReplyOf(c.answer) \in Replies
  BY <1>2, <1>3, Converts DEF RateDays
<1>6. /\ day \in Days \cup {NULL} /\ rate \in Nat \cup {NULL}
      /\ c.known.from # {} => rate # NULL
      /\ Within(day, c.known.from, Spent(c))
  <2>1. RateDays(c.answer.currency, Spent(c)) # {} => rate # NULL
    BY <1>4, <1>5, RateFound
  <2>2. /\ day \in Days \cup {NULL} /\ rate \in Nat \cup {NULL}
        /\ Within(day, c.known.from, Spent(c))
    BY <1>4, <1>5, RateFound
  <2>3. QED
    BY <1>5, <2>1, <2>2
<1>7. PICK next : next = [c EXCEPT !.fromDay = day, !.rate = rate]
  OBVIOUS
<1>8. /\ next \in Context /\ next.req = c.req /\ next.account = c.account
      /\ next.refusal = c.refusal /\ next.reply = NULL /\ next.answer = c.answer
      /\ next.known = c.known /\ next.reference = c.reference /\ next.rate = rate
      /\ next.fromDay = day /\ next.toDay = NULL /\ next.connected = c.connected
  BY <1>5, <1>6, <1>7 DEF Context
<1>9. CASE rate = NULL /\ Reply(h, "rate_from", next, ReplyOf(c.answer))
  <2>1. PICK n : n = [next EXCEPT !.reply = ReplyOf(c.answer)]
    OBVIOUS
  <2>2. /\ n \in Context /\ n.req = c.req /\ n.account = c.account
        /\ n.refusal = c.refusal /\ n.reply = ReplyOf(c.answer) /\ n.answer = c.answer
        /\ n.known = c.known /\ n.reference = c.reference
        /\ n.fromDay = day /\ n.toDay = NULL /\ n.connected = c.connected
    BY <1>5, <1>8, <2>1 DEF Context
  <2>3. Within(n.fromDay, c.known.from, Spent(c)) /\ Within(n.toDay, c.known.to, Spent(c))
    BY <1>6, <2>2 DEF Within
  <2>4. Control("answer", n) /\ Sound("answer", n)'
    BY <1>3, <1>5, <1>6, <1>9, <2>2, <2>3, Concluding
  <2>5. n # NULL
    BY <2>2, ContextAssumption
  <2>6. Goes(h, "answer", n)
    BY <1>3, <1>5, <1>9, <2>1, <2>2, <2>4, <2>5 DEF Goes, Reply, Move, Occupies
  <2>7. QED
    BY <1>2, <2>6 DEF Steps
<1>10. CASE rate # NULL /\ Move(h, "rate_from", "rate_to", next)
  <2>1. Control("rate_to", next)
    BY <1>5, <1>8, <1>10, ContextAssumption DEF Control, Phases, Located, Unlocated
  <2>2. Identified("rate_to", next)' /\ Timed("rate_to", next)'
    BY <1>3, <1>8 DEF Sound, Identified, Timed, Scope
  <2>3. Converted("rate_to", next)'
    <3>1. Within(next.fromDay, next.known.from, Spent(next))
      BY <1>6, <1>8 DEF Spent
    <3>2. QED
      BY <1>3, <1>5, <1>8, <3>1 DEF Sound, Converted, Spent
  <2>4. next # NULL
    BY <1>8, ContextAssumption
  <2>5. Goes(h, "rate_to", next)
    BY <1>3, <1>5, <1>8, <1>10, <2>1, <2>2, <2>3, <2>4
       DEF Goes, Move, Occupies, Sound
  <2>6. QED
    BY <1>2, <2>5 DEF Steps
<1>11. QED
  BY <1>3, <1>4, <1>7, <1>9, <1>10 DEF ReadFromRate, Spent

LEMMA ReadingTo ==
  ASSUME WorldInv, HandlersInv, NEW h \in Handlers, pc[h] = "rate_to",
         ReadToRate(h), scenario' = scenario
  PROVE  Steps(h)
<1>1. UNCHANGED <<worldVars, left>>
  BY DEF ReadToRate
<1>2. WorldInv' /\ Onward /\ rates' = rates
  BY <1>1, WorldStays DEF WorldInv, worldVars, fxVars
<1>3. PICK c : c = ctx[h] /\ Control("rate_to", c) /\ Sound("rate_to", c)'
  BY <1>1, <1>2, Waits
<1>4. PICK day, rate : /\ day = RateDay(c.account.base, Spent(c))
                       /\ rate = RateOn(c.account.base, day)
  OBVIOUS
<1>5. /\ c \in Context /\ c # NULL /\ c.account # NULL /\ c.answer # NULL
      /\ c.reply = NULL /\ c.rate \in Nat /\ c.rate # NULL
      /\ c.account.base \in Currencies /\ Spent(c) \in Days
      /\ c.known.to \subseteq RateDays(c.account.base, Spent(c))
      /\ Within(c.fromDay, c.known.from, Spent(c))
      /\ ReplyOf(c.answer) \in Replies
  <2>1. c.rate # NULL
    BY <1>3 DEF Control
  <2>2. /\ c \in Context /\ c # NULL /\ c.account # NULL /\ c.answer # NULL
        /\ c.reply = NULL
        /\ c.account.base \in Currencies /\ Spent(c) \in Days
        /\ c.known.to \subseteq RateDays(c.account.base, Spent(c))
        /\ Within(c.fromDay, c.known.from, Spent(c))
        /\ ReplyOf(c.answer) \in Replies
    BY <1>2, <1>3, Converts DEF RateDays
  <2>3. c.rate \in Nat
    BY <2>1, <2>2 DEF Context
  <2>4. QED
    BY <2>1, <2>2, <2>3
<1>6. /\ day \in Days \cup {NULL} /\ rate \in Nat \cup {NULL}
      /\ c.known.to # {} => rate # NULL
      /\ Within(day, c.known.to, Spent(c))
  <2>1. RateDays(c.account.base, Spent(c)) # {} => rate # NULL
    BY <1>4, <1>5, RateFound
  <2>2. /\ day \in Days \cup {NULL} /\ rate \in Nat \cup {NULL}
        /\ Within(day, c.known.to, Spent(c))
    BY <1>4, <1>5, RateFound
  <2>3. QED
    BY <1>5, <2>1, <2>2
<1>7. PICK next : next = [c EXCEPT !.toDay = day]
  OBVIOUS
<1>8. /\ next \in Context /\ next.req = c.req /\ next.account = c.account
      /\ next.refusal = c.refusal /\ next.answer = c.answer /\ next.connected = c.connected
      /\ next.known = c.known /\ next.reference = c.reference /\ next.rate = c.rate
      /\ next.fromDay = c.fromDay /\ next.toDay = day
  BY <1>5, <1>6, <1>7 DEF Context
<1>9. ASSUME NEW n \in Context, Move(h, "rate_to", "answer", n), n.req = c.req,
             n.account = c.account, n.refusal = c.refusal, n.answer = c.answer,
             n.connected = c.connected, n.known = c.known, n.reference = c.reference,
             n.fromDay = c.fromDay, n.toDay = day, n.reply \in Replies,
             c.known.from # {} /\ c.known.to # {} => n.base \/ n.reply = "error"
      PROVE  Steps(h)
  <2>1. Within(n.fromDay, c.known.from, Spent(c)) /\ Within(n.toDay, c.known.to, Spent(c))
    BY <1>5, <1>6, <1>9
  <2>2. Control("answer", n) /\ Sound("answer", n)'
    BY <1>3, <1>9, <2>1, Concluding
  <2>3. n # NULL
    BY <1>9, ContextAssumption
  <2>4. Goes(h, "answer", n)
    BY <1>3, <1>5, <1>9, <2>2, <2>3 DEF Goes, Move, Occupies
  <2>5. QED
    BY <1>2, <2>4 DEF Steps
<1>10. CASE rate = NULL /\ Reply(h, "rate_to", next, ReplyOf(c.answer))
  <2>1. PICK n : n = [next EXCEPT !.reply = ReplyOf(c.answer)]
    OBVIOUS
  <2>2. /\ n \in Context /\ n.req = c.req /\ n.account = c.account
        /\ n.refusal = c.refusal /\ n.reply = ReplyOf(c.answer) /\ n.answer = c.answer
        /\ n.known = c.known /\ n.reference = c.reference
        /\ n.fromDay = c.fromDay /\ n.toDay = day /\ n.connected = c.connected
    BY <1>5, <1>8, <2>1 DEF Context
  <2>3. Move(h, "rate_to", "answer", n)
    BY <1>10, <2>1 DEF Reply
  <2>4. QED
    BY <1>5, <1>6, <1>9, <1>10, <2>2, <2>3
<1>11. CASE Reply(h, "rate_to", next, "error")
  <2>1. PICK n : n = [next EXCEPT !.reply = "error"]
    OBVIOUS
  <2>2. "error" \in Replies
    BY DEF Replies
  <2>3. /\ n \in Context /\ n.req = c.req /\ n.account = c.account
        /\ n.refusal = c.refusal /\ n.reply = "error" /\ n.answer = c.answer
        /\ n.known = c.known /\ n.reference = c.reference /\ n.rate = c.rate
        /\ n.fromDay = c.fromDay /\ n.toDay = day /\ n.connected = c.connected
    BY <1>8, <2>1, <2>2 DEF Context
  <2>4. Move(h, "rate_to", "answer", n)
    BY <1>11, <2>1 DEF Reply
  <2>5. QED
    BY <1>9, <2>2, <2>3, <2>4
<1>12. CASE Reply(h, "rate_to", [next EXCEPT !.base = TRUE], ReplyOf(c.answer))
  <2>1. PICK m, n : /\ m = [next EXCEPT !.base = TRUE]
                    /\ n = [m EXCEPT !.reply = ReplyOf(c.answer)]
    OBVIOUS
  <2>2. /\ m \in Context /\ m.req = c.req /\ m.account = c.account
        /\ m.refusal = c.refusal /\ m.answer = c.answer
        /\ m.known = c.known /\ m.reference = c.reference /\ m.base = TRUE
        /\ m.fromDay = c.fromDay /\ m.toDay = day /\ m.connected = c.connected
    BY <1>8, <2>1 DEF Context
  <2>3. /\ n \in Context /\ n.req = c.req /\ n.account = c.account
        /\ n.refusal = c.refusal /\ n.reply = ReplyOf(c.answer) /\ n.answer = c.answer
        /\ n.known = c.known /\ n.reference = c.reference /\ n.base = TRUE
        /\ n.fromDay = c.fromDay /\ n.toDay = day /\ n.connected = c.connected
    <3>1. PICK r \in Replies : r = ReplyOf(c.answer)
      BY <1>5
    <3>2. m \in Context /\ n = [m EXCEPT !.reply = r]
      BY <2>1, <2>2, <3>1
    <3>3. /\ n.req = m.req /\ n.account = m.account /\ n.refusal = m.refusal
          /\ n.answer = m.answer /\ n.known = m.known /\ n.reference = m.reference
          /\ n.fromDay = m.fromDay /\ n.toDay = m.toDay /\ n.connected = m.connected
          /\ n.reply = r /\ n.base = m.base
      BY <3>2 DEF Context
    <3>4. n \in Context
      BY <3>2 DEF Context
    <3>5. QED
      BY <2>2, <3>1, <3>3, <3>4
  <2>4. Move(h, "rate_to", "answer", n)
    BY <1>12, <2>1 DEF Reply
  <2>5. QED
    BY <1>5, <1>9, <2>3, <2>4
<1>13. QED
  BY <1>3, <1>4, <1>7, <1>10, <1>11, <1>12 DEF ReadToRate, Spent

(* A statement fails, whether or not the INSERT has taken effect.          *)
LEMMA Losing ==
  ASSUME WorldInv, HandlersInv, NEW h \in Handlers, DatabaseFails(h),
         scenario' = scenario
  PROVE  Steps(h)
<1>1. /\ pc[h] \in Querying /\ Spend("database")
      /\ UNCHANGED <<limiterVars, fxVars, ent, usage>>
      /\ Reply(h, pc[h], ctx[h], "error")
      /\ \/ UNCHANGED accounts
         \/ InsertAccount(ctx[h].req.identity, ctx[h].req.email)
  BY DEF DatabaseFails
<1>2. left' \in [Kinds -> Nat]
  BY <1>1, SpendTyped DEF WorldInv, Kinds
<1>3. PICK p, c : p = pc[h] /\ c = ctx[h] /\ Control(p, c)
  BY DEF HandlersInv, Fine
<1>4. p \in Located \cup Unlocated /\ p # "idle" /\ "error" \in Replies
  BY <1>1, <1>3 DEF Querying, Located, Unlocated, Replies
<1>5. c \in Context /\ c # NULL
  BY <1>3, <1>4, ContextAssumption DEF Control
<1>6. c.req.identity \in Identities /\ c.req.email \in Emails \cup {NULL}
  BY <1>5 DEF Context, Request
<1>7. WorldInv' /\ Onward
  <2>1. CASE InsertAccount(c.req.identity, c.req.email)
    BY <1>1, <1>2, <1>6, <2>1, WorldProvisions
  <2>2. CASE UNCHANGED accounts
    BY <1>1, <1>2, <2>2, WorldStays DEF worldVars
  <2>3. QED
    BY <1>1, <1>3, <2>1, <2>2
<1>8. Sound(p, c)'
  BY <1>3, <1>4, <1>7, Waits
<1>9. PICK n : n = [c EXCEPT !.reply = "error"]
  OBVIOUS
<1>10. n.connected = c.connected /\ n # NULL
  BY <1>4, <1>5, <1>9, ContextAssumption DEF Context
<1>11. Control("answer", n) /\ Sound("answer", n)'
  BY <1>3, <1>4, <1>8, <1>9, Replying
<1>12. Goes(h, "answer", n)
  BY <1>1, <1>3, <1>5, <1>9, <1>10, <1>11 DEF Goes, Reply, Move, Occupies
<1>13. QED
  BY <1>7, <1>12 DEF Steps

(* The end of a request, one way or another. *)
LEMMA Ending ==
  ASSUME WorldInv, HandlersInv, NEW h \in Handlers, Respond(h) \/ Abort(h),
         scenario' = scenario
  PROVE  Steps(h)
<1>1. UNCHANGED worldVars /\ left' \in [Kinds -> Nat]
  BY SpendTyped DEF Respond, Abort, WorldInv, Kinds
<1>2. WorldInv' /\ Onward
  BY <1>1, WorldStays
<1>3. PICK n : n = NULL
  OBVIOUS
<1>4. Control("idle", n)
  BY <1>3 DEF Control, Phases
<1>5. pc' = [pc EXCEPT ![h] = "idle"] /\ ctx' = [ctx EXCEPT ![h] = n]
  BY <1>3 DEF Respond, Abort, Move
<1>6. Goes(h, "idle", n)
  BY <1>3, <1>4, <1>5 DEF Goes, Occupies
<1>7. QED
  BY <1>2, <1>6 DEF Steps

LEMMA HandlerSteps ==
  ASSUME WorldInv, HandlersInv, NEW h \in Handlers, HandlerNext(h), scenario' = scenario
  PROVE  Steps(h)
<1>1. CASE Arrive(h)
  BY <1>1, Arriving
<1>2. CASE Step(h)
  <2>1. CASE SelectUser(h)
    BY <2>1, Selecting
  <2>2. CASE PoolTimeout(h)
    BY <2>2, TimingOut
  <2>3. CASE Provision(h)
    BY <2>3, Provisioning
  <2>4. CASE Reread(h)
    BY <2>4, Rereading
  <2>5. CASE ResolveEntitlement(h)
    BY <2>5, Resolving
  <2>6. CASE ReadUsage(h)
    BY <2>6, Gating
  <2>7. CASE Transcribe(h)
    BY <2>7, Transcribing
  <2>8. CASE Extract(h)
    BY <2>8, Extracting
  <2>9. CASE pc[h] = "rate_from" /\ ReadFromRate(h)
    BY <2>9, ReadingFrom
  <2>10. CASE pc[h] = "rate_to" /\ ReadToRate(h)
    BY <2>10, ReadingTo
  <2>11. CASE Respond(h)
    BY <2>11, Ending
  <2>12. QED
    BY <1>2, <2>1, <2>2, <2>3, <2>4, <2>5, <2>6, <2>7, <2>8, <2>9,
       <2>10, <2>11 DEF Step
<1>3. ASSUME NEW w \in {"minute", "day"}, pc[h] = w /\ RedisFails(h, w)
      PROVE  Steps(h)
  BY <1>3, Failing
<1>4. CASE RedisStep(h)
  BY <1>4, HittingMinute, HittingDay DEF RedisStep
<1>5. CASE DatabaseFails(h)
  BY <1>5, Losing
<1>6. CASE Abort(h)
  BY <1>6, Ending
<1>7. QED
  BY <1>1, <1>2, <1>3, <1>4, <1>5, <1>6 DEF HandlerNext

LEMMA WorldSteps ==
  ASSUME WorldInv, WorldNext, scenario' = scenario
  PROVE  WorldInv' /\ Onward /\ UNCHANGED <<pc, ctx, admitted>>
<1>1. UNCHANGED <<pc, ctx, admitted>>
  BY DEF WorldNext, ClockTicks, BillingEvent, PushLands, StartTask, TaskStep,
         TaskFault, requestVars
<1>2. QED
  BY <1>1, WorldTicks, WorldBills, WorldIngests DEF WorldNext

(* A step of one handler is a stutter of the others. *)
LEMMA HandlersStay ==
  ASSUME WorldInv, WorldInv', Onward, NEW p, NEW c, Fine(p, c)
  PROVE  Fine(p, c)'
BY SoundStays DEF Fine, Control

LEMMA HandlersGoOn ==
  ASSUME WorldInv, WorldInv', Onward, HandlersInv,
         \/ \E h \in Handlers : \E p, n : Goes(h, p, n)
         \/ UNCHANGED <<pc, ctx>>
  PROVE  HandlersInv'
<1>1. ASSUME NEW k \in Handlers, pc'[k] = pc[k], ctx'[k] = ctx[k]
      PROVE  Fine(pc[k], ctx[k])'
  <2>1. PICK p, c : p = pc[k] /\ c = ctx[k]
    OBVIOUS
  <2>2. Fine(p, c)'
    BY <2>1, HandlersStay DEF HandlersInv
  <2>3. QED
    BY <1>1, <2>1, <2>2
<1>2. ASSUME NEW h \in Handlers, NEW p, NEW n, Goes(h, p, n)
      PROVE  HandlersInv'
  <2>1. /\ pc' = [pc EXCEPT ![h] = p] /\ ctx' = [ctx EXCEPT ![h] = n]
        /\ p \in Phases /\ n \in Context \cup {NULL}
        /\ Control(p, n) /\ (p # "idle" => Sound(p, n)')
    BY <1>2 DEF Goes, Control
  <2>2. pc' \in [Handlers -> Phases] /\ ctx' \in [Handlers -> Context \cup {NULL}]
        /\ pc'[h] = p /\ ctx'[h] = n
        /\ \A k \in Handlers : k # h => pc'[k] = pc[k] /\ ctx'[k] = ctx[k]
    BY <2>1 DEF HandlersInv
  <2>3. Fine(p, n)'
    BY <2>1 DEF Fine, Control
  <2>4. Fine(pc[h], ctx[h])'
    BY <2>2, <2>3
  <2>5. \A k \in Handlers : Fine(pc[k], ctx[k])'
    BY <1>1, <2>2, <2>4
  <2>6. QED
    BY <2>2, <2>5 DEF HandlersInv
<1>3. CASE UNCHANGED <<pc, ctx>>
  <2>1. \A k \in Handlers : Fine(pc[k], ctx[k])'
    BY <1>1, <1>3
  <2>2. QED
    BY <1>3, <2>1 DEF HandlersInv
<1>4. QED
  BY <1>2, <1>3

(* The pool lends no more connections than it has. *)
Pooled == Connections \in Nat /\ Connections <= Given.pool

LEMMA PoolHolds ==
  ASSUME WorldInv, Onward, HandlersInv, Pooled,
         \/ \E h \in Handlers : \E p, n : Goes(h, p, n)
         \/ UNCHANGED <<pc, ctx>>
  PROVE  Pooled'
<1> DEFINE S == {k \in Handlers : ctx[k] # NULL /\ ctx[k].connected}
<1> DEFINE T == {k \in Handlers : ctx'[k] # NULL /\ ctx'[k].connected}
<1>1. /\ Connections = Cardinality(S) /\ Connections' = Cardinality(T)
      /\ Given' = Given /\ Given.pool \in Nat
  <2>1. Given.pool \in Nat
    BY ParseAssumption DEF WorldInv, Given, Scenario
  <2>2. Given' = Given
    BY DEF Onward, Given
  <2>3. QED
    BY <2>1, <2>2 DEF Connections
<1>2. IsFiniteSet(S) /\ IsFiniteSet(T)
  BY FS_Subset, ParseAssumption
<1>3. Cardinality(S) \in Nat /\ Cardinality(T) \in Nat
  BY <1>2, FS_CardinalityType
<1>4. ASSUME T \subseteq S
      PROVE  Pooled'
  <2>1. Cardinality(T) <= Cardinality(S)
    BY <1>2, <1>4, FS_Subset
  <2>2. QED
    BY <1>1, <1>3, <2>1 DEF Pooled
<1>5. ASSUME NEW h \in Handlers, NEW p, NEW n, Goes(h, p, n)
      PROVE  Pooled'
  <2>1. \A k \in Handlers : ctx'[k] = IF k = h THEN n ELSE ctx[k]
    BY <1>5 DEF Goes, HandlersInv
  <2>2. CASE Occupies(n) /\ ~Occupies(ctx[h])
    <3>1. Cardinality(S) < Given.pool
      BY <1>1, <1>5, <2>2 DEF Goes
    <3>2. T = S \cup {h} /\ h \notin S
      BY <2>1, <2>2 DEF Occupies
    <3>3. Cardinality(T) = Cardinality(S) + 1
      BY <1>2, <3>2, FS_AddElement
    <3>4. QED
      BY <1>1, <1>3, <3>1, <3>3 DEF Pooled
  <2>3. CASE ~ (Occupies(n) /\ ~Occupies(ctx[h]))
    <3>1. T \subseteq S
      BY <2>1, <2>3 DEF Occupies
    <3>2. QED
      BY <1>4, <3>1
  <2>4. QED
    BY <2>2, <2>3
<1>6. CASE UNCHANGED <<pc, ctx>>
  <2>1. T \subseteq S
    BY <1>6
  <2>2. QED
    BY <1>4, <2>1
<1>7. QED
  BY <1>5, <1>6

-----------------------------------------------------------------------------
(* The two histories.                                                      *)

Verdicts == {"pro", "free", "over", "under"}

HistoriesTyped ==
  /\ admitted \in [Scopes -> [Moments -> Nat]]
  /\ seen \in [Handlers -> SUBSET Verdicts]

LEMMA SeenTyped ==
  ASSUME seen \in [Handlers -> SUBSET Verdicts], Observe
  PROVE  seen' \in [Handlers -> SUBSET Verdicts]
<1>1. \A h \in Handlers : Facts(h)' \subseteq Verdicts
  BY DEF Facts, Verdicts
<1>2. seen' = [h \in Handlers |->
                 IF pc'[h] \in Undecided THEN seen[h] \cup Facts(h)'
                 ELSE IF pc'[h] = "idle" THEN {} ELSE seen[h]]
  BY DEF Observe
<1>3. QED
  BY <1>1, <1>2

(* The second hit of the limiter admits the request, at the moment of its  *)
(* first one, or it admits nothing.  No other step admits.                 *)
Admits(s, at) ==
  admitted' = [admitted EXCEPT ![s] = [t \in Moments |->
                 admitted[s][t] + IF at < t THEN 1 ELSE 0]]

LEMMA Admitting ==
  ASSUME WorldInv, HandlersInv, NEW h \in Handlers, HandlerNext(h)
  PROVE  \/ UNCHANGED admitted
         \/ /\ pc[h] = "day" /\ ctx[h].minute.at \in Nat /\ Scope(ctx[h]) \in Scopes
            /\ ~Exceeded(ctx[h].minute, "minute")
            /\ Admits(Scope(ctx[h]), ctx[h].minute.at)
<1>1. CASE HitDay(h)
  <2>1. PICK c : c = ctx[h] /\ Control("day", c) /\ Sound("day", c)
    BY <1>1 DEF HitDay, HandlersInv, Fine
  <2>2. Scope(c) \in Scopes
    <3>1. c \in Context /\ c.account # NULL
      BY <2>1 DEF Control, Located
    <3>2. QED
      BY <3>1, ScopeTyped
  <2>3. c.minute.at \in Nat
    BY <2>1 DEF Sound, Timed, EndsBy
  <2>4. /\ pc[h] = "day"
        /\ \/ UNCHANGED admitted
           \/ ~Exceeded(c.minute, "minute") /\ Admits(Scope(c), c.minute.at)
    BY <1>1, <2>1, SMTT(40) DEF HitDay, Admits
  <2>5. QED
    BY <2>1, <2>2, <2>3, <2>4
<1>2. CASE ~HitDay(h)
  BY <1>2 DEF HandlerNext, Arrive, Step, SelectUser, PoolTimeout, Provision, Reread,
     RedisStep, HitMinute, ResolveEntitlement, ReadUsage, Transcribe, Extract,
     ReadFromRate, ReadToRate, Respond, RedisFails, DatabaseFails, Abort
<1>3. QED
  BY <1>1, <1>2

LEMMA AdmittedTyped ==
  ASSUME WorldInv, HandlersInv, admitted \in [Scopes -> [Moments -> Nat]],
         NEW h \in Handlers, HandlerNext(h)
  PROVE  admitted' \in [Scopes -> [Moments -> Nat]]
<1>1. ASSUME NEW s \in Scopes, NEW at \in Nat, Admits(s, at)
      PROVE  admitted' \in [Scopes -> [Moments -> Nat]]
  <2>1. PICK f : f = [t \in Moments |-> admitted[s][t] + IF at < t THEN 1 ELSE 0]
    OBVIOUS
  <2>2. f \in [Moments -> Nat]
    BY <2>1
  <2>3. admitted' = [admitted EXCEPT ![s] = f]
    BY <1>1, <2>1 DEF Admits
  <2>4. QED
    BY <2>2, <2>3
<1>2. QED
  BY <1>1, Admitting

-----------------------------------------------------------------------------
(* The invariant.                                                          *)

ParseInv == WorldInv /\ HandlersInv /\ Pooled /\ HistoriesTyped

LEMMA InitEstablishes ==
  ASSUME Init
  PROVE  ParseInv
<1> DEFINE s == Given
<1>1. scenario \in DOMAIN Scenarios /\ s \in Scenario /\ Consistent(s)
  BY ParseAssumption DEF Init, Given
<1>2. /\ now = s.start /\ counters = s.counters /\ accounts = s.accounts
      /\ left = s.left /\ rates = s.rates
      /\ task = [w \in Workers |-> NULL] /\ quoted = Empty
      /\ ent = [u \in Users |-> NULL]
      /\ usage = [u \in Users |-> [m \in Months |-> IF m = MonthOf(now) THEN s.used ELSE 0]]
  BY DEF Init, FxInit
<1>3. LimiterTypeOK
  BY <1>1, <1>2 DEF LimiterTypeOK, Scenario, Consistent
<1>4. AccountsInv
  BY <1>1, <1>2 DEF AccountsInv, AccountsTypeOK, Scenario, Consistent
<1>5. FxInv
  <2>1. FxTypeOK
    BY <1>1, <1>2 DEF FxTypeOK, Scenario
  <2>2. /\ quoted \in Table(Quotation)
        /\ \A c \in Currencies, d \in Days : quoted[c][d] = NULL
    BY <1>2 DEF Table, Empty
  <2>3. RatesFit
    BY <1>1, <1>2 DEF Consistent, RatesFit
  <2>4. QED
    BY <2>1, <2>2, <2>3, FxAssumption DEF FxInv, NormalizedIsCrossRate, RatesFit
<1>6. WorldInv
  <2>1. left \in [Kinds -> Nat] /\ s.used \in Nat
    BY <1>1, <1>2 DEF Scenario
  <2>2. ent \in [Users -> Row \cup {NULL}] /\ usage \in [Users -> [Months -> Nat]]
    BY <1>2, <2>1
  <2>3. QED
    BY <1>1, <1>3, <1>4, <1>5, <2>1, <2>2 DEF WorldInv
<1>7. pc = [h \in Handlers |-> "idle"] /\ ctx = [h \in Handlers |-> NULL]
  BY DEF Init
<1>8. HandlersInv
  <2>1. Fine("idle", NULL)
    BY DEF Fine, Control, Phases
  <2>2. "idle" \in Phases
    BY DEF Phases
  <2>3. QED
    BY <1>7, <2>1, <2>2 DEF HandlersInv
<1>9. Pooled
  <2>1. {h \in Handlers : ctx[h] # NULL /\ ctx[h].connected} = {}
    BY <1>7
  <2>2. Connections = 0
    BY <2>1, FS_EmptySet DEF Connections
  <2>3. s.pool \in Nat
    BY <1>1 DEF Scenario
  <2>4. QED
    BY <2>2, <2>3 DEF Pooled
<1>10. HistoriesTyped
  BY DEF Init, HistoriesTyped
<1>11. QED
  BY <1>6, <1>8, <1>9, <1>10 DEF ParseInv

LEMMA StepPreserves ==
  ASSUME ParseInv, [Next]_vars
  PROVE  ParseInv'
<1>1. CASE UNCHANGED vars
  <2>1. /\ UNCHANGED worldVars /\ scenario' = scenario /\ left' = left
        /\ UNCHANGED <<pc, ctx>> /\ UNCHANGED <<admitted, seen>>
    BY <1>1 DEF vars
  <2>2. WorldInv' /\ Onward
    BY <2>1, WorldStays DEF ParseInv, WorldInv
  <2>3. HandlersInv' /\ Pooled'
    BY <2>1, <2>2, HandlersGoOn, PoolHolds DEF ParseInv
  <2>4. HistoriesTyped'
    BY <2>1 DEF ParseInv, HistoriesTyped
  <2>5. QED
    BY <2>2, <2>3, <2>4 DEF ParseInv
<1>2. ASSUME NEW h \in Handlers, HandlerNext(h), Observe, scenario' = scenario
      PROVE  ParseInv'
  <2>1. Steps(h)
    BY <1>2, HandlerSteps DEF ParseInv
  <2>2. WorldInv' /\ Onward /\ \E p, n : Goes(h, p, n)
    BY <2>1 DEF Steps
  <2>3. HandlersInv' /\ Pooled'
    BY <2>2, HandlersGoOn, PoolHolds DEF ParseInv
  <2>4. HistoriesTyped'
    BY <1>2, SeenTyped, AdmittedTyped DEF ParseInv, HistoriesTyped
  <2>5. QED
    BY <2>2, <2>3, <2>4 DEF ParseInv
<1>3. CASE WorldNext /\ Observe /\ scenario' = scenario
  <2>1. WorldInv' /\ Onward /\ UNCHANGED <<pc, ctx, admitted>>
    BY <1>3, WorldSteps DEF ParseInv
  <2>2. HandlersInv' /\ Pooled'
    BY <2>1, HandlersGoOn, PoolHolds DEF ParseInv
  <2>3. HistoriesTyped'
    BY <1>3, <2>1, SeenTyped DEF ParseInv, HistoriesTyped
  <2>4. QED
    BY <2>1, <2>2, <2>3 DEF ParseInv
<1>4. QED
  BY <1>1, <1>2, <1>3 DEF Next, Over

LEMMA InvariantHolds == Spec => []ParseInv
<1>1. Init => ParseInv
  BY InitEstablishes
<1>2. ParseInv /\ [Next]_vars => ParseInv'
  BY StepPreserves
<1>3. QED
  BY <1>1, <1>2, PTL DEF Spec

-----------------------------------------------------------------------------
(* What it says. *)

LEMMA InvariantIsTyped ==
  ASSUME ParseInv
  PROVE  ParseTypeOK
<1>1. LimiterTypeOK /\ AccountsTypeOK /\ FxTypeOK
  BY DEF ParseInv, WorldInv, AccountsInv, FxInv
<1>2. pc \in [Handlers -> {"idle", "select", "insert", "refresh", "reselect",
                           "minute", "day", "entitlement", "usage", "stt",
                           "llm", "rate_from", "rate_to", "answer"}]
  BY DEF ParseInv, HandlersInv, Phases, Located, Unlocated
<1>3. ASSUME NEW h \in Handlers
      PROVE  IF pc[h] = "idle" THEN ctx[h] = NULL
             ELSE /\ ctx[h] \in Context
                  /\ ctx[h].reply # NULL <=> pc[h] = "answer"
                  /\ pc[h] \in {"rate_from", "rate_to"} =>
                       ctx[h].answer # NULL /\ Convertible(ctx[h].answer)
  <2>1. Control(pc[h], ctx[h]) /\ (pc[h] # "idle" => Converted(pc[h], ctx[h]))
    BY DEF ParseInv, HandlersInv, Fine, Sound
  <2>2. QED
    BY <2>1 DEF Control, Converted, Located
<1>4. Cardinality({h \in Handlers : ctx[h] # NULL /\ ctx[h].connected}) <= Given.pool
  BY DEF ParseInv, Pooled, Connections
<1>5. /\ ent \in [Users -> Row \cup {NULL}]
      /\ usage \in [Users -> [Months -> Nat]]
      /\ left \in [Kinds -> Nat]
      /\ admitted \in [Scopes -> [Moments -> Nat]]
      /\ seen \in [Handlers -> SUBSET {"pro", "free", "over", "under"}]
  BY DEF ParseInv, WorldInv, HistoriesTyped, Verdicts
<1>6. QED
  BY <1>1, <1>2, <1>3, <1>4, <1>5 DEF ParseTypeOK

-----------------------------------------------------------------------------
(* The gate.  What it goes by was so at the moments at which it was read,  *)
(* and the history has seen every moment.                                  *)

Early == Unlocated \cup Undecided

Honest(p, c, s) ==
  p # "idle" =>
    /\ p = "usage" => IF c.pro THEN "pro" \in s ELSE "free" \in s
    /\ p \in Early => ~c.paid
    /\ c.paid => s \cap {"pro", "under"} # {}
    /\ c.reply = "quota_exceeded" => {"free", "over"} \subseteq s

GateInv ==
  \A h \in Handlers : /\ Honest(pc[h], ctx[h], seen[h])
                      /\ pc[h] \in Undecided => Facts(h) \subseteq seen[h]

LEMMA Observed ==
  ASSUME HistoriesTyped, Observe, NEW h \in Handlers
  PROVE  /\ pc'[h] \in Undecided => Facts(h)' \subseteq seen'[h]
         /\ pc'[h] # "idle" => seen[h] \subseteq seen'[h]
<1>1. seen'[h] = IF pc'[h] \in Undecided THEN seen[h] \cup Facts(h)'
                 ELSE IF pc'[h] = "idle" THEN {} ELSE seen[h]
  BY DEF Observe
<1>2. QED
  BY <1>1

LEMMA Moved ==
  ASSUME HandlersInv, NEW h \in Handlers, NEW p, NEW q, NEW n, Move(h, p, q, n)
  PROVE  pc[h] = p /\ pc'[h] = q /\ ctx'[h] = n
BY DEF Move, HandlersInv

LEMMA Replied ==
  ASSUME HandlersInv, NEW h \in Handlers, NEW p, NEW c \in Context, NEW reply \in Replies,
         Reply(h, p, c, reply)
  PROVE  /\ pc[h] = p /\ pc'[h] = "answer" /\ ctx'[h].reply = reply
         /\ ctx'[h].paid = c.paid
<1>1. pc[h] = p /\ pc'[h] = "answer" /\ ctx'[h] = [c EXCEPT !.reply = reply]
  BY Moved DEF Reply
<1>2. QED
  BY <1>1 DEF Context

(* The steps the gate does not depend on. *)
Neutral(h) ==
  \/ pc'[h] = "idle"
  \/ /\ pc[h] # "idle"
     /\ pc'[h] \in Early \ {"usage"} => pc[h] \in Early
     /\ pc'[h] # "usage"
     /\ ctx'[h].paid = ctx[h].paid
     /\ ctx'[h].reply # "quota_exceeded"

LEMMA NeutralIsHonest ==
  ASSUME HistoriesTyped, GateInv, NEW h \in Handlers, Neutral(h), Observe
  PROVE  Honest(pc[h], ctx[h], seen[h])'
<1>1. CASE pc'[h] = "idle"
  BY <1>1 DEF Honest
<1>2. CASE pc'[h] # "idle"
  <2>1. seen[h] \subseteq seen'[h]
    BY <1>2, Observed
  <2>2. Honest(pc[h], ctx[h], seen[h]) /\ pc[h] # "idle"
    BY <1>2 DEF GateInv, Neutral
  <2>3. QED
    BY <1>2, <2>1, <2>2 DEF Neutral, Honest
<1>3. QED
  BY <1>1, <1>2

LEMMA NeutralMove ==
  ASSUME HandlersInv, NEW h \in Handlers, NEW p, NEW q, NEW n, Move(h, p, q, n),
         pc[h] # "idle", q # "usage", q \in Early => pc[h] \in Early,
         n.paid = ctx[h].paid, n.reply # "quota_exceeded"
  PROVE  Neutral(h)
<1>1. pc'[h] = q /\ ctx'[h] = n
  BY Moved
<1>2. QED
  BY <1>1 DEF Neutral

LEMMA WorkingContext ==
  ASSUME HandlersInv, NEW h \in Handlers, pc[h] \in Unlocated \cup Located
  PROVE  /\ ctx[h] \in Context /\ ctx[h].reply = NULL /\ pc[h] # "idle"
         /\ NULL # "quota_exceeded"
<1>1. Control(pc[h], ctx[h])
  BY DEF HandlersInv, Fine
<1>2. QED
  BY <1>1, ContextAssumption DEF Control, Unlocated, Located, Replies

LEMMA ProvisioningIsNeutral ==
  ASSUME HandlersInv, NEW h \in Handlers,
         SelectUser(h) \/ PoolTimeout(h) \/ Provision(h) \/ Reread(h)
  PROVE  Neutral(h)
<1>1. pc[h] \in Unlocated /\ pc[h] \in Early /\ pc[h] # "idle"
  BY DEF SelectUser, PoolTimeout, Provision, Reread, Move, Unlocated, Early
<1>2. PICK c \in Context : c = ctx[h] /\ c.reply = NULL /\ NULL # "quota_exceeded"
  BY <1>1, WorkingContext
<1>3. CASE SelectUser(h)
  <2>1. \/ \E a \in accounts :
             Move(h, "select", "minute", [c EXCEPT !.account = a, !.connected = TRUE])
        \/ Move(h, "select", "insert", [c EXCEPT !.connected = TRUE])
    BY <1>2, <1>3 DEF SelectUser, AccountsOf
  <2>2. ASSUME NEW q \in {"minute", "insert"}, NEW n, Move(h, "select", q, n),
               n.paid = c.paid, n.reply = NULL
        PROVE  Neutral(h)
    BY <1>1, <1>2, <2>2, NeutralMove
  <2>3. CASE Move(h, "select", "insert", [c EXCEPT !.connected = TRUE])
    <3>1. PICK n : n = [c EXCEPT !.connected = TRUE]
      OBVIOUS
    <3>2. n.paid = c.paid /\ n.reply = NULL
      BY <1>2, <3>1 DEF Context
    <3>3. QED
      BY <2>2, <2>3, <3>1, <3>2
  <2>4. ASSUME NEW a \in accounts,
               Move(h, "select", "minute", [c EXCEPT !.account = a, !.connected = TRUE])
        PROVE  Neutral(h)
    <3>1. PICK n : n = [c EXCEPT !.account = a, !.connected = TRUE]
      OBVIOUS
    <3>2. n.paid = c.paid /\ n.reply = NULL
      BY <1>2, <3>1 DEF Context
    <3>3. QED
      BY <2>2, <2>4, <3>1, <3>2
  <2>5. QED
    BY <2>1, <2>3, <2>4
<1>4. CASE PoolTimeout(h)
  <2>1. Reply(h, pc[h], c, "error") /\ "error" \in Replies
    BY <1>2, <1>4 DEF PoolTimeout, Replies
  <2>2. QED
    BY <1>1, <1>2, <2>1, Replied DEF Neutral, Early, Unlocated, Undecided
<1>5. CASE Provision(h)
  <2>1. PICK q, n :
          /\ q \in {"refresh", "reselect"}
          /\ Move(h, "insert", q, n) /\ n = [c EXCEPT !.connected = FALSE]
    BY <1>2, <1>5 DEF Provision
  <2>2. n.paid = c.paid /\ n.reply = NULL
    BY <1>2, <2>1 DEF Context
  <2>3. QED
    BY <1>1, <1>2, <2>1, <2>2, NeutralMove
<1>6. CASE Reread(h)
  <2>1. PICK d : d = [c EXCEPT !.connected = TRUE]
    OBVIOUS
  <2>2. d \in Context /\ d.paid = c.paid /\ d.reply = NULL
    <3>1. d \in Context
      <4>1. c \in Context
        BY <1>2
      <4>2. QED
        BY <2>1, <4>1 DEF Context
    <3>2. d.paid = c.paid
      BY <1>2, <2>1 DEF Context
    <3>3. d.reply = NULL
      BY <1>2, <2>1 DEF Context
    <3>4. QED
      BY <3>1, <3>2, <3>3
  <2>3. \/ \E a \in accounts : Move(h, pc[h], "minute", [d EXCEPT !.account = a])
        \/ Reply(h, pc[h], d, "error")
    BY <1>2, <1>6, <2>1 DEF Reread, AccountsOf
  <2>4. ASSUME NEW a \in accounts, Move(h, pc[h], "minute", [d EXCEPT !.account = a])
        PROVE  Neutral(h)
    <3>1. PICK n : n = [d EXCEPT !.account = a]
      OBVIOUS
    <3>2. n.paid = d.paid /\ n.reply = NULL
      BY <2>2, <3>1 DEF Context
    <3>3. QED
      BY <1>1, <1>2, <2>2, <2>4, <3>1, <3>2, NeutralMove
  <2>5. CASE Reply(h, pc[h], d, "error")
    <3>1. "error" \in Replies
      BY DEF Replies
    <3>2. QED
      BY <1>1, <1>2, <2>2, <2>5, <3>1, Replied DEF Neutral, Early, Unlocated, Undecided
  <2>6. QED
    BY <2>3, <2>4, <2>5
<1>7. QED
  BY <1>3, <1>4, <1>5, <1>6

LEMMA PassingIsNeutral ==
  ASSUME HandlersInv, NEW h \in Handlers, NEW p \in {"minute", "day"},
         PassLimiter(h, p, ctx[h])
  PROVE  Neutral(h)
<1>1. pc[h] = p /\ p \in Early /\ p \in Located /\ p # "idle"
  BY DEF PassLimiter, Reply, Move, Early, Undecided, Located
<1>2. PICK c \in Context : c = ctx[h] /\ c.reply = NULL /\ NULL # "quota_exceeded"
  BY <1>1, WorkingContext
<1>3. CASE Move(h, p, "entitlement", c)
  BY <1>1, <1>2, <1>3, Moved DEF Neutral
<1>4. CASE Reply(h, p, c, "too_large")
  <2>1. "too_large" \in Replies
    BY DEF Replies
  <2>2. QED
    BY <1>1, <1>2, <1>4, <2>1, Replied DEF Neutral, Early, Unlocated, Undecided
<1>5. QED
  BY <1>2, <1>3, <1>4 DEF PassLimiter

LEMMA LimiterIsNeutral ==
  ASSUME WorldInv, HandlersInv, NEW h \in Handlers,
         \/ HitMinute(h) \/ HitDay(h)
         \/ \E w \in {"minute", "day"} : RedisFails(h, w)
  PROVE  Neutral(h)
<1>1. ASSUME NEW w \in {"minute", "day"}, RedisFails(h, w)
      PROVE  Neutral(h)
  <2>1. CASE PassLimiter(h, w, ctx[h])
    BY <2>1, PassingIsNeutral
  <2>2. CASE Reply(h, w, ctx[h], "unavailable")
    <3>1. pc[h] = w /\ w \in Early /\ w \in Located /\ "unavailable" \in Replies
      BY <2>2 DEF Reply, Move, Early, Undecided, Located, Replies
    <3>2. ctx[h] \in Context
      BY <3>1, WorkingContext
    <3>3. QED
      BY <2>2, <3>1, <3>2, Replied DEF Neutral, Early, Unlocated, Undecided
  <2>3. QED
    BY <1>1, <2>1, <2>2 DEF RedisFails
<1>2. CASE HitMinute(h)
  <2>1. pc[h] = "minute" /\ "minute" \in Early /\ "minute" \in Located
    BY <1>2 DEF HitMinute, Early, Undecided, Located
  <2>2. PICK c \in Context : c = ctx[h] /\ c.reply = NULL /\ NULL # "quota_exceeded"
    BY <2>1, WorkingContext
  <2>3. PICK m, n : Move(h, "minute", "day", n) /\ n = [c EXCEPT !.minute = m]
    BY <1>2, <2>2 DEF HitMinute
  <2>4. n.paid = c.paid /\ n.reply = NULL
    BY <2>2, <2>3 DEF Context
  <2>5. QED
    BY <2>1, <2>2, <2>3, <2>4, NeutralMove
<1>3. CASE HitDay(h)
  <2>1. pc[h] = "day" /\ "day" \in Early /\ "day" \in Located
    BY <1>3 DEF HitDay, Early, Undecided, Located
  <2>2. PICK c \in Context : c = ctx[h] /\ c.reply = NULL /\ NULL # "quota_exceeded"
    BY <2>1, WorkingContext
  <2>3. CASE PassLimiter(h, "day", c)
    BY <2>2, <2>3, PassingIsNeutral
  <2>4. ASSUME NEW w, NEW t, NEW ttl, Refuse(h, w, t, ttl)
        PROVE  Neutral(h)
    <3>1. PICK r, n : /\ Move(h, "day", "answer", n)
                      /\ n = [[c EXCEPT !.refusal = r] EXCEPT !.reply = "too_many"]
      BY <2>2, <2>4 DEF Refuse, Reply
    <3>2. n.paid = c.paid /\ n.reply = "too_many"
      BY <2>2, <3>1 DEF Context
    <3>3. QED
      BY <2>1, <2>2, <3>1, <3>2, NeutralMove
  <2>5. QED
    BY <1>3, <2>2, <2>3, <2>4 DEF HitDay
<1>4. QED
  BY <1>1, <1>2, <1>3

LEMMA PaidCallsAreNeutral ==
  ASSUME HandlersInv, NEW h \in Handlers,
         \/ Transcribe(h) \/ Extract(h)
         \/ pc[h] = "rate_from" /\ ReadFromRate(h)
         \/ pc[h] = "rate_to" /\ ReadToRate(h)
  PROVE  Neutral(h)
<1>1. pc[h] \in Located /\ pc[h] # "idle"
  BY DEF Transcribe, Extract, Converting, Reply, Move, Located
<1>2. PICK c \in Context : c = ctx[h] /\ c.reply = NULL /\ NULL # "quota_exceeded"
  BY <1>1, WorkingContext
<1>3. \A raw : ReplyOf(raw) \in Replies /\ ReplyOf(raw) # "quota_exceeded"
  BY DEF ReplyOf, StatusOf, Replies
<1>4. "failed" \in Replies /\ "error" \in Replies
  BY DEF Replies
<1>5. ASSUME NEW p, NEW d, NEW reply \in Replies \ {"quota_exceeded"},
             DOMAIN d = DOMAIN c, d.paid = c.paid, Reply(h, p, d, reply)
      PROVE  Neutral(h)
  <2>1. PICK n : Move(h, p, "answer", n) /\ n = [d EXCEPT !.reply = reply]
    BY <1>5 DEF Reply
  <2>2. "paid" \in DOMAIN d /\ "reply" \in DOMAIN d
    BY <1>5 DEF Context
  <2>3. n.paid = d.paid /\ n.reply = reply
    BY <2>1, <2>2
  <2>4. QED
    <3>1. n.paid = ctx[h].paid /\ n.reply # "quota_exceeded"
      BY <1>2, <1>5, <2>3
    <3>2. "answer" \notin Early /\ "answer" # "usage"
      BY DEF Early, Unlocated, Undecided
    <3>3. QED
      BY <1>1, <2>1, <3>1, <3>2, NeutralMove
<1>6. ASSUME NEW p, NEW q \in {"llm", "rate_from", "rate_to"}, NEW d,
             d.reply = NULL, d.paid = c.paid, Move(h, p, q, d)
      PROVE  Neutral(h)
  BY <1>1, <1>2, <1>6, Moved DEF Neutral, Early, Unlocated, Undecided
<1>7. CASE Transcribe(h)
  <2>1. PICK x, d : /\ d = [c EXCEPT !.reference = x]
                    /\ Move(h, "stt", "llm", d) \/ Reply(h, "stt", c, "failed")
    BY <1>2, <1>7 DEF Transcribe
  <2>2. d.reply = NULL /\ d.paid = c.paid
    BY <1>2, <2>1 DEF Context
  <2>3. QED
    BY <1>4, <1>5, <1>6, <2>1, <2>2
<1>8. CASE Extract(h)
  <2>1. PICK raw, known, d :
          /\ d = [c EXCEPT !.answer = raw, !.known = known]
          /\ \/ Reply(h, "llm", c, "failed")
             \/ Reply(h, "llm", c, ReplyOf(raw))
             \/ Reply(h, "llm", [d EXCEPT !.base = TRUE], ReplyOf(raw))
             \/ Move(h, "llm", "rate_from", d)
    BY <1>2, <1>8 DEF Extract, Converting
  <2>2. PICK e : e = [d EXCEPT !.base = TRUE]
    OBVIOUS
  <2>3. d.reply = NULL /\ d.paid = c.paid /\ DOMAIN d = DOMAIN c
    BY <1>2, <2>1 DEF Context
  <2>4. e.paid = c.paid /\ DOMAIN e = DOMAIN c
    <3>1. "paid" \in DOMAIN d
      BY <2>3 DEF Context
    <3>2. QED
      BY <2>2, <2>3, <3>1
  <2>5. QED
    BY <1>3, <1>4, <1>5, <1>6, <2>1, <2>2, <2>3, <2>4
<1>9. CASE ReadFromRate(h)
  <2>1. PICK x, y, d :
          /\ d = [c EXCEPT !.fromDay = x, !.rate = y]
          /\ \/ Reply(h, "rate_from", d, ReplyOf(c.answer))
             \/ Move(h, "rate_from", "rate_to", d)
    BY <1>2, <1>9 DEF ReadFromRate
  <2>2. d.reply = NULL /\ d.paid = c.paid /\ DOMAIN d = DOMAIN c
    BY <1>2, <2>1 DEF Context
  <2>3. QED
    BY <1>3, <1>5, <1>6, <2>1, <2>2
<1>10. CASE ReadToRate(h)
  <2>1. PICK x, d :
          /\ d = [c EXCEPT !.toDay = x]
          /\ \/ Reply(h, "rate_to", d, ReplyOf(c.answer))
             \/ Reply(h, "rate_to", d, "error")
             \/ Reply(h, "rate_to", [d EXCEPT !.base = TRUE], ReplyOf(c.answer))
    <3>1. PICK x, d : d = [c EXCEPT !.toDay = x]
                      /\ x = RateDay(c.account.base, SpentDay(c.answer, c.reference))
      OBVIOUS
    <3>2. \/ Reply(h, "rate_to", d, ReplyOf(c.answer))
          \/ Reply(h, "rate_to", d, "error")
          \/ Reply(h, "rate_to", [d EXCEPT !.base = TRUE], ReplyOf(c.answer))
      BY <1>2, <1>10, <3>1 DEF ReadToRate
    <3>3. QED
      BY <3>1, <3>2
  <2>2. PICK e : e = [d EXCEPT !.base = TRUE]
    OBVIOUS
  <2>3. d.paid = c.paid /\ DOMAIN d = DOMAIN c
    BY <1>2, <2>1 DEF Context
  <2>4. e.paid = c.paid /\ DOMAIN e = DOMAIN c
    <3>1. "paid" \in DOMAIN d
      BY <2>3 DEF Context
    <3>2. QED
      BY <2>2, <2>3, <3>1
  <2>5. CASE Reply(h, "rate_to", d, ReplyOf(c.answer)) \/ Reply(h, "rate_to", d, "error")
    BY <1>3, <1>4, <1>5, <2>3, <2>5
  <2>6. CASE Reply(h, "rate_to", e, ReplyOf(c.answer))
    BY <1>3, <1>5, <2>4, <2>6
  <2>7. QED
    BY <2>1, <2>2, <2>5, <2>6
<1>11. QED
  BY <1>7, <1>8, <1>9, <1>10

LEMMA LosingIsNeutral ==
  ASSUME HandlersInv, NEW h \in Handlers, DatabaseFails(h)
  PROVE  Neutral(h)
<1>1. /\ pc[h] \in Unlocated \cup Located /\ "error" \in Replies
      /\ Reply(h, pc[h], ctx[h], "error")
  BY DEF DatabaseFails, Querying, Unlocated, Located, Replies
<1>2. ctx[h] \in Context /\ pc[h] # "idle"
  BY <1>1, WorkingContext
<1>3. QED
  BY <1>1, <1>2, Replied DEF Neutral, Early, Unlocated, Undecided

LEMMA ArrivesHonest ==
  ASSUME WorldInv, HandlersInv, NEW h \in Handlers, Arrive(h)
  PROVE  Honest(pc[h], ctx[h], seen[h])'
<1>1. PICK r \in Given.requests, reply \in {"unauthorized", "error"} :
        Move(h, "idle", "select", Begun(r)) \/ Reply(h, "idle", Begun(r), reply)
  BY DEF Arrive
<1>2. r \in Request
  BY ParseAssumption DEF Given, Scenario, WorldInv
<1>3. PICK c \in Context : c = Begun(r) /\ c.reply = NULL /\ c.paid = FALSE
  <2>1. Begun(r).paid = FALSE
    BY DEF Begun
  <2>2. QED
    BY <1>2, <2>1, BegunTyped
<1>4. /\ reply \in Replies /\ reply # "quota_exceeded"
      /\ NULL # "quota_exceeded"
  BY ContextAssumption DEF Replies
<1>5. CASE Move(h, "idle", "select", Begun(r))
  <2>1. pc'[h] = "select" /\ ctx'[h] = c
    BY <1>3, <1>5, Moved
  <2>2. QED
    BY <1>3, <1>4, <2>1 DEF Honest
<1>6. CASE Reply(h, "idle", Begun(r), reply)
  <2>1. pc'[h] = "answer" /\ ctx'[h].reply = reply /\ ctx'[h].paid = FALSE
    BY <1>3, <1>4, <1>6, Replied
  <2>2. QED
    BY <1>4, <2>1 DEF Honest
<1>7. QED
  BY <1>1, <1>5, <1>6

(* The entitlement the gate goes by is that of the moment it is read.      *)
LEMMA ResolvesHonest ==
  ASSUME HandlersInv, HistoriesTyped, GateInv, Observe, NEW h \in Handlers,
         pc[h] = "entitlement", ResolveEntitlement(h)
  PROVE  Honest(pc[h], ctx[h], seen[h])'
<1>1. "entitlement" \in Located /\ "entitlement" \in Early /\ "usage" \in Undecided
      /\ "entitlement" # "idle"
  BY DEF Located, Early, Undecided
<1>2. PICK c \in Context : c = ctx[h] /\ c.reply = NULL /\ NULL # "quota_exceeded"
  BY <1>1, WorkingContext
<1>3. ~c.paid
  BY <1>1, <1>2 DEF GateInv, Honest
<1>4. PICK b, m : b = IsPro(ent[c.account.user], now) /\ m = MonthOf(now)
  OBVIOUS
<1>5. PICK n : n = [c EXCEPT !.pro = b, !.period = m]
  OBVIOUS
<1>6. n.pro = b /\ n.account = c.account
  BY <1>2, <1>5 DEF Context
<1>7. n.paid = c.paid
  BY <1>2, <1>5 DEF Context
<1>8. n.reply = NULL
  BY <1>2, <1>5 DEF Context
<1>9. Move(h, "entitlement", "usage", n)
  BY <1>2, <1>4, <1>5 DEF ResolveEntitlement
<1>10. pc'[h] = "usage" /\ ctx'[h] = n
  BY <1>9, Moved
<1>11. Facts(h)' \subseteq seen'[h]
  BY <1>1, <1>10, Observed
<1>12. IF b THEN "pro" \in seen'[h] ELSE "free" \in seen'[h]
  <2>1. ent' = ent /\ now' = now
    BY DEF ResolveEntitlement, worldVars, limiterVars
  <2>2. (IF IsPro(ent[c.account.user], now) THEN "pro" ELSE "free") \in Facts(h)'
    BY <1>6, <1>10, <2>1 DEF Facts
  <2>3. QED
    BY <1>4, <1>11, <2>2
<1>13. QED
  BY <1>3, <1>2, <1>6, <1>7, <1>8, <1>10, <1>12 DEF Honest

LEMMA GatesHonest ==
  ASSUME HandlersInv, HistoriesTyped, GateInv, Observe, NEW h \in Handlers,
         pc[h] = "usage", ReadUsage(h)
  PROVE  Honest(pc[h], ctx[h], seen[h])'
<1>1. /\ "usage" \in Located /\ "usage" \in Early /\ "usage" \in Undecided
      /\ "usage" # "idle" /\ "quota_exceeded" \in Replies
  BY DEF Located, Early, Undecided, Replies
<1>2. PICK c \in Context : c = ctx[h] /\ c.reply = NULL /\ NULL # "quota_exceeded"
  BY <1>1, WorkingContext
<1>3. ~c.paid /\ IF c.pro THEN "pro" \in seen[h] ELSE "free" \in seen[h]
  BY <1>1, <1>2 DEF GateInv, Honest
<1>4. (IF usage[c.account.user][c.period] >= Quota THEN "over" ELSE "under") \in seen[h]
  <2>1. Facts(h) \subseteq seen[h]
    BY <1>1 DEF GateInv
  <2>2. (IF usage[c.account.user][c.period] >= Quota THEN "over" ELSE "under") \in Facts(h)
    BY <1>2 DEF Facts
  <2>3. QED
    BY <2>1, <2>2
<1>5. CASE /\ OverQuota(c.pro, usage[c.account.user][c.period], Quota)
           /\ Reply(h, "usage", c, "quota_exceeded")
  <2>1. pc'[h] = "answer" /\ ctx'[h].reply = "quota_exceeded" /\ ctx'[h].paid = c.paid
    BY <1>1, <1>5, Replied
  <2>2. {"free", "over"} \subseteq seen[h]
    BY <1>3, <1>4, <1>5 DEF OverQuota
  <2>3. seen[h] \subseteq seen'[h]
    BY <2>1, Observed
  <2>4. QED
    BY <1>3, <2>1, <2>2, <2>3 DEF Honest, Early, Unlocated, Undecided
<1>6. ASSUME ~OverQuota(c.pro, usage[c.account.user][c.period], Quota),
             NEW q \in {"llm", "stt"}, NEW x, NEW n,
             n = [c EXCEPT !.paid = TRUE, !.reference = x], Move(h, "usage", q, n)
      PROVE  Honest(pc[h], ctx[h], seen[h])'
  <2>1. n.reply = NULL
    BY <1>2, <1>6 DEF Context
  <2>2. pc'[h] = q /\ ctx'[h] = n
    BY <1>6, Moved
  <2>3. "pro" \in seen[h] \/ "under" \in seen[h]
    BY <1>3, <1>4, <1>6 DEF OverQuota
  <2>4. seen[h] \subseteq seen'[h]
    BY <1>6, <2>2, Observed
  <2>5. QED
    BY <1>2, <1>6, <2>1, <2>2, <2>3, <2>4 DEF Honest, Early, Unlocated, Undecided
<1>7. \/ /\ OverQuota(c.pro, usage[c.account.user][c.period], Quota)
         /\ Reply(h, "usage", c, "quota_exceeded")
      \/ /\ ~OverQuota(c.pro, usage[c.account.user][c.period], Quota)
         /\ \E q \in {"llm", "stt"} : \E x, n :
              /\ n = [c EXCEPT !.paid = TRUE, !.reference = x]
              /\ Move(h, "usage", q, n)
  BY <1>2 DEF ReadUsage
<1>8. QED
  BY <1>5, <1>6, <1>7

LEMMA HandlerIsHonest ==
  ASSUME WorldInv, HandlersInv, HistoriesTyped, GateInv, Observe,
         NEW h \in Handlers, HandlerNext(h)
  PROVE  Honest(pc[h], ctx[h], seen[h])'
<1>1. CASE Arrive(h)
  BY <1>1, ArrivesHonest
<1>2. CASE pc[h] = "entitlement" /\ ResolveEntitlement(h)
  BY <1>2, ResolvesHonest
<1>3. CASE pc[h] = "usage" /\ ReadUsage(h)
  BY <1>3, GatesHonest
<1>4. CASE Respond(h) \/ Abort(h)
  <2>1. Neutral(h)
    BY <1>4, Moved DEF Respond, Abort, Neutral
  <2>2. QED
    BY <2>1, NeutralIsHonest
<1>5. ASSUME Neutral(h)
      PROVE  Honest(pc[h], ctx[h], seen[h])'
  BY <1>5, NeutralIsHonest
<1>6. QED
  BY <1>1, <1>2, <1>3, <1>4, <1>5, ProvisioningIsNeutral, LimiterIsNeutral,
     PaidCallsAreNeutral, LosingIsNeutral DEF HandlerNext, Step, RedisStep

(* Whoever does not move is seen in any case. *)
LEMMA OthersAreHonest ==
  ASSUME HistoriesTyped, GateInv, Observe, NEW h \in Handlers,
         pc'[h] = pc[h], ctx'[h] = ctx[h]
  PROVE  Honest(pc[h], ctx[h], seen[h])'
<1>1. Honest(pc[h], ctx[h], seen[h])
  BY DEF GateInv
<1>2. pc'[h] # "idle" => seen[h] \subseteq seen'[h]
  BY Observed
<1>3. QED
  BY <1>1, <1>2 DEF Honest

LEMMA GateHolds ==
  ASSUME ParseInv, GateInv, [Next]_vars
  PROVE  GateInv'
<1>1. CASE UNCHANGED vars
  BY <1>1 DEF vars, worldVars, limiterVars, GateInv, Honest, Facts
<1>2. ASSUME Observe, \A h \in Handlers : Honest(pc[h], ctx[h], seen[h])'
      PROVE  GateInv'
  <2>1. \A h \in Handlers : (pc[h] \in Undecided => Facts(h) \subseteq seen[h])'
    BY <1>2, Observed DEF ParseInv
  <2>2. QED
    BY <1>2, <2>1 DEF GateInv
<1>3. ASSUME NEW h \in Handlers, HandlerNext(h), Observe, scenario' = scenario
      PROVE  GateInv'
  <2>1. PICK p, n : Goes(h, p, n)
    BY <1>3, HandlerSteps DEF ParseInv, Steps
  <2>2. \A k \in Handlers : k # h => pc'[k] = pc[k] /\ ctx'[k] = ctx[k]
    BY <2>1 DEF Goes, ParseInv, HandlersInv
  <2>3. \A k \in Handlers : k # h => Honest(pc[k], ctx[k], seen[k])'
    BY <1>3, <2>2, OthersAreHonest DEF ParseInv
  <2>4. Honest(pc[h], ctx[h], seen[h])'
    BY <1>3, HandlerIsHonest DEF ParseInv
  <2>5. QED
    BY <1>2, <1>3, <2>3, <2>4
<1>4. CASE WorldNext /\ Observe /\ scenario' = scenario
  <2>1. UNCHANGED <<pc, ctx>>
    BY <1>4, WorldSteps DEF ParseInv
  <2>2. \A k \in Handlers : Honest(pc[k], ctx[k], seen[k])'
    BY <1>4, <2>1, OthersAreHonest DEF ParseInv
  <2>3. QED
    BY <1>2, <1>4, <2>2
<1>5. QED
  BY <1>1, <1>3, <1>4 DEF Next, Over

LEMMA GateInitially ==
  ASSUME Init
  PROVE  GateInv
BY DEF Init, GateInv, Honest, Undecided

-----------------------------------------------------------------------------
(* The limit.  P tells how many requests of a scope, with their first hit  *)
(* before a moment, count against it; k is the scope's counter of the      *)
(* minute, m the present, L the length of the window and M its limit.      *)
(* A running window has taken at most the limit, and less since the moment *)
(* it started; the interval before its start, or before the present if     *)
(* there is no window, holds less than the limit.                          *)

Spaced(P, k, m, L, M) ==
  /\ P \in [Moments -> Nat]
  /\ \A t, n \in Moments : t <= n => P[t] <= P[n]
  /\ \A n \in Moments : P[n] <= P[m + 1]
  /\ \A t, n \in Moments : t <= n /\ n <= t + L => P[n] - P[t] < 2 * M
  /\ k = NULL =>
       /\ P[m + 1] <= P[m]
       /\ \A t \in Moments : t <= m /\ m < t + L => P[m] - P[t] < M
  /\ k # NULL =>
       /\ k \in Counter /\ k.started <= m /\ k.expires = k.started + L
       /\ P[m + 1] - P[k.started] <= M /\ P[m + 1] - P[k.started] <= k.count
       /\ P[m + 1] - P[k.started + 1] < M /\ P[m + 1] - P[k.started + 1] < k.count
       /\ \A t \in Moments :
            t <= k.started /\ k.started < t + L => P[k.started] - P[t] < M

LEMMA SpacedInitially ==
  ASSUME NEW P, P = [t \in Moments |-> 0], NEW k \in Counter \cup {NULL},
         NEW m \in 0 .. Horizon, NEW L \in Nat \ {0}, NEW M \in Nat \ {0},
         k # NULL => k.started <= m /\ k.expires = k.started + L
  PROVE  Spaced(P, k, m, L, M)
<1>1. /\ P \in [Moments -> Nat] /\ \A t \in Moments : P[t] = 0
      /\ m \in Moments /\ m + 1 \in Moments
  BY ClockAssumption DEF Moments
<1>2. k # NULL => /\ k \in Counter /\ k.started \in Moments /\ k.started + 1 \in Moments
                  /\ k.count \in Nat \ {0}
  BY ClockAssumption DEF Moments, Counter
<1>3. QED
  BY <1>1, <1>2 DEF Spaced

LEMMA MomentsAfter ==
  ASSUME NEW m \in 0 .. Horizon
  PROVE  /\ Moments \subseteq Nat /\ m \in Nat
         /\ m \in Moments /\ m + 1 \in Moments
         /\ m + 1 <= Horizon => m + 2 \in Moments
         /\ \A a \in Nat : a <= m => /\ a \in Moments /\ a + 1 \in Moments
                                     /\ a <= m + 1 /\ a + 1 <= m + 1
BY ClockAssumption DEF Moments

(* Fewer requests in any interval are as well spaced. *)
LEMMA FewerAreSpaced ==
  ASSUME NEW P, NEW k, NEW m \in 0 .. Horizon, NEW L \in Nat \ {0}, NEW M \in Nat \ {0},
         Spaced(P, k, m, L, M), NEW Q \in [Moments -> Nat],
         \A t, n \in Moments : t <= n => Q[t] <= Q[n] /\ Q[n] - Q[t] <= P[n] - P[t]
  PROVE  Spaced(Q, k, m, L, M)
<1>1. /\ P \in [Moments -> Nat] /\ Moments \subseteq Nat
      /\ m \in Moments /\ m + 1 \in Moments /\ m \in Nat
  <2>1. P \in [Moments -> Nat]
    BY DEF Spaced
  <2>2. QED
    BY <2>1, MomentsAfter
<1>2. ASSUME NEW n \in Moments PROVE Q[n] <= Q[m + 1]
  <2>1. P[n] <= P[m + 1]
    BY DEF Spaced
  <2>2. /\ n <= m + 1 => Q[n] <= Q[m + 1]
        /\ m + 1 <= n => Q[n] - Q[m + 1] <= P[n] - P[m + 1]
    BY <1>1
  <2>3. /\ P[n] \in Nat /\ P[m + 1] \in Nat /\ Q[n] \in Nat /\ Q[m + 1] \in Nat /\ n \in Nat
    BY <1>1
  <2>4. QED
    BY <1>1, <2>1, <2>2, <2>3
<1>3. ASSUME NEW t \in Moments, NEW n \in Moments, t <= n, NEW b \in Int
      PROVE  /\ P[n] - P[t] < b => Q[n] - Q[t] < b
             /\ P[n] - P[t] <= b => Q[n] - Q[t] <= b
  <2>1. Q[n] - Q[t] <= P[n] - P[t]
    BY <1>3
  <2>2. P[n] \in Nat /\ P[t] \in Nat /\ Q[n] \in Nat /\ Q[t] \in Nat
    BY <1>1
  <2>3. QED
    BY <2>1, <2>2
<1>4. ASSUME NEW t \in Moments, NEW n \in Moments, t <= n, n <= t + L
      PROVE  Q[n] - Q[t] < 2 * M
  BY <1>3, <1>4 DEF Spaced
<1>5. ASSUME k = NULL
      PROVE  /\ Q[m + 1] <= Q[m]
             /\ \A t \in Moments : t <= m /\ m < t + L => Q[m] - Q[t] < M
  <2>1. /\ P[m + 1] <= P[m] /\ Q[m + 1] - Q[m] <= P[m + 1] - P[m]
        /\ P[m + 1] \in Nat /\ P[m] \in Nat /\ Q[m + 1] \in Nat /\ Q[m] \in Nat
    BY <1>1, <1>5 DEF Spaced
  <2>2. Q[m + 1] <= Q[m]
    BY <2>1
  <2>3. QED
    BY <1>1, <1>3, <1>5, <2>2 DEF Spaced
<1>6. ASSUME k # NULL
      PROVE  /\ k \in Counter /\ k.started <= m /\ k.expires = k.started + L
             /\ Q[m + 1] - Q[k.started] <= M /\ Q[m + 1] - Q[k.started] <= k.count
             /\ Q[m + 1] - Q[k.started + 1] < M /\ Q[m + 1] - Q[k.started + 1] < k.count
             /\ \A t \in Moments :
                  t <= k.started /\ k.started < t + L => Q[k.started] - Q[t] < M
  <2>1. PICK a \in Nat, c \in Nat : a = k.started /\ c = k.count
    BY <1>6 DEF Spaced, Counter
  <2>2. /\ k \in Counter /\ a <= m /\ k.expires = a + L
        /\ P[m + 1] - P[a] <= M /\ P[m + 1] - P[a] <= c
        /\ P[m + 1] - P[a + 1] < M /\ P[m + 1] - P[a + 1] < c
        /\ \A t \in Moments : t <= a /\ a < t + L => P[a] - P[t] < M
    BY <1>6, <2>1 DEF Spaced
  <2>3. a \in Moments /\ a + 1 \in Moments /\ a <= m + 1 /\ a + 1 <= m + 1
    <3>1. a \in Nat /\ a <= m
      BY <2>2
    <3>2. QED
      BY <3>1, MomentsAfter
  <2>4. /\ Q[m + 1] - Q[a] <= M /\ Q[m + 1] - Q[a] <= c
        /\ Q[m + 1] - Q[a + 1] < M /\ Q[m + 1] - Q[a + 1] < c
    BY <1>1, <1>3, <2>2, <2>3
  <2>5. \A t \in Moments : t <= a /\ a < t + L => Q[a] - Q[t] < M
    BY <1>3, <2>2, <2>3
  <2>6. QED
    BY <2>1, <2>2, <2>4, <2>5
<1>7. QED
  BY <1>2, <1>4, <1>5, <1>6 DEF Spaced

(* A hit, which may let one more through, if its count is within the limit.*)
LEMMA HitIsSpaced ==
  ASSUME NEW P, NEW k, NEW m \in 0 .. Horizon, NEW L \in Nat \ {0}, NEW M \in Nat \ {0},
         Spaced(P, k, m, L, M), NEW j \in Counter, j # NULL,
         k = NULL => j.count = 1 /\ j.started = m /\ j.expires = m + L,
         k # NULL => /\ m < k.expires /\ j.count = k.count + 1
                     /\ j.started = k.started /\ j.expires = k.expires,
         NEW Q \in [Moments -> Nat], NEW more \in {0, 1}, more = 1 => j.count <= M,
         \A t \in Moments : Q[t] = P[t] + IF m < t THEN more ELSE 0
  PROVE  Spaced(Q, j, m, L, M)
<1>1. /\ P \in [Moments -> Nat] /\ Moments \subseteq Nat
      /\ m \in Moments /\ m + 1 \in Moments /\ m \in Nat
  <2>1. P \in [Moments -> Nat]
    BY DEF Spaced
  <2>2. QED
    BY <2>1, MomentsAfter
<1>2. /\ \A t \in Moments : t <= m => Q[t] = P[t]
      /\ \A t \in Moments : m < t => Q[t] = P[t] + more
      /\ \A t \in Moments : P[t] \in Nat /\ P[t] <= P[m + 1]
      /\ \A t, n \in Moments : t <= n => P[t] <= P[n]
  BY <1>1 DEF Spaced
<1>3. PICK a \in Nat, c \in Nat \ {0} : a = j.started /\ c = j.count
  BY DEF Counter
<1>4. a <= m /\ j.expires = a + L /\ a \in Moments /\ a + 1 \in Moments
  <2>1. a <= m /\ j.expires = a + L
    BY <1>1, <1>3 DEF Spaced
  <2>2. a \in Moments /\ a + 1 \in Moments
    BY <2>1, MomentsAfter
  <2>3. QED
    BY <2>1, <2>2
<1>5. /\ P[m + 1] + more - P[a] <= M /\ P[m + 1] + more - P[a] <= c
      /\ a < m => /\ P[m + 1] + more - P[a + 1] < M
                  /\ P[m + 1] + more - P[a + 1] < c
      /\ \A t \in Moments : t <= a /\ a < t + L => P[a] - P[t] < M
  <2>1. CASE k = NULL
    <3>1. a = m /\ c = 1
      BY <1>3, <2>1
    <3>2. /\ P[m + 1] <= P[m]
          /\ \A t \in Moments : t <= m /\ m < t + L => P[m] - P[t] < M
      BY <2>1 DEF Spaced
    <3>3. P[m + 1] \in Nat /\ P[m] \in Nat
      BY <1>1
    <3>4. QED
      BY <1>1, <3>1, <3>2, <3>3
  <2>2. CASE k # NULL
    <3>1. PICK b \in Nat : b = k.count
      BY <2>2 DEF Spaced, Counter
    <3>2. a = k.started /\ c = b + 1
      BY <1>3, <2>2, <3>1
    <3>3. /\ P[m + 1] - P[a] <= M /\ P[m + 1] - P[a] <= b
          /\ P[m + 1] - P[a + 1] < M /\ P[m + 1] - P[a + 1] < b
          /\ \A t \in Moments : t <= a /\ a < t + L => P[a] - P[t] < M
      BY <2>2, <3>1, <3>2 DEF Spaced
    <3>4. P[m + 1] \in Nat /\ P[a] \in Nat /\ P[a + 1] \in Nat
      BY <1>1, <1>4
    <3>5. more = 1 => c <= M
      BY <1>3
    <3>6. /\ P[m + 1] + more - P[a] <= M /\ P[m + 1] + more - P[a] <= c
          /\ P[m + 1] + more - P[a + 1] < M /\ P[m + 1] + more - P[a + 1] < c
      BY <3>2, <3>3, <3>4, <3>5
    <3>7. QED
      BY <3>3, <3>6
  <2>3. QED
    BY <2>1, <2>2
<1>6. ASSUME NEW t \in Moments, NEW n \in Moments, t <= n PROVE Q[t] <= Q[n]
  BY <1>1, <1>2, <1>6
<1>7. ASSUME NEW n \in Moments PROVE Q[n] <= Q[m + 1]
  BY <1>1, <1>2
<1>8. ASSUME NEW t \in Moments, NEW n \in Moments, t <= n, n <= t + L
      PROVE  Q[n] - Q[t] < 2 * M
  <2>1. /\ P[n] - P[t] < 2 * M /\ P[n] \in Nat /\ P[t] \in Nat /\ t \in Nat /\ n \in Nat
        /\ P[a] \in Nat /\ P[m + 1] \in Nat /\ P[n] <= P[m + 1]
    BY <1>1, <1>2, <1>4, <1>8 DEF Spaced
  <2>2. CASE n <= m
    BY <1>1, <1>2, <1>8, <2>1, <2>2
  <2>3. CASE m < t
    <3>1. Q[n] = P[n] + more /\ Q[t] = P[t] + more
      BY <1>1, <1>2, <1>8, <2>1, <2>3
    <3>2. QED
      BY <2>1, <3>1
  <2>4. CASE t <= m /\ m < n
    <3>1. Q[n] = P[n] + more /\ Q[t] = P[t]
      BY <1>2, <2>4
    <3>2. CASE a <= t
      <4>1. P[a] <= P[t]
        BY <1>2, <1>4, <3>2
      <4>2. QED
        BY <1>5, <2>1, <3>1, <4>1
    <3>3. CASE t < a
      <4>1. t <= a /\ a < t + L
        BY <1>1, <1>4, <1>8, <2>1, <2>4, <3>3
      <4>2. P[a] - P[t] < M
        BY <1>5, <4>1
      <4>3. QED
        BY <1>5, <2>1, <3>1, <4>2
    <3>4. QED
      BY <2>1, <3>2, <3>3
  <2>5. QED
    BY <1>1, <2>1, <2>2, <2>3, <2>4
<1>9. Q[m + 1] - Q[a] <= M /\ Q[m + 1] - Q[a] <= c
  <2>1. Q[m + 1] = P[m + 1] + more /\ Q[a] = P[a]
    BY <1>1, <1>2, <1>4
  <2>2. P[m + 1] + more - P[a] <= M /\ P[m + 1] + more - P[a] <= c
    BY <1>5
  <2>3. /\ P[m + 1] \in Nat /\ P[a] \in Nat /\ Q[m + 1] \in Nat /\ Q[a] \in Nat
        /\ more \in Nat
    BY <1>1, <1>4
  <2>4. QED
    BY <2>1, <2>2, <2>3
<1>10. Q[m + 1] - Q[a + 1] < M /\ Q[m + 1] - Q[a + 1] < c
  <2>1. Q[m + 1] = P[m + 1] + more
    BY <1>1, <1>2
  <2>2. CASE a = m
    <3>1. Q[m + 1] \in Nat
      BY <1>1
    <3>2. QED
      BY <2>2, <3>1, <1>3
  <2>3. CASE a < m
    <3>1. Q[a + 1] = P[a + 1]
      BY <1>1, <1>2, <1>4, <2>3
    <3>2. P[m + 1] + more - P[a + 1] < M /\ P[m + 1] + more - P[a + 1] < c
      BY <1>5, <2>3
    <3>3. /\ P[m + 1] \in Nat /\ P[a + 1] \in Nat
          /\ Q[m + 1] \in Nat /\ Q[a + 1] \in Nat /\ more \in Nat
      BY <1>1, <1>4
    <3>4. QED
      BY <2>1, <3>1, <3>2, <3>3
  <2>4. QED
    BY <1>1, <1>4, <2>2, <2>3
<1>11. \A t \in Moments : t <= a /\ a < t + L => Q[a] - Q[t] < M
  BY <1>1, <1>2, <1>4, <1>5
<1>12. QED
  BY <1>3, <1>4, <1>6, <1>7, <1>8, <1>9, <1>10, <1>11 DEF Spaced

(* The clock ticks, and the window may end. *)
LEMMA TickIsSpaced ==
  ASSUME NEW P, NEW k, NEW m \in 0 .. Horizon, m + 1 <= Horizon,
         NEW L \in Nat \ {0}, NEW M \in Nat \ {0}, Spaced(P, k, m, L, M), NEW j,
         j = IF k # NULL /\ k.expires <= m + 1 THEN NULL ELSE k
  PROVE  Spaced(P, j, m + 1, L, M)
<1>1. /\ P \in [Moments -> Nat] /\ Moments \subseteq Nat
      /\ m \in Moments /\ m + 1 \in Moments /\ m + 2 \in Moments /\ m \in Nat
      /\ (m + 1) + 1 = m + 2
  BY ClockAssumption DEF Moments, Spaced
<1>2. /\ \A t \in Moments : P[t] \in Nat /\ P[t] <= P[m + 1]
      /\ \A t, n \in Moments : t <= n => P[t] <= P[n]
      /\ \A t, n \in Moments : t <= n /\ n <= t + L => P[n] - P[t] < 2 * M
  BY <1>1 DEF Spaced
<1>3. P[m + 2] = P[m + 1]
  BY <1>1, <1>2
<1>4. CASE k = NULL
  <2>1. /\ P[m + 1] <= P[m] /\ P[m] <= P[m + 1]
        /\ \A t \in Moments : t <= m /\ m < t + L => P[m] - P[t] < M
    BY <1>1, <1>2, <1>4 DEF Spaced
  <2>2. ASSUME NEW t \in Moments, t <= m + 1, m + 1 < t + L PROVE P[m + 1] - P[t] < M
    <3>1. P[m + 1] \in Nat /\ P[m] \in Nat /\ P[t] \in Nat /\ t \in Nat
      BY <1>1
    <3>2. CASE t = m + 1
      BY <3>1, <3>2
    <3>3. CASE t <= m
      <4>1. m < t + L
        BY <1>1, <2>2, <3>1
      <4>2. QED
        BY <2>1, <3>1, <3>3, <4>1
    <3>4. QED
      BY <1>1, <2>2, <3>1, <3>2, <3>3
  <2>3. j = NULL
    BY <1>4
  <2>4. QED
    BY <1>1, <1>2, <1>3, <2>2, <2>3 DEF Spaced
<1>5. CASE k # NULL
  <2>1. PICK a \in Nat : a = k.started /\ a <= m /\ k.expires = a + L
    BY <1>5 DEF Spaced, Counter
  <2>2. a \in Moments /\ a + 1 \in Moments
    BY <1>1, <2>1, ClockAssumption, SMTT(30) DEF Moments
  <2>3. P[m + 1] - P[a + 1] < M
    BY <1>5, <2>1 DEF Spaced
  <2>4. CASE k.expires <= m + 1
    <3>1. j = NULL
      BY <1>5, <2>4
    <3>2. ASSUME NEW t \in Moments, t <= m + 1, m + 1 < t + L PROVE P[m + 1] - P[t] < M
      <4>1. a + 1 <= t
        BY <1>1, <2>1, <2>4, <3>2
      <4>2. P[a + 1] <= P[t] /\ P[a + 1] \in Nat /\ P[t] \in Nat /\ P[m + 1] \in Nat
        BY <1>1, <1>2, <2>2, <4>1
      <4>3. QED
        BY <2>3, <4>2
    <3>3. QED
      BY <1>1, <1>2, <1>3, <3>1, <3>2 DEF Spaced
  <2>5. CASE ~ (k.expires <= m + 1)
    <3>1. j = k /\ a <= m + 1
      BY <1>1, <2>1, <2>5
    <3>2. QED
      BY <1>1, <1>2, <1>3, <1>5, <2>1, <3>1 DEF Spaced
  <2>6. QED
    BY <2>4, <2>5
<1>6. QED
  BY <1>4, <1>5

(* What counts against a scope's limit: what was admitted, and what waits  *)
(* between its two hits and may be.  f is what was admitted, p and x are   *)
(* the handlers' places and local variables.                               *)
WaitingIn(p, x, s, t) ==
  {h \in Handlers : /\ p[h] = "day" /\ Scope(x[h]) = s
                    /\ ~Exceeded(x[h].minute, "minute") /\ x[h].minute.at < t}

Taken(f, p, x, s) == [t \in Moments |-> f[t] + Cardinality(WaitingIn(p, x, s, t))]

Dated(p, x) == \A h \in Handlers : p[h] = "day" => x[h].minute.at \in Nat
Rising(f) == \A t, n \in Moments : t <= n => f[t] <= f[n]

LimitInv ==
  \A s \in Scopes :
    /\ Rising(admitted[s])
    /\ Spaced(Taken(admitted[s], pc, ctx, s), counters[s]["minute"], now,
              Length["minute"], Limit["minute"])

LEMMA WaitingFinite ==
  ASSUME NEW p, NEW x, NEW s, NEW t
  PROVE  /\ IsFiniteSet(WaitingIn(p, x, s, t))
         /\ Cardinality(WaitingIn(p, x, s, t)) \in Nat
<1>1. WaitingIn(p, x, s, t) \in SUBSET Handlers
  BY DEF WaitingIn
<1>2. IsFiniteSet(WaitingIn(p, x, s, t))
  BY <1>1, FS_Subset, ParseAssumption
<1>3. QED
  BY <1>2, FS_CardinalityType

LEMMA TakenTyped ==
  ASSUME NEW f \in [Moments -> Nat], Rising(f), NEW p, NEW x, Dated(p, x), NEW s
  PROVE  Taken(f, p, x, s) \in [Moments -> Nat] /\ Rising(Taken(f, p, x, s))
<1>1. \A t \in Moments : Taken(f, p, x, s)[t] = f[t] + Cardinality(WaitingIn(p, x, s, t))
  BY DEF Taken
<1>2. Taken(f, p, x, s) \in [Moments -> Nat]
  BY WaitingFinite DEF Taken
<1>3. ASSUME NEW t \in Moments, NEW n \in Moments, t <= n
      PROVE  Taken(f, p, x, s)[t] <= Taken(f, p, x, s)[n]
  <2>1. t \in Nat /\ n \in Nat
    BY ClockAssumption DEF Moments
  <2>2. WaitingIn(p, x, s, t) \in SUBSET WaitingIn(p, x, s, n)
    BY <1>3, <2>1 DEF WaitingIn, Dated
  <2>3. Cardinality(WaitingIn(p, x, s, t)) <= Cardinality(WaitingIn(p, x, s, n))
    BY <2>2, WaitingFinite, FS_Subset
  <2>4. f[t] <= f[n] /\ f[t] \in Nat /\ f[n] \in Nat
    BY <1>3 DEF Rising
  <2>5. /\ Cardinality(WaitingIn(p, x, s, t)) \in Nat
        /\ Cardinality(WaitingIn(p, x, s, n)) \in Nat
    BY WaitingFinite
  <2>6. QED
    BY <1>1, <2>3, <2>4, <2>5
<1>4. QED
  BY <1>2, <1>3 DEF Rising

(* A handler that does not wait after its step takes no more: if it waited,*)
(* it is admitted, or refused or gone.                                     *)
LEMMA LeavingTakesLess ==
  ASSUME NEW f \in [Moments -> Nat], NEW g \in [Moments -> Nat],
         NEW p, NEW x, NEW q, NEW y, Dated(p, x), NEW s, NEW h \in Handlers,
         q[h] # "day", \A i \in Handlers : i # h => q[i] = p[i] /\ y[i] = x[i],
         \/ g = f
         \/ /\ p[h] = "day" /\ Scope(x[h]) = s /\ ~Exceeded(x[h].minute, "minute")
            /\ \A t \in Moments : g[t] = f[t] + IF x[h].minute.at < t THEN 1 ELSE 0
  PROVE  \A t, n \in Moments :
           t <= n => Taken(g, q, y, s)[n] - Taken(g, q, y, s)[t]
                       <= Taken(f, p, x, s)[n] - Taken(f, p, x, s)[t]
<1> DEFINE W(t) == WaitingIn(p, x, s, t)
<1> DEFINE V(t) == WaitingIn(q, y, s, t)
<1> DEFINE was(t) == IF h \in W(t) THEN 1 ELSE 0
<1>1. \A t : /\ Cardinality(W(t)) \in Nat /\ Cardinality(V(t)) \in Nat
             /\ Cardinality(V(t)) = Cardinality(W(t)) - was(t)
  <2>1. ASSUME NEW t PROVE V(t) = W(t) \ {h}
    BY DEF WaitingIn
  <2>2. ASSUME NEW t
        PROVE  Cardinality(W(t) \ {h}) = Cardinality(W(t)) - was(t)
    <3>1. IsFiniteSet(W(t)) /\ Cardinality(W(t)) \in Nat
      BY WaitingFinite
    <3>2. Cardinality(W(t) \ {h}) = IF h \in W(t) THEN Cardinality(W(t)) - 1
                                    ELSE Cardinality(W(t))
      BY <3>1, FS_RemoveElement
    <3>3. QED
      BY <3>1, <3>2
  <2>3. QED
    BY <2>1, <2>2, WaitingFinite
<1>2. ASSUME NEW t \in Moments, NEW n \in Moments, t <= n
      PROVE  /\ g = f => was(t) <= was(n)
             /\ g # f => /\ g[t] = f[t] + was(t)
                         /\ g[n] = f[n] + was(n)
             /\ was(t) \in {0, 1} /\ was(n) \in {0, 1}
  <2>1. t \in Nat /\ n \in Nat
    BY ClockAssumption DEF Moments
  <2>2. h \in W(t) => h \in W(n)
    BY <1>2, <2>1 DEF WaitingIn, Dated
  <2>3. g # f => (h \in W(t) <=> x[h].minute.at < t) /\ (h \in W(n) <=> x[h].minute.at < n)
    BY DEF WaitingIn
  <2>4. QED
    BY <2>2, <2>3
<1> HIDE DEF W, V, was
<1>3. ASSUME NEW t \in Moments, NEW n \in Moments, t <= n
      PROVE  Taken(g, q, y, s)[n] - Taken(g, q, y, s)[t]
               <= Taken(f, p, x, s)[n] - Taken(f, p, x, s)[t]
  <2>1. /\ Taken(g, q, y, s)[n] = g[n] + Cardinality(V(n))
        /\ Taken(g, q, y, s)[t] = g[t] + Cardinality(V(t))
        /\ Taken(f, p, x, s)[n] = f[n] + Cardinality(W(n))
        /\ Taken(f, p, x, s)[t] = f[t] + Cardinality(W(t))
    BY DEF Taken, V, W
  <2>2. PICK wn \in Nat, wt \in Nat, vn \in Nat, vt \in Nat :
          /\ wn = Cardinality(W(n)) /\ wt = Cardinality(W(t))
          /\ vn = Cardinality(V(n)) /\ vt = Cardinality(V(t))
    BY <1>1
  <2>3. PICK fn \in Nat, ft \in Nat, gn \in Nat, gt \in Nat :
          /\ fn = f[n] /\ ft = f[t] /\ gn = g[n] /\ gt = g[t]
    OBVIOUS
  <2>4. PICK on \in {0, 1}, ot \in {0, 1} : on = was(n) /\ ot = was(t)
    BY <1>2, <1>3
  <2>5. vn = wn - on /\ vt = wt - ot
    BY <1>1, <2>2, <2>4
  <2>6. \/ gn = fn /\ gt = ft /\ ot <= on
        \/ gn = fn + on /\ gt = ft + ot
    BY <1>2, <1>3, <2>3, <2>4
  <2>7. (gn + vn) - (gt + vt) <= (fn + wn) - (ft + wt)
    BY <2>5, <2>6
  <2>8. QED
    BY <2>1, <2>2, <2>3, <2>7
<1>4. QED
  BY <1>3

(* The first hit at m takes one place from m on, if its count allows.      *)
LEMMA JoiningTakesOne ==
  ASSUME NEW f \in [Moments -> Nat], NEW p, NEW x, NEW q, NEW y, NEW s,
         NEW h \in Handlers, p[h] # "day", q[h] = "day", Scope(y[h]) = s,
         \A i \in Handlers : i # h => q[i] = p[i] /\ y[i] = x[i],
         NEW m \in Nat, y[h].minute.at = m
  PROVE  \A t \in Moments :
           Taken(f, q, y, s)[t] =
             Taken(f, p, x, s)[t]
               + IF m < t THEN (IF Exceeded(y[h].minute, "minute") THEN 0 ELSE 1) ELSE 0
<1>1. ASSUME NEW t \in Moments
      PROVE  Taken(f, q, y, s)[t] =
               Taken(f, p, x, s)[t]
                 + IF m < t THEN (IF Exceeded(y[h].minute, "minute") THEN 0 ELSE 1) ELSE 0
  <2>1. /\ Taken(f, q, y, s)[t] = f[t] + Cardinality(WaitingIn(q, y, s, t))
        /\ Taken(f, p, x, s)[t] = f[t] + Cardinality(WaitingIn(p, x, s, t))
    BY DEF Taken
  <2>2. /\ IsFiniteSet(WaitingIn(p, x, s, t))
        /\ Cardinality(WaitingIn(p, x, s, t)) \in Nat /\ f[t] \in Nat
        /\ h \notin WaitingIn(p, x, s, t)
    <3>1. h \notin WaitingIn(p, x, s, t)
      BY DEF WaitingIn
    <3>2. QED
      BY <3>1, WaitingFinite
  <2>3. CASE m < t /\ ~Exceeded(y[h].minute, "minute")
    <3>1. WaitingIn(q, y, s, t) = WaitingIn(p, x, s, t) \cup {h}
      BY <2>3 DEF WaitingIn
    <3>2. PICK W : W = WaitingIn(p, x, s, t)
      OBVIOUS
    <3>3. IsFiniteSet(W) /\ h \notin W /\ Cardinality(W) \in Nat
      BY <2>2, <3>2
    <3>4. Cardinality(W \cup {h}) = Cardinality(W) + 1
      BY <3>3, FS_AddElement
    <3>5. Cardinality(WaitingIn(q, y, s, t)) = Cardinality(W) + 1
      BY <3>1, <3>2, <3>4
    <3>6. QED
      BY <2>1, <2>2, <2>3, <3>2, <3>5
  <2>4. CASE ~ (m < t /\ ~Exceeded(y[h].minute, "minute"))
    <3>1. WaitingIn(q, y, s, t) = WaitingIn(p, x, s, t)
      BY <2>4 DEF WaitingIn
    <3>2. QED
      BY <2>1, <2>2, <2>4, <3>1
  <2>5. QED
    BY <2>3, <2>4
<1>2. QED
  BY <1>1

LEMMA JoiningOfOthers ==
  ASSUME NEW f, NEW p, NEW x, NEW q, NEW y, NEW s,
         NEW h \in Handlers, p[h] # "day", Scope(y[h]) # s,
         \A i \in Handlers : i # h => q[i] = p[i] /\ y[i] = x[i]
  PROVE  Taken(f, q, y, s) = Taken(f, p, x, s)
<1>1. \A t : WaitingIn(q, y, s, t) = WaitingIn(p, x, s, t)
  BY DEF WaitingIn
<1>2. QED
  BY <1>1 DEF Taken

(* Every handler between its hits knows when it made the first. *)
LEMMA HandlersDated ==
  ASSUME HandlersInv
  PROVE  Dated(pc, ctx)
<1>1. ASSUME NEW h \in Handlers, pc[h] = "day" PROVE ctx[h].minute.at \in Nat
  <2>1. PICK c : c = ctx[h] /\ Sound("day", c)
    BY <1>1 DEF HandlersInv, Fine
  <2>2. QED
    BY <2>1 DEF Sound, Timed, EndsBy
<1>2. QED
  BY <1>1 DEF Dated

LEMMA HandlersDatedNext ==
  ASSUME HandlersInv'
  PROVE  Dated(pc', ctx')
<1>1. ASSUME NEW h \in Handlers, pc'[h] = "day" PROVE ctx'[h].minute.at \in Nat
  <2>1. PICK c : c = ctx'[h] /\ Sound("day", c)'
    BY <1>1 DEF HandlersInv, Fine
  <2>2. QED
    BY <2>1 DEF Sound, Timed, EndsBy
<1>2. QED
  BY <1>1 DEF Dated

(* How the scope's counter of the minute changes.                          *)
LEMMA MinuteCounted ==
  ASSUME WorldInv, NEW s \in Scopes, Hit(s, "minute"), NEW k, k = counters[s]["minute"],
         NEW j, j = counters'[s]["minute"]
  PROVE  /\ j \in Counter /\ j # NULL
         /\ k = NULL => /\ j.count = 1 /\ j.started = now
                        /\ j.expires = now + Length["minute"]
         /\ k # NULL => /\ now < k.expires /\ j.count = k.count + 1
                        /\ j.started = k.started /\ j.expires = k.expires
         /\ \A t \in Scopes : t # s => counters'[t]["minute"] = counters[t]["minute"]
<1>1. LimiterTypeOK /\ "minute" \in Windows
  BY DEF WorldInv, Windows
<1>2. j \in Counter /\ j # NULL
  BY <1>1, HitFacts, CounterAssumption
<1>3. counters \in [Scopes -> [Windows -> Counter \cup {NULL}]]
  BY <1>1 DEF LimiterTypeOK
<1>4. j = IF k = NULL
          THEN [count |-> 1, started |-> now, expires |-> now + Length["minute"]]
          ELSE [k EXCEPT !.count = @ + 1]
  BY <1>1, <1>3 DEF Hit
<1>5. k # NULL => now < k.expires /\ k \in Counter
  BY <1>1, <1>3, ClockAssumption DEF LimiterTypeOK, Counter
<1>6. \A t \in Scopes : t # s => counters'[t]["minute"] = counters[t]["minute"]
  BY <1>1, HitFacts
<1>7. CASE k = NULL
  BY <1>2, <1>4, <1>6, <1>7
<1>8. CASE k # NULL
  BY <1>2, <1>4, <1>5, <1>6, <1>8 DEF Counter
<1>9. QED
  BY <1>7, <1>8

LEMMA MinuteHits ==
  ASSUME WorldInv, HandlersInv, NEW h \in Handlers, HandlerNext(h)
  PROVE  /\ now' = now
         /\ \/ \A s \in Scopes : counters'[s]["minute"] = counters[s]["minute"]
            \/ pc[h] = "minute" /\ Scope(ctx[h]) \in Scopes /\ Hit(Scope(ctx[h]), "minute")
<1> DEFINE Same == \A s \in Scopes : counters'[s]["minute"] = counters[s]["minute"]
<1>1. ASSUME pc[h] \in {"minute", "day"}
      PROVE  Scope(ctx[h]) \in Scopes
  <2>1. PICK p, c : c = ctx[h] /\ p = pc[h] /\ Control(p, c)
    BY DEF HandlersInv, Fine
  <2>2. c \in Context /\ c.account # NULL
    BY <1>1, <2>1 DEF Control, Located
  <2>3. QED
    BY <2>1, <2>2, ScopeTyped
<1>2. CASE HitMinute(h)
  <2>1. pc[h] = "minute" /\ Hit(Scope(ctx[h]), "minute") /\ now' = now
    BY <1>2 DEF HitMinute
  <2>2. QED
    BY <1>1, <2>1
<1>3. ASSUME NEW s \in Scopes, Hit(s, "day")
      PROVE  Same
  <2>1. LimiterTypeOK /\ "minute" \in Windows /\ "day" \in Windows /\ "minute" # "day"
    BY DEF WorldInv, Windows
  <2>2. QED
    BY <1>3, <2>1, HitFacts
<1>4. CASE HitDay(h)
  <2>1. pc[h] = "day" /\ Hit(Scope(ctx[h]), "day") /\ now' = now
    BY <1>4 DEF HitDay
  <2>2. QED
    BY <1>1, <1>3, <2>1
<1>5. ASSUME NEW w \in {"minute", "day"}, pc[h] = w, RedisFails(h, w)
      PROVE  /\ now' = now
             /\ \/ Same
                \/ /\ pc[h] = "minute" /\ Scope(ctx[h]) \in Scopes
                   /\ Hit(Scope(ctx[h]), "minute")
  <2>1. (Hit(Scope(ctx[h]), w) \/ UNCHANGED counters) /\ now' = now
    BY <1>5 DEF RedisFails, HitFails
  <2>2. Scope(ctx[h]) \in Scopes
    BY <1>1, <1>5
  <2>3. CASE UNCHANGED counters
    BY <2>1, <2>3
  <2>4. CASE Hit(Scope(ctx[h]), w) /\ w = "day"
    BY <1>3, <2>1, <2>2, <2>4
  <2>5. CASE Hit(Scope(ctx[h]), w) /\ w = "minute"
    BY <1>5, <2>1, <2>2, <2>5
  <2>6. QED
    BY <2>1, <2>3, <2>4, <2>5
<1>6. CASE /\ ~HitMinute(h) /\ ~HitDay(h)
           /\ ~ \E w \in {"minute", "day"} : pc[h] = w /\ RedisFails(h, w)
  <2>1. UNCHANGED <<now, counters>>
    BY <1>6 DEF HandlerNext, Arrive, Step, SelectUser, PoolTimeout, Provision, Reread,
       RedisStep, ResolveEntitlement, ReadUsage, Transcribe, Extract, ReadFromRate,
       ReadToRate, Respond, DatabaseFails, Abort, worldVars, limiterVars
  <2>2. QED
    BY <2>1, SMTT(40)
<1>7. QED
  BY <1>2, <1>4, <1>5, <1>6

(* Only the first hit leads to the wait for the second. *)
LEMMA OnlyFirstHitWaits ==
  ASSUME HandlersInv, NEW h \in Handlers, HandlerNext(h), ~HitMinute(h)
  PROVE  pc'[h] # "day"
<1> DEFINE Elsewhere == pc'[h] # "day"
<1>1. ASSUME NEW p, NEW q, NEW n, Move(h, p, q, n), q # "day" PROVE Elsewhere
  BY <1>1, Moved
<1>2. ASSUME NEW p, NEW c, NEW reply, Reply(h, p, c, reply) PROVE Elsewhere
  BY <1>1, <1>2 DEF Reply
<1>3. ASSUME NEW p, NEW c, PassLimiter(h, p, c) PROVE Elsewhere
  BY <1>1, <1>2, <1>3 DEF PassLimiter
<1>4. CASE Arrive(h)
  BY <1>1, <1>2, <1>4 DEF Arrive
<1>5. CASE SelectUser(h)
  BY <1>1, <1>5 DEF SelectUser
<1>6. CASE PoolTimeout(h)
  BY <1>2, <1>6 DEF PoolTimeout
<1>7. CASE Provision(h)
  BY <1>1, <1>7 DEF Provision
<1>8. CASE Reread(h)
  BY <1>1, <1>2, <1>8 DEF Reread
<1>9. CASE HitDay(h)
  BY <1>2, <1>3, <1>9 DEF HitDay, Refuse
<1>10. CASE ResolveEntitlement(h)
  BY <1>1, <1>10 DEF ResolveEntitlement
<1>11. CASE ReadUsage(h)
  <2>1. (IF ctx[h].req.kind = "parse" THEN "llm" ELSE "stt") # "day"
    OBVIOUS
  <2>2. \/ Reply(h, "usage", ctx[h], "quota_exceeded")
        \/ Move(h, "usage", IF ctx[h].req.kind = "parse" THEN "llm" ELSE "stt",
                [ctx[h] EXCEPT !.paid = TRUE, !.reference = Reference(ctx[h])])
    BY <1>11 DEF ReadUsage
  <2>3. QED
    BY <1>1, <1>2, <2>1, <2>2
<1>12. CASE Transcribe(h)
  BY <1>1, <1>2, <1>12 DEF Transcribe
<1>13. CASE Extract(h)
  <2>1. ASSUME NEW raw, NEW day, Converting(h, raw, day) PROVE Elsewhere
    BY <1>1, <1>2, <2>1 DEF Converting
  <2>2. QED
    BY <1>2, <1>13, <2>1 DEF Extract
<1>14. CASE ReadFromRate(h)
  BY <1>1, <1>2, <1>14 DEF ReadFromRate
<1>15. CASE ReadToRate(h)
  BY <1>2, <1>15 DEF ReadToRate
<1>16. CASE Respond(h)
  BY <1>1, <1>16 DEF Respond
<1>17. ASSUME NEW w \in {"minute", "day"}, RedisFails(h, w) PROVE Elsewhere
  BY <1>2, <1>3, <1>17 DEF RedisFails
<1>18. CASE DatabaseFails(h)
  BY <1>2, <1>18 DEF DatabaseFails
<1>19. CASE Abort(h)
  BY <1>1, <1>19 DEF Abort
<1>20. QED
  BY <1>4, <1>5, <1>6, <1>7, <1>8, <1>9, <1>10, <1>11, <1>12, <1>13, <1>14, <1>15,
     <1>16, <1>17, <1>18, <1>19 DEF HandlerNext, Step, RedisStep


(* One scope, when a handler makes its step.                               *)
LEMMA ScopeStaysSpaced ==
  ASSUME ParseInv, ParseInv', LimitInv, NEW h \in Handlers, HandlerNext(h),
         \A i \in Handlers : i # h => pc'[i] = pc[i] /\ ctx'[i] = ctx[i],
         NEW s \in Scopes
  PROVE  /\ Rising(admitted'[s])
         /\ Spaced(Taken(admitted'[s], pc', ctx', s), counters'[s]["minute"], now',
                   Length["minute"], Limit["minute"])
<1>1. PICK f, g, k, j, L, M :
        /\ f = admitted[s] /\ g = admitted'[s]
        /\ k = counters[s]["minute"] /\ j = counters'[s]["minute"]
        /\ L = Length["minute"] /\ M = Limit["minute"]
  OBVIOUS
<1>2. PICK P, Q : P = Taken(f, pc, ctx, s) /\ Q = Taken(g, pc', ctx', s)
  OBVIOUS
<1>3. /\ WorldInv /\ WorldInv' /\ HandlersInv /\ HandlersInv'
      /\ f \in [Moments -> Nat] /\ g \in [Moments -> Nat]
      /\ now \in 0 .. Horizon /\ Moments \subseteq Nat
  <2>1. now \in 0 .. Horizon
    BY DEF ParseInv, WorldInv, LimiterTypeOK
  <2>2. QED
    BY <1>1, <2>1, MomentsAfter DEF ParseInv, HistoriesTyped
<1>4. L \in Nat \ {0} /\ M \in Nat \ {0}
  BY <1>1, Lengths, LimiterAssumption DEF Windows, Limit
<1>5. Rising(f) /\ Spaced(P, k, now, L, M)
  BY <1>1, <1>2 DEF LimitInv
<1>6. now' = now
  BY <1>3, MinuteHits
<1>7. \/ g = f
      \/ /\ pc[h] = "day" /\ Scope(ctx[h]) = s /\ ~Exceeded(ctx[h].minute, "minute")
         /\ \A t \in Moments : g[t] = f[t] + IF ctx[h].minute.at < t THEN 1 ELSE 0
  <2>1. admitted \in [Scopes -> [Moments -> Nat]]
    BY DEF ParseInv, HistoriesTyped
  <2>2. CASE UNCHANGED admitted
    BY <1>1, <2>2
  <2>3. ASSUME NEW r \in Scopes, NEW at \in Nat, Admits(r, at)
        PROVE  IF r = s THEN \A t \in Moments : g[t] = f[t] + IF at < t THEN 1 ELSE 0
                        ELSE g = f
    <3>1. PICK e : e = [t \in Moments |-> admitted[r][t] + IF at < t THEN 1 ELSE 0]
      OBVIOUS
    <3>2. admitted' = [admitted EXCEPT ![r] = e]
      BY <2>3, <3>1 DEF Admits
    <3>3. g = IF r = s THEN e ELSE f
      BY <1>1, <2>1, <3>2
    <3>4. QED
      BY <1>1, <3>1, <3>3
  <2>4. QED
    BY <1>3, <2>2, <2>3, Admitting
<1>8. Rising(g)
  <2>1. Dated(pc, ctx)
    BY <1>3, HandlersDated
  <2>2. ASSUME NEW t \in Moments, NEW n \in Moments, t <= n PROVE g[t] <= g[n]
    <3>1. f[t] <= f[n] /\ f[t] \in Nat /\ f[n] \in Nat /\ t \in Nat /\ n \in Nat
      BY <1>3, <1>5, <2>2 DEF Rising
    <3>2. pc[h] = "day" => ctx[h].minute.at \in Nat
      BY <2>1 DEF Dated
    <3>3. QED
      BY <1>7, <2>2, <3>1, <3>2
  <2>3. QED
    BY <2>2 DEF Rising
<1>9. Q \in [Moments -> Nat] /\ P \in [Moments -> Nat]
  <2>1. Dated(pc, ctx) /\ Dated(pc', ctx')
    BY <1>3, HandlersDated, HandlersDatedNext
  <2>2. QED
    BY <1>2, <1>3, <1>5, <1>8, <2>1, TakenTyped
<1>10. \/ j = k
       \/ pc[h] = "minute" /\ Scope(ctx[h]) = s /\ Hit(s, "minute")
  <2>1. CASE \A t \in Scopes : counters'[t]["minute"] = counters[t]["minute"]
    BY <1>1, <2>1
  <2>2. CASE /\ pc[h] = "minute" /\ Scope(ctx[h]) \in Scopes
             /\ Hit(Scope(ctx[h]), "minute")
    BY <1>1, <1>3, <2>2, MinuteCounted
  <2>3. QED
    BY <1>3, <2>1, <2>2, MinuteHits
<1>11. CASE HitMinute(h)
  <2>1. PICK y : /\ y = ctx'[h] /\ pc[h] = "minute" /\ pc'[h] = "day"
                 /\ Scope(y) = Scope(ctx[h])
                 /\ y.minute.at = now
                 /\ y.minute.count = counters'[Scope(ctx[h])]["minute"].count
                 /\ Hit(Scope(ctx[h]), "minute")
    <3>1. PICK c \in Context : c = ctx[h] /\ c # NULL
      BY <1>11, <1>3 DEF HitMinute, HandlersInv, Fine, Control, Located, Unlocated
    <3>2. PICK ttl : Move(h, "minute", "day",
                          [c EXCEPT !.minute =
                             [count |-> counters'[Scope(c)]["minute"].count,
                              ttl |-> ttl, at |-> now]])
      BY <1>11, <3>1 DEF HitMinute, Answer
    <3>3. PICK y : y = [c EXCEPT !.minute =
                          [count |-> counters'[Scope(c)]["minute"].count,
                           ttl |-> ttl, at |-> now]]
      OBVIOUS
    <3>4. y = ctx'[h] /\ pc[h] = "minute" /\ pc'[h] = "day"
      BY <1>3, <3>2, <3>3, Moved
    <3>5. /\ y.minute.at = now
          /\ y.minute.count = counters'[Scope(c)]["minute"].count
          /\ y.req = c.req /\ y.account = c.account
      BY <3>3 DEF Context
    <3>6. Scope(y) = Scope(c)
      BY <3>5 DEF Scope
    <3>7. QED
      BY <1>11, <3>1, <3>4, <3>5, <3>6 DEF HitMinute
  <2>2. g = f
    BY <1>7, <2>1
  <2>3. CASE Scope(y) = s
    <3>1. PICK more \in {0, 1} :
            more = IF Exceeded(y.minute, "minute") THEN 0 ELSE 1
      OBVIOUS
    <3>2. \A t \in Moments : Q[t] = P[t] + IF now < t THEN more ELSE 0
      <4>1. now \in Nat
        BY <1>3, ClockAssumption
      <4>2. \A t \in Moments :
              Taken(f, pc', ctx', s)[t] =
                Taken(f, pc, ctx, s)[t]
                  + IF now < t THEN (IF Exceeded(y.minute, "minute") THEN 0 ELSE 1) ELSE 0
        BY <1>3, <2>1, <2>3, <4>1, JoiningTakesOne
      <4>3. QED
        BY <1>2, <2>2, <3>1, <4>2
    <3>3. /\ j \in Counter /\ j # NULL
          /\ k = NULL => j.count = 1 /\ j.started = now /\ j.expires = now + L
          /\ k # NULL => /\ now < k.expires /\ j.count = k.count + 1
                         /\ j.started = k.started /\ j.expires = k.expires
      BY <1>1, <1>3, <2>1, <2>3, MinuteCounted
    <3>4. more = 1 => j.count <= M
      <4>1. y.minute.count = j.count /\ j.count \in Nat
        BY <1>1, <2>1, <2>3, <3>3 DEF Counter
      <4>2. QED
        BY <1>1, <1>4, <3>1, <4>1 DEF Exceeded
    <3>5. Spaced(Q, j, now, L, M)
      BY <1>3, <1>4, <1>5, <1>9, <3>2, <3>3, <3>4, HitIsSpaced
    <3>6. QED
      BY <1>1, <1>2, <1>6, <1>8, <3>5
  <2>4. CASE Scope(y) # s
    <3>1. j = k
      BY <1>10, <2>1, <2>4
    <3>2. Q = P
      <4>1. Taken(f, pc', ctx', s) = Taken(f, pc, ctx, s)
        BY <2>1, <2>4, JoiningOfOthers
      <4>2. QED
        BY <1>2, <2>2, <4>1
    <3>3. QED
      BY <1>1, <1>2, <1>5, <1>6, <1>8, <3>1, <3>2
  <2>5. QED
    BY <2>3, <2>4
<1>12. CASE ~HitMinute(h)
  <2>1. Spaced(Q, k, now, L, M)
    <3>1. Dated(pc, ctx) /\ pc'[h] # "day"
      BY <1>3, <1>12, HandlersDated, OnlyFirstHitWaits
    <3>2. \A t, n \in Moments :
            t <= n => Taken(g, pc', ctx', s)[n] - Taken(g, pc', ctx', s)[t]
                        <= Taken(f, pc, ctx, s)[n] - Taken(f, pc, ctx, s)[t]
      BY <1>3, <1>7, <3>1, LeavingTakesLess
    <3>3. Rising(Taken(g, pc', ctx', s))
      BY <1>3, <1>8, HandlersDatedNext, TakenTyped
    <3>4. \A t, n \in Moments : t <= n => Q[t] <= Q[n] /\ Q[n] - Q[t] <= P[n] - P[t]
      BY <1>2, <3>2, <3>3 DEF Rising
    <3>5. QED
      BY <1>3, <1>4, <1>5, <1>9, <3>4, FewerAreSpaced
  <2>2. CASE j = k
    BY <1>1, <1>2, <1>6, <1>8, <2>1, <2>2
  <2>3. CASE Hit(s, "minute")
    <3>1. /\ j \in Counter /\ j # NULL
          /\ k = NULL => j.count = 1 /\ j.started = now /\ j.expires = now + L
          /\ k # NULL => /\ now < k.expires /\ j.count = k.count + 1
                         /\ j.started = k.started /\ j.expires = k.expires
      BY <1>1, <1>3, <2>3, MinuteCounted
    <3>2. PICK more \in {0, 1} : more = 0
      OBVIOUS
    <3>3. \A t \in Moments : Q[t] = Q[t] + IF now < t THEN more ELSE 0
      BY <1>9, <3>2
    <3>4. more = 1 => j.count <= M
      BY <3>2
    <3>5. Spaced(Q, j, now, L, M)
      BY <1>3, <1>4, <1>9, <2>1, <3>1, <3>3, <3>4, HitIsSpaced
    <3>6. QED
      BY <1>1, <1>2, <1>6, <1>8, <3>5
  <2>4. QED
    BY <1>10, <2>2, <2>3
<1>13. QED
  BY <1>11, <1>12

LEMMA LimitInitially ==
  ASSUME Init
  PROVE  LimitInv
<1>1. ParseInv
  BY InitEstablishes
<1>2. /\ \A s \in Scopes : admitted[s] = [t \in Moments |-> 0]
      /\ pc = [h \in Handlers |-> "idle"]
      /\ now = Given.start /\ counters = Given.counters
  BY DEF Init
<1>3. ASSUME NEW s \in Scopes
      PROVE  /\ Rising(admitted[s])
             /\ Spaced(Taken(admitted[s], pc, ctx, s), counters[s]["minute"], now,
                       Length["minute"], Limit["minute"])
  <2>1. \A t : WaitingIn(pc, ctx, s, t) = {}
    BY <1>2 DEF WaitingIn
  <2>2. PICK P : P = Taken(admitted[s], pc, ctx, s)
    OBVIOUS
  <2>3. P = [t \in Moments |-> 0]
    <3>1. P = [t \in Moments |-> 0 + Cardinality({})]
      BY <1>2, <2>1, <2>2 DEF Taken
    <3>2. QED
      BY <3>1, FS_EmptySet
  <2>4. PICK k : k = counters[s]["minute"]
    OBVIOUS
  <2>5. /\ k \in Counter \cup {NULL} /\ now \in 0 .. Horizon
        /\ k # NULL => k.started <= now /\ k.expires = k.started + Length["minute"]
    <3>1. "minute" \in Windows
      BY DEF Windows
    <3>2. Consistent(Given)
      BY <1>1, ParseAssumption DEF ParseInv, WorldInv, Given
    <3>3. QED
      BY <1>1, <1>2, <2>4, <3>1, <3>2 DEF Consistent, ParseInv, WorldInv, LimiterTypeOK
  <2>6. Length["minute"] \in Nat \ {0} /\ Limit["minute"] \in Nat \ {0}
    BY Lengths, LimiterAssumption DEF Windows, Limit
  <2>7. Spaced(P, k, now, Length["minute"], Limit["minute"])
    BY <2>3, <2>5, <2>6, SpacedInitially
  <2>8. Rising(admitted[s])
    BY <1>2 DEF Rising
  <2>9. QED
    BY <2>2, <2>4, <2>7, <2>8
<1>4. QED
  BY <1>3 DEF LimitInv

LEMMA LimitHoldsOn ==
  ASSUME ParseInv, ParseInv', LimitInv, [Next]_vars
  PROVE  LimitInv'
<1>1. CASE UNCHANGED <<pc, ctx, admitted, counters, now>>
  <2>1. \A s : Taken(admitted'[s], pc', ctx', s) = Taken(admitted[s], pc, ctx, s)
    BY <1>1
  <2>2. QED
    BY <1>1, <2>1 DEF LimitInv
<1>2. ASSUME NEW h \in Handlers, HandlerNext(h), scenario' = scenario
      PROVE  LimitInv'
  <2>1. PICK p, n : Goes(h, p, n)
    BY <1>2, HandlerSteps DEF ParseInv, Steps
  <2>2. \A i \in Handlers : i # h => pc'[i] = pc[i] /\ ctx'[i] = ctx[i]
    BY <2>1 DEF Goes, ParseInv, HandlersInv
  <2>3. \A s \in Scopes :
          /\ Rising(admitted'[s])
          /\ Spaced(Taken(admitted'[s], pc', ctx', s), counters'[s]["minute"], now',
                    Length["minute"], Limit["minute"])
    BY <1>2, <2>2, ScopeStaysSpaced
  <2>4. QED
    BY <2>3 DEF LimitInv
<1>3. CASE WorldNext /\ scenario' = scenario
  <2>1. UNCHANGED <<pc, ctx, admitted>>
    BY <1>3, WorldSteps DEF ParseInv
  <2>2. CASE UNCHANGED <<now, counters>>
    BY <1>1, <2>1, <2>2
  <2>3. CASE Tick
    <3>1. /\ now \in 0 .. Horizon /\ now' = now + 1 /\ now + 1 <= Horizon
          /\ \A s \in Scopes :
               counters'[s]["minute"] =
                 IF counters[s]["minute"] # NULL /\ counters[s]["minute"].expires <= now + 1
                 THEN NULL ELSE counters[s]["minute"]
      <4>1. now \in 0 .. Horizon /\ now \in Nat
        BY ClockAssumption DEF ParseInv, WorldInv, LimiterTypeOK
      <4>2. now' = now + 1 /\ now + 1 <= Horizon
        BY <2>3, <4>1, ClockAssumption DEF Tick, TimePasses
      <4>3. QED
        BY <2>3, <4>1, <4>2 DEF Tick, Windows
    <3>2. ASSUME NEW s \in Scopes
          PROVE  /\ Rising(admitted'[s])
                 /\ Spaced(Taken(admitted'[s], pc', ctx', s), counters'[s]["minute"],
                           now', Length["minute"], Limit["minute"])
      <4>1. PICK P, k, j : /\ P = Taken(admitted[s], pc, ctx, s)
                           /\ k = counters[s]["minute"] /\ j = counters'[s]["minute"]
        OBVIOUS
      <4>2. Rising(admitted[s]) /\ Spaced(P, k, now, Length["minute"], Limit["minute"])
        BY <4>1 DEF LimitInv
      <4>3. Length["minute"] \in Nat \ {0} /\ Limit["minute"] \in Nat \ {0}
        BY Lengths, LimiterAssumption DEF Windows, Limit
      <4>4. Spaced(P, j, now + 1, Length["minute"], Limit["minute"])
        BY <3>1, <4>1, <4>2, <4>3, TickIsSpaced
      <4>5. QED
        BY <2>1, <3>1, <4>1, <4>2, <4>4
    <3>3. QED
      BY <3>2 DEF LimitInv
  <2>4. UNCHANGED <<now, counters>> \/ Tick
    BY <1>3 DEF WorldNext, ClockTicks, BillingEvent, PushLands, StartTask, TaskStep,
       TaskFault, limiterVars
  <2>5. QED
    BY <2>2, <2>3, <2>4
<1>4. QED
  BY <1>1, <1>2, <1>3 DEF Next, Over, vars, worldVars, limiterVars

(* The requests that wait only add to those that are admitted. *)
LEMMA LimitIsKept ==
  ASSUME ParseInv, LimitInv
  PROVE  AtMostTwiceTheLimit
<1> SUFFICES ASSUME NEW s \in Scopes, NEW t \in Moments, NEW n \in Moments,
                    t <= n, n <= t + Length["minute"]
             PROVE  admitted[s][n] - admitted[s][t] < 2 * Limit["minute"]
  BY DEF AtMostTwiceTheLimit
<1>1. PICK P : P = Taken(admitted[s], pc, ctx, s)
  OBVIOUS
<1>2. P[n] - P[t] < 2 * Limit["minute"]
  BY <1>1 DEF LimitInv, Spaced
<1>3. PICK a \in Nat, b \in Nat : a = admitted[s][n] /\ b = admitted[s][t]
  BY DEF ParseInv, HistoriesTyped
<1>4. PICK v \in Nat, w \in Nat : /\ v = Cardinality(WaitingIn(pc, ctx, s, n))
                                  /\ w = Cardinality(WaitingIn(pc, ctx, s, t))
  BY WaitingFinite
<1>5. P[n] = a + v /\ P[t] = b + w
  BY <1>1, <1>3, <1>4 DEF Taken
<1>6. w <= v
  <2>1. t \in Nat /\ n \in Nat
    BY ClockAssumption DEF Moments
  <2>2. Dated(pc, ctx)
    BY HandlersDated DEF ParseInv
  <2>3. WaitingIn(pc, ctx, s, t) \in SUBSET WaitingIn(pc, ctx, s, n)
    BY <2>1, <2>2 DEF WaitingIn, Dated
  <2>4. QED
    BY <1>4, <2>3, WaitingFinite, FS_Subset
<1>7. Limit["minute"] \in Nat
  BY Lengths DEF Windows
<1>8. QED
  BY <1>2, <1>3, <1>5, <1>6, <1>7

-----------------------------------------------------------------------------
(* Theorems.                                                               *)

(* The variables of the endpoints keep their types whatever interleaving   *)
(* of requests, ticks, billing events, pushes, ingests and failures: every *)
(* handler has the local variables its place in the code needs, a response *)
(* is there exactly at the end, and the pool never lends more connections  *)
(* than it has.                                                            *)
THEOREM ParseTypeCorrect == Spec => []ParseTypeOK
<1>1. ParseInv => ParseTypeOK
  BY InvariantIsTyped
<1>2. QED
  BY <1>1, InvariantHolds, PTL

(* However many first requests of an identity race in get_current_user,    *)
(* one row results, and each of them acts for it.                          *)
THEOREM OneRowPerIdentity == Spec => []OneUserPerIdentity
<1>1. ParseInv => OneUserPerIdentity
  <2> SUFFICES ASSUME ParseInv
               PROVE  OneUserPerIdentity
    OBVIOUS
  <2>1. UniqueRows(accounts)
    BY DEF ParseInv, WorldInv, AccountsInv
  <2>2. ASSUME NEW h \in Handlers, ctx[h] # NULL, ctx[h].account # NULL
        PROVE  ctx[h].account \in accounts /\ ctx[h].account.identity = ctx[h].req.identity
    BY <2>2 DEF ParseInv, HandlersInv, Fine, Control, Sound, Identified
  <2>3. QED
    BY <2>1, <2>2 DEF OneUserPerIdentity
<1>2. QED
  BY <1>1, InvariantHolds, PTL

(* Retry-After of the 429 response is never too short: when it has passed, *)
(* the window that refused the request is gone.                            *)
THEOREM RetryAfterIsEnough == Spec => []RetryAfterLifts
<1>1. ParseInv => RetryAfterLifts
  <2> SUFFICES ASSUME ParseInv, NEW h \in Handlers, ctx[h] # NULL, ctx[h].refusal # NULL,
                      counters[Scope(ctx[h])][ctx[h].refusal.window] # NULL,
                      counters[Scope(ctx[h])][ctx[h].refusal.window].started
                        <= ctx[h].refusal.hit
               PROVE  counters[Scope(ctx[h])][ctx[h].refusal.window].expires
                        <= ctx[h].refusal.until
    BY DEF RetryAfterLifts
  <2>1. PICK s, w, t, u : /\ s = Scope(ctx[h]) /\ w = ctx[h].refusal.window
                          /\ t = ctx[h].refusal.hit /\ u = ctx[h].refusal.until
    OBVIOUS
  <2>2. /\ ctx[h].account # NULL /\ ctx[h] \in Context
        /\ \E e \in Nat : e <= u /\ EndsBy(s, w, t, e)
    BY <2>1 DEF ParseInv, HandlersInv, Fine, Control, Sound, Timed
  <2>3. PICK e \in Nat : e <= u /\ EndsBy(s, w, t, e)
    BY <2>2
  <2>4. s \in Scopes
    BY <2>1, <2>2, ScopeTyped
  <2>5. w \in Windows
    BY <2>1, <2>2 DEF Context, Refusal
  <2>6. counters[s][w] # NULL /\ counters[s][w].started <= t
        /\ counters[s][w].started \in Nat
    BY <2>1, <2>4, <2>5 DEF ParseInv, WorldInv, LimiterTypeOK, Counter
  <2>7. counters[s][w].expires = e
    BY <2>3, <2>6 DEF EndsBy
  <2>8. QED
    BY <2>1, <2>3, <2>7
<1>2. QED
  BY <1>1, InvariantHolds, PTL

(* While Redis answers, the limiter's fixed windows let through fewer than *)
(* twice the limit within any interval as long as the window, whatever the *)
(* order in which the two hits of the requests of a scope interleave.      *)
THEOREM LimitHolds == Spec => []AtMostTwiceTheLimit
<1>1. Init => ParseInv /\ LimitInv
  BY InitEstablishes, LimitInitially
<1>2. ParseInv /\ LimitInv /\ [Next]_vars => ParseInv' /\ LimitInv'
  BY StepPreserves, LimitHoldsOn
<1>3. ParseInv /\ LimitInv => AtMostTwiceTheLimit
  BY LimitIsKept
<1>4. QED
  BY <1>1, <1>2, <1>3, PTL DEF Spec

(* The gate before the paid calls reads entitlement and usage one after    *)
(* the other; nothing is paid for, and nobody is turned away, that would   *)
(* not have been at some moment of the request.                            *)
THEOREM GateHoldsToAMoment == Spec => []GateIsHonest
<1>1. Init => ParseInv /\ GateInv
  BY InitEstablishes, GateInitially
<1>2. ParseInv /\ GateInv /\ [Next]_vars => ParseInv' /\ GateInv'
  BY StepPreserves, GateHolds
<1>3. ParseInv /\ GateInv => GateIsHonest
  <2> SUFFICES ASSUME ParseInv, GateInv, NEW h \in Handlers, ctx[h] # NULL
               PROVE  /\ ctx[h].paid => seen[h] \cap {"pro", "under"} # {}
                      /\ ctx[h].reply = "quota_exceeded" => {"free", "over"} \subseteq seen[h]
    BY DEF GateIsHonest
  <2>1. pc[h] # "idle"
    BY DEF ParseInv, HandlersInv, Fine, Control
  <2>2. QED
    BY <2>1 DEF GateInv, Honest
<1>4. QED
  BY <1>1, <1>2, <1>3, PTL DEF Spec

(* Whoever reads the row of its user again, after its own INSERT or after  *)
(* an INSERT that another one has overtaken, finds it, unless the email    *)
(* belongs to another identity; database errors, crashes and exhausted     *)
(* pools included.                                                         *)
THEOREM LosersFindWinners == Spec => []LoserFindsWinner
<1>1. ParseInv => LoserFindsWinner
  <2> SUFFICES ASSUME ParseInv, NEW h \in Handlers,
                      pc[h] \in {"refresh", "reselect"}
               PROVE  /\ pc[h] = "refresh" => AccountsOf(ctx[h].req.identity) # {}
                      /\ pc[h] = "reselect" =>
                           \/ AccountsOf(ctx[h].req.identity) # {}
                           \/ \E a \in accounts :
                                /\ a.email = ctx[h].req.email /\ ctx[h].req.email # NULL
                                /\ a.identity # ctx[h].req.identity
    BY DEF LoserFindsWinner
  <2>1. Identified(pc[h], ctx[h])
    BY DEF ParseInv, HandlersInv, Fine, Sound
  <2>2. QED
    BY <2>1 DEF Identified, Clashes, AccountsOf
<1>2. QED
  BY <1>1, InvariantHolds, PTL

(* Every rate in the table is the cross rate of the quotation it came      *)
(* from, to within half a unit of its last place, for any payloads of any  *)
(* base, and however ingests and backfills of any number of workers        *)
(* overlap.                                                                *)
THEOREM RatesAreCrossRates == Spec => []NormalizedIsCrossRate
<1>1. ParseInv => NormalizedIsCrossRate
  BY DEF ParseInv, WorldInv, FxInv
<1>2. QED
  BY <1>1, InvariantHolds, PTL

(* A conversion beside ingests and backfills uses rates that were known by *)
(* the day of the expense, and none older than the latest known when it    *)
(* began.                                                                  *)
THEOREM ConversionsUseKnownDays == Spec => []ConversionUsesKnownDay
<1>1. ParseInv => ConversionUsesKnownDay
  <2> SUFFICES ASSUME ParseInv, NEW h \in Handlers, ctx[h] # NULL, ctx[h].answer # NULL
               PROVE  LET c == ctx[h]
                          spent == SpentDay(c.answer, c.reference)
                          Bounded(day, known) ==
                            day # NULL => day <= spent /\ \A d \in known : d <= day
                      IN  /\ Bounded(c.fromDay, c.known.from)
                          /\ Bounded(c.toDay, c.known.to)
                          /\ c.known.from # {} /\ c.known.to # {} /\ c.reply # NULL =>
                               c.base \/ c.reply = "error"
    BY DEF ConversionUsesKnownDay
  <2>1. PICK p, c : p = pc[h] /\ c = ctx[h] /\ Converted(p, c)
    BY DEF ParseInv, HandlersInv, Fine, Control, Sound
  <2>2. QED
    BY <2>1 DEF Converted, Within, Spent
<1>2. QED
  BY <1>1, InvariantHolds, PTL
=============================================================================
