----------------------------- MODULE Recompute -----------------------------
(***************************************************************************)
(* The worker's two tasks on the expenses table:                           *)
(*   sweep  recompute_amount_base: reads up to SweepLimit rows without an  *)
(*          amount in the base currency, oldest first and without locking  *)
(*          them, then converts and updates them one by one, and commits;  *)
(*   rearm  null_amount_base_for_user: one UPDATE that clears the amounts  *)
(*          of a user whose base currency has changed.                     *)
(* An UPDATE meets the newest committed version of its row, which need not *)
(* be the one the sweep has read.  An exception in one row's conversion or *)
(* UPDATE leaves the loop and takes the whole batch with it.               *)
(***************************************************************************)
EXTENDS ExpenseDb, Sequences

CONSTANTS
  Sweepers,    \* executions of recompute_amount_base
  Rearmers,    \* executions of null_amount_base_for_user
  SweepLimit,  \* `limit`, settings.FX_RECOMPUTE_BATCH
  Failing,     \* inputs whose conversion fails: convert() divides by a rate
               \* that was quantised to zero, or quantize() has too few digits,
               \* or the UPDATE overflows NUMERIC(18,4)
  MaxChanges   \* bounds the changes of a base currency

ASSUME RecomputeAssumption ==
  /\ Sweepers \cup Rearmers \subseteq Sessions
  /\ SweepLimit \in Nat \ {0}
  /\ Failing \subseteq Inputs
  /\ MaxChanges \in Nat

VARIABLES
  baseCurrency,  \* users.base_currency
  rated,         \* inputs whose rates are in fx_rates
  sweeps,        \* sweeps in the broker's queue, by their `user_id`; NULL: of
                 \* the rows of all users
  task,          \* what each worker session does next
  todo,          \* the rows it still has to handle, in order
  forUser,       \* the user a rearm runs for
  due,           \* users whose currency changed and whose rows were not cleared
  changes        \* changes of a base currency so far

recomputeVars == <<baseCurrency, rated, sweeps, task, todo, forUser, due, changes>>

Tasks == Sweepers \cup Rearmers

(* A row of the sweep's SELECT. *)
Selected == [id : Ids, inputs : Inputs, ccy : Currencies]

RecomputeTypeOK ==
  /\ baseCurrency \in [Users -> Currencies]
  /\ rated \subseteq Inputs
  /\ sweeps \subseteq Users \cup {NULL}
  /\ task \in [Tasks -> {"idle", "convert", "update", "null", "commit"}]
  /\ \A s \in Sweepers : todo[s] \in Seq(Selected)
  /\ \A s \in Rearmers : todo[s] \in Seq(Ids)
  /\ forUser \in [Rearmers -> Users \cup {NULL}]
  /\ due \subseteq Users
  /\ changes \in 0 .. MaxChanges

RecomputeInit ==
  /\ baseCurrency \in [Users -> Currencies]
  /\ rated = {}
  /\ sweeps = {}
  /\ task = [s \in Tasks |-> "idle"]
  /\ todo = [s \in Tasks |-> <<>>]
  /\ forUser = [s \in Rearmers |-> NULL]
  /\ due = {}
  /\ changes = 0

(* The orders in which the elements of S can be listed. *)
Listings(S) == {f \in [1 .. Cardinality(S) -> S] : \A x \in S : \E n \in DOMAIN f : f[n] = x}

(* Where a task goes once it has handled the first of its rows. *)
Continue(s, again) ==
  /\ todo' = [todo EXCEPT ![s] = Tail(@)]
  /\ task' = [task EXCEPT ![s] = IF Len(todo[s]) = 1 THEN "commit" ELSE again]

EndTask(s) ==
  /\ task' = [task EXCEPT ![s] = "idle"]
  /\ todo' = [todo EXCEPT ![s] = <<>>]

-----------------------------------------------------------------------------
(* recompute_amount_base *)

NeedsBase(i) == rows[i] # NULL /\ rows[i].base = NULL /\ ~rows[i].deleted

(* ORDER BY created_at LIMIT: the order of equal times is open. *)
OldestFirst(S, list) ==
  /\ Len(list) = IF Cardinality(S) < SweepLimit THEN Cardinality(S) ELSE SweepLimit
  /\ \A m \in DOMAIN list : \A i \in S \ {list[n] : n \in 1 .. m} :
       rows[list[m]].created <= rows[i].created

Scope(u) == IF u = NULL THEN Ids ELSE RowsOf(u)

(* A worker takes a sweep from the queue, which is its end there: the task *)
(* is acknowledged before it runs.                                         *)
StartSweep(s, u) ==
  LET S == {i \in Scope(u) : NeedsBase(i)}
  IN  /\ task[s] = "idle"
      /\ u \in sweeps
      /\ sweeps' = sweeps \ {u}
      /\ \E T \in SUBSET S : \E list \in Listings(T) :
           /\ OldestFirst(S, list)
           /\ todo' = [todo EXCEPT ![s] =
                [n \in DOMAIN list |->
                   [id     |-> list[n],
                    inputs |-> rows[list[n]].inputs,
                    ccy    |-> baseCurrency[rows[list[n]].user]]]]
           /\ task' = [task EXCEPT ![s] = IF list = <<>> THEN "commit"
                                                        ELSE "convert"]
      /\ UNCHANGED <<dbVars, baseCurrency, rated, forUser, due, changes>>

(* convert(): the rates are there and the row is updated next, or a rate   *)
(* is missing and the row is left for a later sweep.                       *)
Convert(s) ==
  /\ task[s] = "convert"
  /\ Head(todo[s]).inputs \in rated
  /\ task' = [task EXCEPT ![s] = "update"]
  /\ UNCHANGED <<dbVars, baseCurrency, rated, sweeps, todo, forUser, due, changes>>

(* Variant with a bug: the sweep ends at the first row without a rate. *)
StopAtUnrated(s) ==
  /\ task[s] = "convert"
  /\ Head(todo[s]).inputs \notin rated
  /\ todo' = [todo EXCEPT ![s] = <<>>]
  /\ task' = [task EXCEPT ![s] = "commit"]
  /\ UNCHANGED <<dbVars, baseCurrency, rated, sweeps, forUser, due, changes>>

SkipUnrated(s) ==
  /\ task[s] = "convert"
  /\ Head(todo[s]).inputs \notin rated
  /\ Continue(s, "convert")
  /\ UNCHANGED <<dbVars, baseCurrency, rated, sweeps, forUser, due, changes>>

(* UPDATE expenses SET amount_base, currency_base WHERE id = ... *)
WriteBase(s) ==
  LET r == Head(todo[s])
  IN  /\ task[s] = "update"
      /\ r.inputs \notin Failing
      /\ LockRow(s, r.id)
      /\ SetServerSeq
      /\ WriteRow(s, r.id,
           [rows[r.id] EXCEPT !.base = [inputs |-> r.inputs, ccy |-> r.ccy],
                              !.seq = seq'])
      /\ Continue(s, "convert")
      /\ UNCHANGED <<rows, baseCurrency, rated, sweeps, forUser, due, changes>>

-----------------------------------------------------------------------------
(* null_amount_base_for_user *)

(* The statement's snapshot of the user's rows, in some scan order. *)
StartRearm(s) ==
  /\ task[s] = "idle"
  /\ \E u \in due :
       \E list \in Listings({i \in RowsOf(u) : rows[i].base # NULL}) :
         /\ todo' = [todo EXCEPT ![s] = list]
         /\ task' = [task EXCEPT ![s] = IF list = <<>> THEN "commit" ELSE "null"]
         /\ forUser' = [forUser EXCEPT ![s] = u]
  /\ UNCHANGED <<dbVars, baseCurrency, rated, sweeps, due, changes>>

(* The WHERE clause is evaluated again on the version that was locked. *)
NullBase(s) ==
  LET i == Head(todo[s])
  IN  /\ task[s] = "null"
      /\ LockRow(s, i)
      /\ IF rows[i].base # NULL
         THEN /\ SetServerSeq
              /\ WriteRow(s, i, [rows[i] EXCEPT !.base = NULL, !.seq = seq'])
         ELSE UNCHANGED <<seq, pending>>
      /\ Continue(s, "null")
      /\ UNCHANGED <<rows, baseCurrency, rated, sweeps, forUser, due, changes>>

-----------------------------------------------------------------------------
CommitSweep(s) ==
  /\ task[s] = "commit"
  /\ CommitTransaction(s)
  /\ EndTask(s)
  /\ UNCHANGED <<baseCurrency, rated, sweeps, forUser, due, changes>>

(* The commit, and the sweep of the user's rows that is enqueued after it: *)
(* a crash or the broker may lose it.                                      *)
CommitRearm(s) ==
  /\ task[s] = "commit"
  /\ CommitTransaction(s)
  /\ EndTask(s)
  /\ due' = due \ {forUser[s]}
  /\ sweeps' \in {sweeps, sweeps \cup {forUser[s]}}
  /\ forUser' = [forUser EXCEPT ![s] = NULL]
  /\ UNCHANGED <<baseCurrency, rated, changes>>

(* Variant with a bug: a task that failed goes on with the rows it has read. *)
RetryBatch(s) == Rollback(s) /\ UNCHANGED recomputeVars

(* A task that is cut off or fails leaves nothing behind; the rows it would *)
(* have handled are still without an amount, and the user is still due.    *)
DropTask(s) ==
  /\ Rollback(s)
  /\ EndTask(s)
  /\ forUser' = [r \in Rearmers |-> IF r = s THEN NULL ELSE forUser[r]]
  /\ UNCHANGED <<baseCurrency, rated, sweeps, due, changes>>

(* convert() raises. *)
ConversionRaises(s) ==
  /\ task[s] = "convert"
  /\ Head(todo[s]).inputs \in rated \cap Failing
  /\ DropTask(s)

(* The UPDATE fails. *)
UpdateOverflows(s) ==
  /\ task[s] = "update"
  /\ Head(todo[s]).inputs \in Failing
  /\ DropTask(s)

(* The worker or its connection is lost, or PostgreSQL cancels the task's   *)
(* statement, as it may to break a cycle of waiting sessions.              *)
AbortTask(s) == task[s] # "idle" /\ DropTask(s)

TaskWaitsFor(s) ==
  IF task[s] = "update" THEN lock[Head(todo[s]).id]
  ELSE IF task[s] = "null" THEN lock[Head(todo[s])]
  ELSE NULL

(* The daily ingest has stored a day's rates, which makes more inputs      *)
(* convertible, or none.  It then enqueues a sweep of all rows, and nothing*)
(* else does: the beat schedules the ingest, not the sweep.                *)
IngestSucceeds ==
  /\ \E X \in SUBSET Inputs : rated' = rated \cup X
  /\ sweeps' = sweeps \cup {NULL}
  /\ UNCHANGED <<dbVars, baseCurrency, task, todo, forUser, due, changes>>

(* A backfill stores the rates of a day and enqueues nothing. *)
RatesArrive ==
  /\ \E X \in SUBSET Inputs : rated' = rated \cup X
  /\ UNCHANGED <<dbVars, baseCurrency, sweeps, task, todo, forUser, due, changes>>

(* No endpoint changes users.base_currency yet; handle_base_currency_changed *)
(* is written to run after such a change has committed.                    *)
ChangeBaseCurrency(u) ==
  /\ changes < MaxChanges
  /\ changes' = changes + 1
  /\ \E c \in Currencies \ {baseCurrency[u]} :
       baseCurrency' = [baseCurrency EXCEPT ![u] = c]
  /\ due' = due \cup {u}
  /\ UNCHANGED <<dbVars, rated, sweeps, task, todo, forUser>>

(* What a task does by itself once it has started. *)
SweepStep(s) ==
  \/ Convert(s)
  \/ SkipUnrated(s)
  \/ ConversionRaises(s)
  \/ WriteBase(s)
  \/ UpdateOverflows(s)
  \/ CommitSweep(s)

RearmStep(s) == NullBase(s) \/ CommitRearm(s)

-----------------------------------------------------------------------------
(* "amount_base/currency_base are a pure function of (amount_original,     *)
(* currency_original, spent_at, base_currency)" (push_sync): when no task  *)
(* is running, a stored amount in the base currency is the amount of the   *)
(* inputs it stands next to, in its user's currency.  The columns are      *)
(* cleared when an input changes, and for every row when the currency does.*)
BaseIsCurrent ==
  (\A s \in Tasks : task[s] = "idle") =>
    \A u \in Users \ due : \A i \in RowsOf(u) : rows[i].base # NULL =>
      rows[i].base = [inputs |-> rows[i].inputs, ccy |-> baseCurrency[u]]
=============================================================================
