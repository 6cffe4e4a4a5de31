------------------------------ MODULE SyncPush ------------------------------
(***************************************************************************)
(* POST /api/v1/sync: concurrent executions of `push_sync`, each of them   *)
(* one transaction over the expenses table and the monthly usage counter.  *)
(*                                                                         *)
(* The bulk INSERT ... ON CONFLICT DO UPDATE is not atomic for the other   *)
(* sessions: PostgreSQL takes the rows of the batch in order, and for each *)
(* of them runs the BEFORE INSERT trigger, then waits for the row's lock,  *)
(* then inserts, updates or leaves the row.  Each of these is an action.   *)
(*                                                                         *)
(* A handler can be stopped at any point (Abort): a crash, a lost          *)
(* connection, a cancelled request.  What its client does next, retrying   *)
(* the batch or not, is a Begin like any other.                            *)
(***************************************************************************)
EXTENDS ExpenseDb, PushBatch

CONSTANTS
  Handlers,     \* concurrent executions of push_sync
  DeviceOwner,  \* the user a device is registered to, NULL if none
  Batches,      \* the batches clients may send
  Periods,      \* calendar months, as numbers; bounds the clock
  MaxPushes     \* bounds the number of requests

ASSUME PushAssumption ==
  /\ Handlers \subseteq Sessions
  /\ DeviceOwner \in [Devices -> Users \cup {NULL}]
  /\ Batches \subseteq Seq(RawRecord)
  /\ Periods \subseteq Nat
  /\ 1 \in Periods
  /\ MaxPushes \in Nat
  /\ IsFiniteSet(Ids)

VARIABLES
  pc,        \* what each handler does next
  req,       \* its user, its batch and the start of its transaction
  valid,     \* `valid_records`: positions that passed the ownership checks
  cur,       \* the position the upsert has reached, 0 before it starts
  stamp,     \* server_seq proposed by the BEFORE INSERT trigger for cur
  returned,  \* the RETURNING row of each id, NULL if there is none
  period,    \* usage period the new rows are counted in, NULL if not counted
  usage,     \* committed usage_counters.log_count
  clock,     \* current month of the server
  pushes,    \* requests begun so far
  landed,    \* history: the period each row was counted in
  stored,    \* history: revisions of each id in pushes that were committed
  acked      \* history: revisions of each id a client was told are settled

pushVars == <<pc, req, valid, cur, stamp, returned, period, usage, clock,
              pushes, landed, stored, acked>>
vars == <<dbVars, pushVars>>

Request == [user : Users, batch : Batches, began : Nat]
Returning == [seq : Nat, inserted : BOOLEAN]
NothingReturned == [i \in Ids |-> NULL]

ASSUME ReturningAssumption == NULL \notin Returning

(* Between the ownership SELECTs and the COMMIT. *)
OpenPhases == {"stamp", "conflict", "count", "meter", "commit"}

(* The record the upsert of handler h has reached. *)
Record(h) == req[h].batch[cur[h]]

(* Variant with a bug: rows that were updated are counted as well. *)
ReturnedIds(h) == {i \in Ids : returned[h][i] # NULL}

(* `new_count` counts these: returned with xmax = 0. *)
NewIds(h) == {i \in Ids : returned[h][i] # NULL /\ returned[h][i].inserted}

(* The ids h reports as rejected: by the validation loop, or by one of the *)
(* two ownership checks.                                                   *)
Rejected(h) ==
  LET b == req[h].batch
  IN  RejectedOnSight(b) \cup {b[k].id : k \in Parsed(b) \ valid[h]}

(* Variant with a bug: records that failed the ownership checks are called *)
(* settled.                                                                *)
SettledIfParsed(h) == Parsed(req[h].batch)

(* The results that tell a client its record is settled: APPLIED or        *)
(* STALE_IGNORED.                                                          *)
Settled(h) == {k \in valid[h] : req[h].batch[k].id \notin Rejected(h)}

(* The revisions of id i at the positions K of the batch.                  *)
Revisions(h, K, i) ==
  {req[h].batch[k].rev : k \in {n \in K : req[h].batch[n].id = i}}

TypeOK ==
  /\ DbTypeOK
  /\ pc \in [Handlers -> {"idle", "select", "stamp", "conflict", "count",
                          "meter", "commit", "respond", "data_error"}]
  /\ req \in [Handlers -> Request \cup {NULL}]
  /\ \A h \in Handlers :
       IF pc[h] = "idle" THEN valid[h] = {} /\ cur[h] = 0
       ELSE req[h] \in Request /\ valid[h] \subseteq Parsed(req[h].batch)
  /\ \A h \in Handlers : pc[h] = "conflict" => cur[h] \in valid[h]
  /\ valid \in [Handlers -> SUBSET Nat]
  /\ cur \in [Handlers -> Nat]
  /\ stamp \in [Handlers -> Nat]
  /\ returned \in [Handlers -> [Ids -> Returning \cup {NULL}]]
  /\ period \in [Handlers -> Periods \cup {NULL}]
  /\ usage \in [Users -> [Periods -> Nat]]
  /\ clock \in Periods
  /\ pushes \in 0 .. MaxPushes
  /\ landed \in [Ids -> Periods \cup {NULL}]
  /\ stored \in [Ids -> SUBSET Nat]
  /\ acked \in [Ids -> SUBSET Nat]

Init ==
  /\ DbInit
  /\ pc = [h \in Handlers |-> "idle"]
  /\ req = [h \in Handlers |-> NULL]
  /\ valid = [h \in Handlers |-> {}]
  /\ cur = [h \in Handlers |-> 0]
  /\ stamp = [h \in Handlers |-> 0]
  /\ returned = [h \in Handlers |-> NothingReturned]
  /\ period = [h \in Handlers |-> NULL]
  /\ usage = [u \in Users |-> [p \in Periods |-> 0]]
  /\ clock = 1
  /\ pushes = 0
  /\ landed = [i \in Ids |-> NULL]
  /\ stored = [i \in Ids |-> {}]
  /\ acked = [i \in Ids |-> {}]

Goto(h, from, to) == pc[h] = from /\ pc' = [pc EXCEPT ![h] = to]

(***************************************************************************)
(* The request arrives and its batch is validated.  A batch without a      *)
(* well-formed record reads and writes nothing.                            *)
(***************************************************************************)
Begin(h) ==
  /\ pushes < MaxPushes
  /\ pushes' = pushes + 1
  /\ \E u \in Users, b \in Batches :
       /\ req' = [req EXCEPT ![h] = [user |-> u, batch |-> b, began |-> seq]]
       /\ Goto(h, "idle", IF Parsed(b) = {} THEN "respond" ELSE "select")
  /\ UNCHANGED <<dbVars, valid, cur, stamp, returned, period, usage, clock,
                 landed, stored, acked>>

(* Variant with a bug: the device of a record is not checked. *)
SelectRowOwners(h) ==
  LET b == req[h].batch
      passed == {k \in Parsed(b) : rows[b[k].id] = NULL
                                    \/ rows[b[k].id].user = req[h].user}
  IN  /\ Goto(h, "select", IF passed = {} THEN "respond" ELSE "stamp")
      /\ valid' = [valid EXCEPT ![h] = passed]
      /\ UNCHANGED <<dbVars, req, cur, stamp, returned, period, usage, clock,
                     pushes, landed, stored, acked>>

(* Variant with a bug: the owner of an existing row is not checked. *)
SelectDeviceOwners(h) ==
  LET b == req[h].batch
      passed == {k \in Parsed(b) : DeviceOwner[b[k].device] = req[h].user}
  IN  /\ Goto(h, "select", IF passed = {} THEN "respond" ELSE "stamp")
      /\ valid' = [valid EXCEPT ![h] = passed]
      /\ UNCHANGED <<dbVars, req, cur, stamp, returned, period, usage, clock,
                     pushes, landed, stored, acked>>

(* The device and owner SELECTs: READ COMMITTED and without a lock, so the *)
(* owners may have changed when the upsert runs.                           *)
SelectOwners(h) ==
  LET b == req[h].batch
      foreign(k) == /\ rows[b[k].id] # NULL
                    /\ rows[b[k].id].user # req[h].user
      passed == {k \in Parsed(b) : /\ DeviceOwner[b[k].device] = req[h].user
                                   /\ ~foreign(k)}
  IN  /\ Goto(h, "select", IF passed = {} THEN "respond" ELSE "stamp")
      /\ valid' = [valid EXCEPT ![h] = passed]
      /\ UNCHANGED <<dbVars, req, cur, stamp, returned, period, usage, clock,
                     pushes, landed, stored, acked>>

(* The next record of the batch: its BEFORE INSERT trigger runs, whether   *)
(* or not the row turns out to exist.                                      *)
FireInsertTrigger(h) ==
  /\ Goto(h, "stamp", "conflict")
  /\ \E k \in valid[h] :
       /\ cur[h] < k
       /\ \A j \in valid[h] : cur[h] < j => k <= j
       /\ req[h].batch[k].kind = "ok"
       /\ cur' = [cur EXCEPT ![h] = k]
  /\ SetServerSeq
  /\ stamp' = [stamp EXCEPT ![h] = seq']
  /\ UNCHANGED <<rows, lock, pending, req, valid, returned, period, usage,
                 clock, pushes, landed, stored, acked>>

(* A value the table cannot hold fails the whole statement. *)
StatementFails(h) ==
  /\ Goto(h, "stamp", "data_error")
  /\ \E k \in valid[h] : req[h].batch[k].kind = "unstorable"
  /\ Rollback(h)
  /\ returned' = [returned EXCEPT ![h] = NothingReturned]
  /\ UNCHANGED <<req, valid, cur, stamp, period, usage, clock, pushes, landed, stored,
                 acked>>

(* The rest of the upsert of the current record, once its row is locked. *)
NextRecord(h) ==
  /\ Goto(h, "conflict",
          IF \E j \in valid[h] : j > cur[h] THEN "stamp" ELSE "count")
  /\ LockRow(h, Record(h).id)
  /\ UNCHANGED <<rows, req, valid, cur, stamp, period, usage, clock, pushes,
                 landed, stored, acked>>

InsertRow(h) ==
  LET r == Record(h)
  IN  /\ NextRecord(h)
      /\ rows[r.id] = NULL
      /\ WriteRow(h, r.id, [user |-> req[h].user, device |-> r.device,
                            rev |-> r.rev, inputs |-> r.inputs,
                            deleted |-> r.deleted, base |-> NULL,
                            created |-> req[h].began, seq |-> stamp[h]])
      /\ returned' = [returned EXCEPT ![h][r.id] =
                        [seq |-> stamp[h], inserted |-> TRUE]]
      /\ UNCHANGED seq

(* Variant with a bug: a revision that was applied before is applied again.*)
NotOlder(r, old) == old.rev <= r.rev

(* The WHERE of the DO UPDATE: last writer wins on client_rev. *)
Newer(r, old) == old.rev < r.rev

(* Variant with a bug: the amount in the base currency is never cleared. *)
KeptBase(r, old) == old.base

(* An edit of the inputs clears the amount in the base currency. *)
NewBase(r, old) == IF old.inputs # r.inputs THEN NULL ELSE old.base

(* DO UPDATE: owner, device and creation time stay. *)
UpdateRow(h) ==
  LET r   == Record(h)
      old == rows[r.id]
  IN  /\ NextRecord(h)
      /\ old # NULL
      /\ Newer(r, old)
      /\ SetServerSeq
      /\ WriteRow(h, r.id,
           [old EXCEPT !.rev = r.rev, !.inputs = r.inputs,
                       !.deleted = r.deleted, !.seq = seq',
                       !.base = NewBase(r, old)])
      /\ returned' = [returned EXCEPT ![h][r.id] =
                        [seq |-> seq', inserted |-> FALSE]]

(* The WHERE of the DO UPDATE fails: the row stays, and stays locked. *)
KeepRow(h) ==
  /\ NextRecord(h)
  /\ rows[Record(h).id] # NULL
  /\ ~Newer(Record(h), rows[Record(h).id])
  /\ UNCHANGED <<seq, pending, returned>>

(* The upsert has returned.  The period is read from the server's clock    *)
(* now, before the counter's row is locked.                                *)
CountNew(h) ==
  /\ period' = [period EXCEPT ![h] = IF NewIds(h) = {} THEN NULL ELSE clock]
  /\ Goto(h, "count", IF NewIds(h) = {} THEN "commit" ELSE "meter")
  /\ UNCHANGED <<dbVars, req, valid, cur, stamp, returned, usage, clock,
                 pushes, landed, stored, acked>>

(* increment_usage: an upsert of its own, which waits while another        *)
(* transaction has incremented the same counter and not committed.         *)
IncrementUsage(h) ==
  /\ Goto(h, "meter", "commit")
  /\ \A g \in Handlers \ {h} :
       ~ /\ pc[g] = "commit"
         /\ period[g] = period[h]
         /\ req[g].user = req[h].user
  /\ UNCHANGED <<dbVars, req, valid, cur, stamp, returned, period, usage,
                 clock, pushes, landed, stored, acked>>

(* Variant with a bug: every record of the upsert is counted as new. *)
CommitCountingAll(h) ==
  /\ Goto(h, "commit", "respond")
  /\ CommitTransaction(h)
  /\ usage' = IF period[h] = NULL THEN usage
              ELSE [usage EXCEPT ![req[h].user][period[h]] =
                      @ + Cardinality(valid[h])]
  /\ landed' = [i \in Ids |-> IF i \in NewIds(h) THEN period[h] ELSE landed[i]]
  /\ stored' = [i \in Ids |-> stored[i] \cup Revisions(h, valid[h], i)]
  /\ UNCHANGED <<req, valid, cur, stamp, returned, period, clock, pushes,
                 acked>>

(* Rows and counter become visible together. *)
Commit(h) ==
  /\ Goto(h, "commit", "respond")
  /\ CommitTransaction(h)
  /\ usage' = IF period[h] = NULL THEN usage
              ELSE [usage EXCEPT ![req[h].user][period[h]] =
                      @ + Cardinality(NewIds(h))]
  /\ landed' = [i \in Ids |-> IF i \in NewIds(h) THEN period[h] ELSE landed[i]]
  /\ stored' = [i \in Ids |-> stored[i] \cup Revisions(h, valid[h], i)]
  /\ UNCHANGED <<req, valid, cur, stamp, returned, period, clock, pushes,
                 acked>>

(* Variant with a bug: the next request finds the position of the last.    *)
EndRequestKeepingCur(h) ==
  /\ pc' = [pc EXCEPT ![h] = "idle"]
  /\ req' = [req EXCEPT ![h] = NULL]
  /\ valid' = [valid EXCEPT ![h] = {}]
  /\ stamp' = [stamp EXCEPT ![h] = 0]
  /\ returned' = [returned EXCEPT ![h] = NothingReturned]
  /\ period' = [period EXCEPT ![h] = NULL]
  /\ UNCHANGED <<cur, usage, clock, pushes, landed, stored>>

(* The handler's local state disappears with the request. *)
EndRequest(h) ==
  /\ pc' = [pc EXCEPT ![h] = "idle"]
  /\ req' = [req EXCEPT ![h] = NULL]
  /\ valid' = [valid EXCEPT ![h] = {}]
  /\ cur' = [cur EXCEPT ![h] = 0]
  /\ stamp' = [stamp EXCEPT ![h] = 0]
  /\ returned' = [returned EXCEPT ![h] = NothingReturned]
  /\ period' = [period EXCEPT ![h] = NULL]
  /\ UNCHANGED <<usage, clock, pushes, landed, stored>>

(* The client receives one result per reported id. *)
Respond(h) ==
  /\ pc[h] = "respond"
  /\ acked' = [i \in Ids |-> acked[i] \cup Revisions(h, Settled(h), i)]
  /\ EndRequest(h)
  /\ UNCHANGED dbVars

RespondError(h) ==
  /\ pc[h] = "data_error"
  /\ EndRequest(h)
  /\ UNCHANGED <<dbVars, acked>>

(* The process or its connection is lost; an open transaction rolls back.  *)
(* After the commit it is the response that is lost.                       *)
Abort(h) ==
  /\ pc[h] # "idle"
  /\ Rollback(h)
  /\ EndRequest(h)
  /\ UNCHANGED acked

(* The session each handler waits for. *)
PushWaitsFor ==
  [s \in Sessions |-> IF s \in Handlers /\ pc[s] = "conflict"
                      THEN lock[Record(s).id]
                      ELSE NULL]

(* A deadlock victim: its statement is cancelled and the request ends in   *)
(* an error.                                                               *)
CancelDeadlocked(h, waitsFor) ==
  /\ Deadlocked(h, waitsFor)
  /\ Rollback(h)
  /\ EndRequest(h)
  /\ UNCHANGED acked

NextMonth ==
  /\ clock + 1 \in Periods
  /\ clock' = clock + 1
  /\ UNCHANGED <<dbVars, pc, req, valid, cur, stamp, returned, period, usage,
                 pushes, landed, stored, acked>>

(* Every request the bound allows was served: the model, not the service,  *)
(* ends here.                                                              *)
Served ==
  /\ pushes = MaxPushes
  /\ \A h \in Handlers : pc[h] = "idle"
  /\ UNCHANGED vars

(* What a handler does by itself once its request has begun. *)
Step(h) ==
  \/ SelectOwners(h)
  \/ FireInsertTrigger(h)
  \/ StatementFails(h)
  \/ InsertRow(h)
  \/ UpdateRow(h)
  \/ KeepRow(h)
  \/ CountNew(h)
  \/ IncrementUsage(h)
  \/ Commit(h)
  \/ Respond(h)
  \/ RespondError(h)

Next ==
  \/ \E h \in Handlers : \/ Begin(h)
                         \/ Step(h)
                         \/ Abort(h)
                         \/ CancelDeadlocked(h, PushWaitsFor)
  \/ NextMonth
  \/ Served

Spec == Init /\ [][Next]_vars

(* The event loop keeps running every handler, PostgreSQL keeps granting   *)
(* free locks, and its deadlock detector cancels a waiter of every cycle.  *)
Fairness ==
  \A h \in Handlers : /\ WF_vars(Step(h))
                      /\ WF_vars(CancelDeadlocked(h, PushWaitsFor))

FairSpec == Spec /\ Fairness

-----------------------------------------------------------------------------
(* Safety. *)

(* The free-tier meter is exact: a user's counter for a month equals the   *)
(* number of committed rows of that user which were counted in that month, *)
(* however often batches were replayed, interleaved or cut off.            *)
MeteringExact ==
  \A u \in Users, p \in Periods :
    usage[u][p] = Cardinality({i \in RowsOf(u) : landed[i] = p})

(* A revision the service called APPLIED or STALE_IGNORED is never lost:   *)
(* from then on the committed row is at that revision or a later one.      *)
AckedDurable ==
  \A i \in Ids : \A n \in acked[i] : rows[i] # NULL /\ rows[i].rev >= n

(* Every committed expense was created on a device of the user it belongs  *)
(* to, although devices come with each record and users with the request.  *)
RowsOnOwnDevice ==
  \A i \in Ids : rows[i] # NULL => DeviceOwner[rows[i].device] = rows[i].user

(* The server_seq reported for an applied record is its row's, or the row  *)
(* has been written again with a later one.                                *)
ReportedSeqReached ==
  \A h \in Handlers : pc[h] = "respond" =>
    \A i \in Ids : returned[h][i] # NULL =>
      /\ rows[i] # NULL
      /\ rows[i].seq >= returned[h][i].seq
      /\ HighWater(rows[i].user) >= returned[h][i].seq

(* No two row versions, committed or about to be, share a server_seq: the  *)
(* pull cursor can stop between any two rows.                              *)
Versions(i) ==
  {rows[i]} \cup {pending[s][i] : s \in {t \in Sessions : lock[i] = t}}
SeqsUnique ==
  \A i, j \in Ids : i # j =>
    \A v \in Versions(i) \ {NULL}, w \in Versions(j) \ {NULL} : v.seq # w.seq

(* What the upsert has computed so far stays right until it commits: every *)
(* record already passed still has its row locked, and inserting,          *)
(* updating or keeping it would be decided the same way now.               *)
Passed(h) ==
  {k \in valid[h] : k < cur[h] \/ (k = cur[h] /\ pc[h] # "conflict")}

Decided(h, r) ==
  LET old == rows[r.id]  new == pending[h][r.id]
  IN  /\ lock[r.id] = h
      /\ IF old # NULL /\ old.rev >= r.rev
         THEN new = NULL /\ returned[h][r.id] = NULL
         ELSE /\ new # NULL
              /\ new.rev = r.rev
              /\ new.inputs = r.inputs
              /\ new.deleted = r.deleted
              /\ old = NULL => new.device = r.device
              /\ returned[h][r.id] = [seq |-> new.seq, inserted |-> old = NULL]

UpsertSerializable ==
  \A h \in Handlers : pc[h] \in OpenPhases =>
    \A k \in Passed(h) : Decided(h, req[h].batch[k])

(* The same, seen from the rows: a version that waits for its transaction  *)
(* to commit is the only one of its row, replaces the version that is      *)
(* committed now, and RETURNING has reported it as what it is, an insert   *)
(* or an update.  The safety theorems rest on it.                          *)
Replaces(new, old) ==
  /\ new.rev > old.rev
  /\ new.seq > old.seq
  /\ new.user = old.user
  /\ new.device = old.device
  /\ new.created = old.created

Standing(h, i) ==
  IF pending[h][i] = NULL THEN returned[h][i] = NULL
  ELSE /\ lock[i] = h
       /\ returned[h][i] # NULL
       /\ returned[h][i].inserted <=> rows[i] = NULL
       /\ IF rows[i] = NULL THEN pending[h][i].user = req[h].user
                            ELSE Replaces(pending[h][i], rows[i])

PendingReplaces ==
  /\ \A h \in Handlers : pc[h] \notin OpenPhases => pending[h] = NoWrites
  /\ \A h \in Handlers :
       pc[h] \in {"idle", "select"} => returned[h] = NothingReturned
  /\ \A h \in Handlers : pc[h] \in OpenPhases => \A i \in Ids : Standing(h, i)

(* A row only ever moves forward: to a higher client revision and to a     *)
(* higher server_seq, keeping its owner, its device and its creation time. *)
LastWriterWins ==
  [][\A i \in Ids : rows'[i] # rows[i] =>
       /\ rows'[i] # NULL
       /\ rows[i] # NULL => Replaces(rows'[i], rows[i])]_rows

(* Replaying a batch is a true no-op: when every record of a push was part *)
(* of a committed push before, in this revision or a later one, the push   *)
(* changes no row and counts nothing.  It goes by what was committed, not  *)
(* by what clients were told: they replay when the response was lost.      *)
Replayed(h) ==
  \A k \in valid[h] : \E n \in stored[req[h].batch[k].id] : n >= req[h].batch[k].rev

ReplayIsNoOp ==
  [][\A h \in Handlers :
       (pc[h] = "commit" /\ pc'[h] = "respond" /\ Replayed(h)) =>
         UNCHANGED <<rows, usage>>]_vars

(* The rows, without their stamps and enrichment, and the counters         *)
(* implement a store that accepts the records of a push in one step, by    *)
(* the owners of that moment, and merges them in a later one.              *)
Version(row) ==
  IF row = NULL THEN NULL
  ELSE [user |-> row.user, device |-> row.device, rev |-> row.rev,
        inputs |-> row.inputs, deleted |-> row.deleted]

Sent(r) ==
  [id |-> r.id, device |-> r.device, rev |-> r.rev, inputs |-> r.inputs,
   deleted |-> r.deleted]

Claimed(u, b, K) == [user |-> u, records |-> {Sent(b[k]) : k \in K}]

Accepted(h) ==
  IF pc[h] \in OpenPhases THEN Claimed(req[h].user, req[h].batch, valid[h])
                          ELSE NULL

Store == INSTANCE LwwStore
           WITH store  <- [i \in Ids |-> Version(rows[i])],
                claims <- [h \in Handlers |-> Accepted(h)]

ASSUME VersionAssumption == NULL \notin Store!Version \cup Store!Claim

ImplementsLwwStore == Store!Spec

-----------------------------------------------------------------------------
(* Liveness. *)

(* Every request ends, whatever the order in which concurrent batches name *)
(* their rows.                                                             *)
EveryPushEnds == \A h \in Handlers : pc[h] # "idle" ~> pc[h] = "idle"

-----------------------------------------------------------------------------
(* What the documentation claims and the code does not do. *)

(* "one bad record from a stale app version can't block sync for the rest  *)
(* of an offline queue" (sync.py, SyncPushRequest): when the data of a     *)
(* batch makes the request fail, no record that the table could hold is    *)
(* turned away with it.                                                    *)
BadRecordIsolated ==
  \A h \in Handlers : pc[h] = "data_error" =>
    \A k \in valid[h] : req[h].batch[k].kind # "ok"

(* "malformed/unauthorized records are rejected individually" (push_sync)  *)
(* and "record id belongs to a different user": no push changes a row that *)
(* belongs to somebody else.                                               *)
ForeignRowsUntouched ==
  [][\A h \in Handlers : pc[h] = "commit" /\ pc'[h] = "respond" =>
       \A i \in Ids : rows'[i] # rows[i] /\ rows[i] # NULL =>
         rows[i].user = req[h].user]_vars
=============================================================================
