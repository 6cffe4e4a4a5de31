---------------------------- MODULE UpsertProofs ----------------------------
(***************************************************************************)
(* More about SyncPush, on top of SyncPushProofs: that the statement of    *)
(* the upsert is serializable (the push is not: owners are read before it),*)
(* and what follows for clients: nothing acknowledged is lost, a replay    *)
(* changes nothing, rows stay with their device's owner.                   *)
(***************************************************************************)
EXTENDS SyncPushProofs, WellFoundedInduction

(* The positions the validation loop keeps name different ids. *)
LEMMA ParsedDistinct ==
  ASSUME NEW b \in Batches, NEW j \in Parsed(b), NEW k \in Parsed(b),
         b[j].id = b[k].id
  PROVE  j = k
<1>1. b \in Seq(RawRecord)
  BY PushAssumption
<1>2. DOMAIN b = 1 .. Len(b) /\ Len(b) \in Nat
  BY <1>1
<1>3. j \in 1 .. Len(b) /\ k \in 1 .. Len(b)
  BY <1>2 DEF Parsed
<1>4. ASSUME j < k PROVE FALSE
  <2>1. j \in 1 .. k - 1
    BY <1>3, <1>4
  <2>2. FirstOfItsId(b, k) /\ FirstOfItsId(b, j)
    BY DEF Parsed
  <2>3. QED
    BY <2>1, <2>2 DEF FirstOfItsId
<1>5. ASSUME k < j PROVE FALSE
  <2>1. k \in 1 .. j - 1
    BY <1>3, <1>5
  <2>2. FirstOfItsId(b, k) /\ FirstOfItsId(b, j)
    BY DEF Parsed
  <2>3. QED
    BY <2>1, <2>2 DEF FirstOfItsId
<1>6. QED
  BY <1>3, <1>4, <1>5

(* A busy handler's batch and its valid positions. *)
LEMMA ValidFacts ==
  ASSUME TypeOK, NEW h \in Handlers
  PROVE  /\ pc[h] = "idle" => valid[h] = {} /\ cur[h] = 0
         /\ \A k \in valid[h] : /\ k \in Nat \ {0}
                                /\ req[h] \in Request
                                /\ req[h].batch \in Batches
                                /\ k \in Parsed(req[h].batch)
                                /\ req[h].batch[k] \in RawRecord
         /\ \A j, k \in valid[h] :
              req[h].batch[j].id = req[h].batch[k].id => j = k
<1>1. pc[h] = "idle" => valid[h] = {} /\ cur[h] = 0
  BY DEF TypeOK
<1>2. ASSUME NEW k \in valid[h]
      PROVE  /\ k \in Nat \ {0} /\ req[h] \in Request /\ req[h].batch \in Batches
             /\ k \in Parsed(req[h].batch) /\ req[h].batch[k] \in RawRecord
  <2>1. req[h] \in Request /\ k \in Parsed(req[h].batch)
    BY <1>1, <1>2 DEF TypeOK
  <2>2. req[h].batch \in Batches
    BY <2>1 DEF Request
  <2>3. req[h].batch \in Seq(RawRecord)
    BY <2>2, PushAssumption
  <2>4. k \in 1 .. Len(req[h].batch) /\ Len(req[h].batch) \in Nat
    BY <2>1, <2>3 DEF Parsed
  <2>5. QED
    BY <2>1, <2>2, <2>3, <2>4
<1>3. QED
  BY <1>1, <1>2, ParsedDistinct

-----------------------------------------------------------------------------
(* The upsert's progress. *)

(* Where handler h is in its batch, what it has decided so far, and that   *)
(* it has written nothing else.                                            *)
Progress(h) ==
  /\ pc[h] = "select" => cur[h] = 0
  /\ pc[h] \in {"count", "meter", "commit"} => \A k \in valid[h] : k <= cur[h]
  /\ pc[h] \in OpenPhases => \A k \in Passed(h) : Decided(h, req[h].batch[k])
  /\ pc[h] \in OpenPhases => \A i \in Ids : pending[h][i] # NULL =>
       \E k \in Passed(h) : req[h].batch[k].id = i
  /\ \A k \in valid[h] : DeviceOwner[req[h].batch[k].device] = req[h].user

(* A step of another handler leaves everything Progress(g) is about alone: *)
(* rows that g holds are neither taken nor committed by anybody else.      *)
Untouched(g) ==
  /\ pc'[g] = pc[g] /\ req'[g] = req[g] /\ valid'[g] = valid[g] /\ cur'[g] = cur[g]
  /\ returned'[g] = returned[g] /\ pending'[g] = pending[g]
  /\ \A i \in Ids : lock[i] = g => lock'[i] = g /\ rows'[i] = rows[i]

LEMMA UntouchedKeeps ==
  ASSUME TypeOK, NEW g \in Handlers, Progress(g), Untouched(g)
  PROVE  Progress(g)'
<1>1. Passed(g)' = Passed(g) /\ Passed(g) \subseteq valid[g]
  BY DEF Untouched, Passed
<1>2. ASSUME NEW k \in Passed(g), Decided(g, req[g].batch[k])
      PROVE  Decided(g, req[g].batch[k])'
  <2>1. req[g].batch[k].id \in Ids
    BY <1>1, ValidFacts DEF RawRecord
  <2>2. QED
    BY <1>2, <2>1 DEF Decided, Untouched
<1>3. pc'[g] \in OpenPhases => \A k \in Passed(g)' : Decided(g, req[g].batch[k])'
  BY <1>1, <1>2 DEF Progress, Untouched
<1>4. pc'[g] \in OpenPhases => \A i \in Ids : pending'[g][i] # NULL =>
        \E k \in Passed(g)' : req'[g].batch[k].id = i
  BY <1>1 DEF Progress, Untouched
<1>5. QED
  BY <1>3, <1>4 DEF Progress, Untouched

(* What a handler does to the tables. *)
HandlerStep(h) ==
  Begin(h) \/ Step(h) \/ Abort(h) \/ CancelDeadlocked(h, PushWaitsFor)

(* Rows that another session holds are neither taken nor written.          *)
Kept(s) ==
  /\ pending'[s] = pending[s]
  /\ \A i \in Ids : lock[i] = s => lock'[i] = s /\ rows'[i] = rows[i]

LEMMA OthersKept ==
  ASSUME SafeInv, NEW h \in Handlers, HandlerStep(h), NEW s \in Sessions \ {h}
  PROVE  Kept(s)
<1> USE DEF SafeInv
<1>t. ASSUME EndTransaction(h)
      PROVE  /\ pending'[s] = pending[s]
             /\ \A i \in Ids : lock[i] = s => lock'[i] = s
  BY <1>t, PushAssumption DEF EndTransaction, TypeOK, DbTypeOK
<1>r. ASSUME Rollback(h) PROVE Kept(s)
  BY <1>r, <1>t DEF Rollback, Kept
<1>n. ASSUME NextRecord(h)
      PROVE  \A i \in Ids : lock[i] = s => lock'[i] = s /\ rows'[i] = rows[i]
  <2>1. pc[h] = "conflict"
    BY <1>n DEF NextRecord, Goto
  <2>2. Record(h).id \in Ids
    BY <2>1, RecordType DEF RawRecord
  <2>3. lock[Record(h).id] # s
    BY <1>n, SessionAssumption, SMTT(30) DEF NextRecord, LockRow
  <2>4. QED
    BY <1>n, <2>2, <2>3 DEF NextRecord, LockRow, TypeOK, DbTypeOK
<1>1. CASE \/ Begin(h) \/ SelectOwners(h) \/ FireInsertTrigger(h) \/ CountNew(h)
           \/ IncrementUsage(h) \/ Respond(h) \/ RespondError(h)
  BY <1>1 DEF Begin, SelectOwners, FireInsertTrigger, CountNew, IncrementUsage,
     Respond, RespondError, dbVars, Kept
<1>2. CASE StatementFails(h) \/ Abort(h) \/ CancelDeadlocked(h, PushWaitsFor)
  BY <1>2, <1>r DEF StatementFails, Abort, CancelDeadlocked
<1>3. CASE InsertRow(h) \/ UpdateRow(h) \/ KeepRow(h)
  <2>1. pending'[s] = pending[s]
    BY <1>3, PushAssumption
       DEF InsertRow, UpdateRow, KeepRow, WriteRow, TypeOK, DbTypeOK
  <2>2. QED
    BY <1>3, <1>n, <2>1 DEF InsertRow, UpdateRow, KeepRow, Kept
<1>4. CASE Commit(h)
  <2>1. pc[h] = "commit" /\ rows' = Committed(h) /\ EndTransaction(h)
    BY <1>4 DEF Commit, CommitTransaction, Goto
  <2>2. \A i \in Ids : lock[i] = s => rows'[i] = rows[i]
    <3>1. \A i \in Ids : lock[i] = s => pending[h][i] = NULL
      BY <2>1 DEF PendingReplaces, OpenPhases, Standing
    <3>2. QED
      BY <2>1, <3>1 DEF Committed
  <2>3. QED
    BY <1>t, <2>1, <2>2 DEF Kept
<1>5. QED
  BY <1>1, <1>2, <1>3, <1>4 DEF HandlerStep, Step

LEMMA OthersUntouched ==
  ASSUME SafeInv, NEW h \in Handlers, HandlerStep(h), NEW g \in Handlers \ {h}
  PROVE  Untouched(g)
<1>1. Kept(g)
  BY OthersKept, PushAssumption
<1>2. /\ pc'[g] = pc[g] /\ req'[g] = req[g] /\ valid'[g] = valid[g]
      /\ cur'[g] = cur[g] /\ returned'[g] = returned[g]
  <2> USE DEF SafeInv, TypeOK, Goto
  <2>1. CASE \/ Begin(h) \/ SelectOwners(h) \/ FireInsertTrigger(h)
             \/ StatementFails(h) \/ CountNew(h) \/ IncrementUsage(h)
    BY <2>1 DEF Begin, SelectOwners, FireInsertTrigger, StatementFails, CountNew,
       IncrementUsage
  <2>2. CASE InsertRow(h) \/ UpdateRow(h) \/ KeepRow(h) \/ Commit(h)
    BY <2>2 DEF InsertRow, UpdateRow, KeepRow, NextRecord, Commit
  <2>3. CASE \/ Respond(h) \/ RespondError(h) \/ Abort(h)
             \/ CancelDeadlocked(h, PushWaitsFor)
    BY <2>3 DEF Respond, RespondError, Abort, CancelDeadlocked, EndRequest
  <2>4. QED
    BY <2>1, <2>2, <2>3 DEF HandlerStep, Step
<1>3. QED
  BY <1>1, <1>2 DEF Kept, Untouched

(* A record is decided: the records before it keep their decisions, since  *)
(* they are about other rows.                                              *)
LEMMA RecordDecided ==
  ASSUME SafeInv, NEW h \in Handlers, Progress(h), NextRecord(h),
         NEW i0 \in Ids, i0 = Record(h).id,
         Decided(h, Record(h))',
         \A i \in Ids \ {i0} : /\ pending'[h][i] = pending[h][i]
                               /\ returned'[h][i] = returned[h][i]
  PROVE  Progress(h)'
<1> DEFINE rec(k) == req[h].batch[k]
<1>1. /\ pc[h] = "conflict" /\ pc[h] \in OpenPhases
      /\ pc'[h] = IF \E j \in valid[h] : j > cur[h] THEN "stamp" ELSE "count"
      /\ UNCHANGED <<rows, req, valid, cur>>
      /\ \A i \in Ids \ {i0} : lock'[i] = lock[i]
  BY DEF NextRecord, LockRow, Goto, SafeInv, TypeOK, DbTypeOK, OpenPhases
<1>2. /\ cur[h] \in valid[h] /\ cur[h] \in Nat
      /\ valid[h] \subseteq Nat
      /\ i0 = rec(cur[h]).id
  BY <1>1 DEF SafeInv, TypeOK, Record
<1>3. Passed(h) = {k \in valid[h] : k < cur[h]}
  BY <1>1, <1>2 DEF Passed
<1>4. Passed(h)' = Passed(h) \cup {cur[h]}
  BY <1>1, <1>2, <1>3 DEF Passed
<1>5. \A k \in Passed(h) : k # cur[h] /\ rec(k).id # i0 /\ rec(k).id \in Ids
  BY <1>2, <1>3, ValidFacts DEF SafeInv, RawRecord
<1>6. ASSUME NEW k \in Passed(h)' PROVE Decided(h, req[h].batch[k])'
  <2>1. CASE k = cur[h]
    BY <1>1, <2>1 DEF Record
  <2>2. CASE k \in Passed(h)
    <3>1. Decided(h, rec(k))
      BY <1>1, <2>2 DEF Progress
    <3>2. QED
      BY <1>1, <1>5, <2>2, <3>1 DEF Decided
  <2>3. QED
    BY <1>4, <1>6, <2>1, <2>2
<1>7. ASSUME NEW i \in Ids, pending'[h][i] # NULL
      PROVE  \E k \in Passed(h)' : req'[h].batch[k].id = i
  <2>1. CASE i = i0
    BY <1>1, <1>2, <1>4, <2>1
  <2>2. CASE i # i0
    BY <1>1, <1>4, <1>7, <2>2 DEF Progress
  <2>3. QED
    BY <2>1, <2>2
<1>8. pc'[h] = "count" => \A k \in valid'[h] : k <= cur'[h]
  BY <1>1, <1>2
<1>9. QED
  BY <1>1, <1>6, <1>7, <1>8 DEF Progress

(* The upsert of one record, by each of its three outcomes. *)
LEMMA UpsertDecides ==
  ASSUME SafeInv, NEW h \in Handlers, Progress(h),
         InsertRow(h) \/ UpdateRow(h) \/ KeepRow(h)
  PROVE  Progress(h)'
<1> USE DEF SafeInv
<1>1. NextRecord(h) /\ pc[h] = "conflict" /\ UNCHANGED <<rows, req, cur>>
  BY DEF InsertRow, UpdateRow, KeepRow, NextRecord, Goto
<1>2. PICK i0 \in Ids : i0 = Record(h).id
  BY <1>1, RecordType DEF RawRecord
<1>3. Record(h)' = Record(h) /\ Record(h) \in RawRecord /\ Record(h).rev \in Nat
  BY <1>1, RecordType DEF Record, RawRecord
<1>4. lock[i0] = NULL /\ lock'[i0] = h
  BY <1>1, <1>2 DEF NextRecord, LockRow, TypeOK, DbTypeOK
<1>5. pending[h][i0] = NULL /\ returned[h][i0] = NULL
  BY <1>1, <1>4, FreeRow
<1>6. ASSUME NEW new, new # NULL, WriteRow(h, i0, new),
             NEW ret, returned' = [returned EXCEPT ![h][i0] = ret]
      PROVE  /\ pending'[h][i0] = new /\ returned'[h][i0] = ret
             /\ \A i \in Ids \ {i0} : /\ pending'[h][i] = pending[h][i]
                                      /\ returned'[h][i] = returned[h][i]
  BY <1>6, PushAssumption DEF WriteRow, TypeOK, DbTypeOK
<1>7. CASE InsertRow(h)
  <2> DEFINE r == Record(h)
             new == [user |-> req[h].user, device |-> r.device, rev |-> r.rev,
                     inputs |-> r.inputs, deleted |-> r.deleted, base |-> NULL,
                     created |-> req[h].began, seq |-> stamp[h]]
             ret == [seq |-> stamp[h], inserted |-> TRUE]
  <2>1. /\ WriteRow(h, i0, new) /\ returned' = [returned EXCEPT ![h][i0] = ret]
        /\ rows[i0] = NULL
    BY <1>2, <1>7 DEF InsertRow
  <2>2. new \in Row
    BY <1>1, <1>3, RecordType DEF TypeOK, RawRecord, Request, Row
  <2>3. /\ new # NULL /\ new.rev = r.rev /\ new.inputs = r.inputs
        /\ new.deleted = r.deleted /\ new.device = r.device
        /\ ret = [seq |-> new.seq, inserted |-> TRUE]
    BY <2>2, NullAssumption
  <2> HIDE DEF new, ret
  <2>4. /\ pending'[h][i0] = new /\ returned'[h][i0] = ret
        /\ \A i \in Ids \ {i0} : /\ pending'[h][i] = pending[h][i]
                                 /\ returned'[h][i] = returned[h][i]
    BY <1>6, <2>1, <2>3
  <2>5. Decided(h, Record(h))'
    BY <1>1, <1>2, <1>3, <1>4, <2>1, <2>3, <2>4 DEF Decided
  <2>6. QED
    BY <1>1, <1>2, <2>4, <2>5, RecordDecided
<1>8. CASE UpdateRow(h)
  <2> DEFINE r   == Record(h)
             old == rows[i0]
             new == [old EXCEPT !.rev = r.rev, !.inputs = r.inputs,
                       !.deleted = r.deleted, !.seq = seq',
                       !.base = NewBase(r, old)]
             ret == [seq |-> seq', inserted |-> FALSE]
  <2>1. /\ WriteRow(h, i0, new) /\ returned' = [returned EXCEPT ![h][i0] = ret]
        /\ old # NULL /\ old.rev < r.rev /\ seq' = seq + 1
    BY <1>2, <1>8 DEF UpdateRow, Newer, SetServerSeq
  <2>2. old \in Row /\ old.rev \in Nat /\ seq' \in Nat
    BY <2>1 DEF TypeOK, DbTypeOK, Row
  <2>3. new \in Row
    BY <1>3, <2>2 DEF NewBase, RawRecord, Row
  <2>4. /\ new # NULL /\ new.rev = r.rev /\ new.inputs = r.inputs
        /\ new.deleted = r.deleted
        /\ ret = [seq |-> new.seq, inserted |-> FALSE]
    BY <2>2, <2>3, NullAssumption DEF Row
  <2>5. ~ (old.rev >= r.rev)
    BY <1>3, <2>1, <2>2
  <2> HIDE DEF new, ret
  <2>6. /\ pending'[h][i0] = new /\ returned'[h][i0] = ret
        /\ \A i \in Ids \ {i0} : /\ pending'[h][i] = pending[h][i]
                                 /\ returned'[h][i] = returned[h][i]
    BY <1>6, <2>1, <2>4
  <2>7. Decided(h, Record(h))'
    BY <1>1, <1>2, <1>3, <1>4, <2>1, <2>4, <2>5, <2>6 DEF Decided
  <2>8. QED
    BY <1>1, <1>2, <2>6, <2>7, RecordDecided
<1>9. CASE KeepRow(h)
  <2>1. /\ rows[i0] # NULL /\ ~ (rows[i0].rev < Record(h).rev)
        /\ UNCHANGED <<pending, returned>>
    BY <1>2, <1>9 DEF KeepRow, Newer
  <2>2. rows[i0].rev \in Nat
    BY <2>1 DEF TypeOK, DbTypeOK, Row
  <2>3. Decided(h, Record(h))'
    BY <1>1, <1>2, <1>3, <1>4, <1>5, <2>1, <2>2 DEF Decided
  <2>4. QED
    BY <1>1, <1>2, <2>1, <2>3, RecordDecided
<1>10. QED
  BY <1>7, <1>8, <1>9

LEMMA ProgressInit ==
  ASSUME Init, NEW h \in Handlers
  PROVE  Progress(h)
BY DEF Init, Progress, OpenPhases

(* A handler that is not in a transaction has nothing to decide. *)
LEMMA ProgressOutside ==
  ASSUME TypeOK, NEW h \in Handlers, Progress(h),
         pc'[h] \notin OpenPhases \cup {"select"},
         \/ valid'[h] = {}
         \/ valid'[h] = valid[h] /\ req'[h] = req[h]
  PROVE  Progress(h)'
BY DEF Progress, OpenPhases

LEMMA OwnStepKeeps ==
  ASSUME SafeInv, NEW h \in Handlers, Progress(h), HandlerStep(h)
  PROVE  Progress(h)'
<1> USE DEF SafeInv
<1>e. ASSUME EndRequest(h) PROVE Progress(h)'
  <2>1. pc'[h] = "idle" /\ valid'[h] = {}
    BY <1>e DEF EndRequest, TypeOK
  <2>2. QED
    BY <2>1, ProgressOutside DEF OpenPhases
<1>1. CASE Begin(h)
  <2>1. /\ pc[h] = "idle" /\ pc'[h] \in {"respond", "select"}
        /\ UNCHANGED <<valid, cur>>
    BY <1>1 DEF Begin, Goto, TypeOK
  <2>2. valid[h] = {} /\ cur[h] = 0
    BY <2>1, ValidFacts
  <2>3. QED
    BY <2>1, <2>2 DEF Progress, OpenPhases
<1>2. CASE SelectOwners(h)
  <2>1. /\ pc[h] = "select" /\ pc'[h] \in {"respond", "stamp"}
        /\ valid'[h] \subseteq Parsed(req[h].batch)
        /\ \A k \in valid'[h] : DeviceOwner[req[h].batch[k].device] = req[h].user
        /\ UNCHANGED <<rows, lock, pending, cur, req>>
    BY <1>2 DEF SelectOwners, Goto, TypeOK, dbVars
  <2>2. cur[h] = 0 /\ req[h] \in Request
    BY <2>1 DEF Progress, TypeOK
  <2>3. valid'[h] \subseteq Nat \ {0}
    <3>1. req[h].batch \in Seq(RawRecord)
      BY <2>2, PushAssumption DEF Request
    <3>2. Parsed(req[h].batch) \subseteq 1 .. Len(req[h].batch)
          /\ Len(req[h].batch) \in Nat
      BY <3>1 DEF Parsed
    <3>3. QED
      BY <2>1, <3>2
  <2>4. Passed(h)' = {}
    BY <2>1, <2>2, <2>3 DEF Passed
  <2>5. pending'[h] = NoWrites
    BY <2>1, PushAssumption, SMTT(30) DEF PendingReplaces, OpenPhases
  <2>6. QED
    BY <2>1, <2>4, <2>5 DEF Progress, OpenPhases, NoWrites
<1>3. CASE FireInsertTrigger(h)
  <2>1. PICK k \in valid[h] : /\ cur[h] < k
                              /\ \A j \in valid[h] : cur[h] < j => k <= j
                              /\ cur' = [cur EXCEPT ![h] = k]
    BY <1>3 DEF FireInsertTrigger
  <2>2. /\ pc[h] = "stamp" /\ pc'[h] = "conflict" /\ cur'[h] = k
        /\ UNCHANGED <<rows, lock, pending, valid, req, returned>>
    BY <1>3, <2>1 DEF FireInsertTrigger, Goto, TypeOK
  <2>3. /\ valid[h] \subseteq Nat /\ cur[h] \in Nat
    BY DEF TypeOK
  <2>4. Passed(h)' = Passed(h)
    BY <2>1, <2>2, <2>3 DEF Passed
  <2>5. QED
    BY <2>2, <2>4 DEF Progress, OpenPhases, Decided
<1>4. CASE StatementFails(h)
  <2>1. pc'[h] = "data_error" /\ UNCHANGED <<valid, req>>
    BY <1>4 DEF StatementFails, Goto, TypeOK
  <2>2. QED
    BY <2>1, ProgressOutside DEF OpenPhases
<1>5. CASE InsertRow(h) \/ UpdateRow(h) \/ KeepRow(h)
  BY <1>5, UpsertDecides
<1>6. CASE CountNew(h) \/ IncrementUsage(h)
  <2>1. /\ pc[h] \in {"count", "meter"} /\ pc'[h] \in {"commit", "meter"}
        /\ UNCHANGED <<rows, lock, pending, valid, req, returned, cur>>
    BY <1>6 DEF CountNew, IncrementUsage, Goto, TypeOK, dbVars
  <2>2. Passed(h)' = Passed(h)
    BY <2>1 DEF Passed
  <2>3. QED
    BY <2>1, <2>2 DEF Progress, OpenPhases, Decided
<1>7. CASE Commit(h)
  <2>1. pc'[h] = "respond" /\ UNCHANGED <<valid, req>>
    BY <1>7 DEF Commit, Goto, TypeOK
  <2>2. QED
    BY <2>1, ProgressOutside DEF OpenPhases
<1>8. CASE Respond(h) \/ RespondError(h) \/ Abort(h) \/ CancelDeadlocked(h, PushWaitsFor)
  BY <1>8, <1>e DEF Respond, RespondError, Abort, CancelDeadlocked
<1>9. QED
  BY <1>1, <1>2, <1>3, <1>4, <1>5, <1>6, <1>7, <1>8 DEF HandlerStep, Step

AllProgress == \A h \in Handlers : Progress(h)

LEMMA ProgressStep == SafeInv /\ AllProgress /\ [Next]_vars => AllProgress'
<1> SUFFICES ASSUME SafeInv, AllProgress, [Next]_vars, NEW g \in Handlers
             PROVE  Progress(g)'
  BY DEF AllProgress
<1>1. Progress(g)
  BY DEF AllProgress
<1>2. ASSUME NEW h \in Handlers, HandlerStep(h) PROVE Progress(g)'
  <2>1. CASE g = h
    BY <1>1, <1>2, <2>1, OwnStepKeeps
  <2>2. CASE g # h
    BY <1>1, <1>2, <2>2, OthersUntouched, UntouchedKeeps DEF SafeInv
  <2>3. QED
    BY <2>1, <2>2
<1>3. CASE NextMonth \/ UNCHANGED vars
  <2>1. Untouched(g)
    BY <1>3 DEF NextMonth, vars, dbVars, pushVars, Untouched
  <2>2. QED
    BY <1>1, <2>1, UntouchedKeeps DEF SafeInv
<1>4. QED
  BY <1>2, <1>3 DEF Next, HandlerStep, Served

LEMMA ProgressInvariant == Spec => []AllProgress
<1>1. Init => AllProgress
  BY ProgressInit DEF AllProgress
<1>2. QED
  BY <1>1, ProgressStep, SafeInvariant, PTL DEF Spec

(* Until it commits, an upsert holds every row it has passed, and what it  *)
(* decided about the row (insert, update or leave) is what it would decide *)
(* now: concurrent statements come to the same as one after the other.     *)
THEOREM UpsertsSerialize == Spec => []UpsertSerializable
<1>1. AllProgress => UpsertSerializable
  BY DEF AllProgress, Progress, UpsertSerializable
<1>2. QED
  BY <1>1, ProgressInvariant, PTL

-----------------------------------------------------------------------------
(* Owners. *)

(* Only an insert or an update adds an uncommitted version.                *)
LEMMA OnlyUpsertsPropose ==
  ASSUME TypeOK, [Next]_vars, NEW s \in Sessions, NEW i \in Ids,
         pending'[s][i] # pending[s][i], pending'[s][i] # NULL
  PROVE  /\ s \in Handlers /\ i = Record(s).id
         /\ InsertRow(s) \/ UpdateRow(s)
<1>1. ASSUME NEW h \in Handlers, EndTransaction(h) PROVE FALSE
  BY <1>1, PushAssumption, SMTT(40) DEF EndTransaction, NoWrites, TypeOK, DbTypeOK
<1>2. PICK h \in Handlers : InsertRow(h) \/ UpdateRow(h)
  BY <1>1 DEF Next, Step, Begin, SelectOwners, FireInsertTrigger, StatementFails,
     KeepRow, CountNew, IncrementUsage, Commit, CommitTransaction, Respond,
     RespondError, Abort, CancelDeadlocked, NextMonth, Served, Rollback, vars, dbVars
<1>3. Record(h).id \in Ids
  BY <1>2, RecordType DEF InsertRow, UpdateRow, NextRecord, Goto, RawRecord
<1>4. \E v : pending' = [pending EXCEPT ![h][Record(h).id] = v]
  BY <1>2 DEF InsertRow, UpdateRow, WriteRow
<1>5. h = s /\ Record(h).id = i
  BY <1>3, <1>4, PushAssumption DEF TypeOK, DbTypeOK
<1>6. QED
  BY <1>2, <1>5

OnOwnDevice(v) == v # NULL => DeviceOwner[v.device] = v.user

DevicesOwned ==
  /\ \A i \in Ids : OnOwnDevice(rows[i])
  /\ \A s \in Sessions, i \in Ids : OnOwnDevice(pending[s][i])

LEMMA ProposalOwned ==
  ASSUME SafeInv, AllProgress, DevicesOwned, NEW h \in Handlers,
         InsertRow(h) \/ UpdateRow(h), NEW i \in Ids, i = Record(h).id
  PROVE  OnOwnDevice(pending'[h][i])
<1> USE DEF SafeInv
<1>1. pc[h] = "conflict"
  BY DEF InsertRow, UpdateRow, NextRecord, Goto
<1>2. Record(h) \in RawRecord /\ cur[h] \in valid[h]
  BY <1>1, RecordType DEF TypeOK
<1>3. CASE InsertRow(h)
  <2>1. /\ pending'[h][i].user = req[h].user
        /\ pending'[h][i].device = Record(h).device
    BY <1>3, PushAssumption DEF InsertRow, WriteRow, TypeOK, DbTypeOK
  <2>2. DeviceOwner[Record(h).device] = req[h].user
    BY <1>2 DEF AllProgress, Progress, Record
  <2>3. QED
    BY <2>1, <2>2 DEF OnOwnDevice
<1>4. CASE UpdateRow(h)
  <2>1. rows[i] # NULL /\ rows[i] \in Row
    BY <1>4 DEF UpdateRow, TypeOK, DbTypeOK
  <2>2. /\ pending'[h][i].user = rows[i].user
        /\ pending'[h][i].device = rows[i].device
    BY <1>4, <2>1, PushAssumption DEF UpdateRow, WriteRow, TypeOK, DbTypeOK, Row
  <2>3. QED
    BY <2>1, <2>2 DEF OnOwnDevice, DevicesOwned
<1>5. QED
  BY <1>3, <1>4

LEMMA DevicesStep ==
  SafeInv /\ AllProgress /\ DevicesOwned /\ [Next]_vars => DevicesOwned'
<1> SUFFICES ASSUME SafeInv, AllProgress, DevicesOwned, [Next]_vars
             PROVE  DevicesOwned'
  OBVIOUS
<1>1. ASSUME NEW i \in Ids PROVE OnOwnDevice(rows'[i])
  <2>1. CASE rows'[i] = rows[i]
    BY <2>1 DEF DevicesOwned, OnOwnDevice
  <2>2. CASE rows'[i] # rows[i]
    <3>1. PICK h \in Handlers : Commit(h)
      BY <2>2, OnlyCommitWrites DEF vars, dbVars
    <3>2. rows'[i] = pending[h][i] /\ h \in Sessions
      BY <2>2, <3>1, CommitReplaces, PushAssumption
    <3>3. QED
      BY <3>2 DEF DevicesOwned, OnOwnDevice
  <2>3. QED
    BY <2>1, <2>2
<1>2. ASSUME NEW s \in Sessions, NEW i \in Ids PROVE OnOwnDevice(pending'[s][i])
  <2>1. CASE pending'[s][i] = pending[s][i] \/ pending'[s][i] = NULL
    BY <2>1 DEF DevicesOwned, OnOwnDevice
  <2>2. CASE pending'[s][i] # pending[s][i] /\ pending'[s][i] # NULL
    BY <2>2, OnlyUpsertsPropose, ProposalOwned DEF SafeInv
  <2>3. QED
    BY <2>1, <2>2
<1>3. QED
  BY <1>1, <1>2 DEF DevicesOwned, OnOwnDevice

(* The devices come with the records and the user with the request, and    *)
(* the ownership SELECTs run before the upsert and lock nothing: still no  *)
(* row is ever committed for a user whose device did not create it.        *)
THEOREM DevicesStayWithOwners == Spec => []RowsOnOwnDevice
<1>1. Init => DevicesOwned
  BY DEF Init, DbInit, NoWrites, DevicesOwned, OnOwnDevice
<1>2. DevicesOwned => RowsOnOwnDevice
  BY DEF DevicesOwned, OnOwnDevice, RowsOnOwnDevice
<1>3. QED
  BY <1>1, <1>2, DevicesStep, SafeInvariant, ProgressInvariant, PTL DEF Spec

-----------------------------------------------------------------------------
(* What is acknowledged stays. *)

(* Row i is at revision n or a later one. *)
Reached(i, n) == rows[i] # NULL /\ rows[i].rev >= n

LEMMA ReachedStays ==
  ASSUME SafeInv, [Next]_vars, NEW i \in Ids, NEW n \in Nat, Reached(i, n)
  PROVE  Reached(i, n)'
<1>1. CASE rows'[i] = rows[i]
  BY <1>1 DEF Reached
<1>2. CASE rows'[i] # rows[i]
  <2>1. PICK h \in Handlers : Commit(h)
    BY <1>2, OnlyCommitWrites DEF vars, dbVars
  <2>2. /\ rows'[i] = pending[h][i] /\ rows'[i] # NULL
        /\ Replaces(rows'[i], rows[i])
    BY <1>2, <2>1, CommitReplaces DEF Reached
  <2>3. rows[i].rev \in Nat /\ rows'[i].rev \in Nat
    BY <2>2, PushAssumption DEF Reached, SafeInv, TypeOK, DbTypeOK, Row
  <2>4. QED
    BY <2>2, <2>3 DEF Reached, Replaces
<1>3. QED
  BY <1>1, <1>2

(* At its commit an upsert has passed every record; each is settled by the *)
(* version it wrote or by the one that made it leave the row alone.        *)
LEMMA CommitReaches ==
  ASSUME SafeInv, AllProgress, NEW h \in Handlers, Commit(h), NEW k \in valid[h]
  PROVE  Reached(req[h].batch[k].id, req[h].batch[k].rev)'
<1> DEFINE r == req[h].batch[k]
<1>1. pc[h] = "commit" /\ rows' = Committed(h) /\ UNCHANGED req
  BY DEF Commit, CommitTransaction, Goto
<1>2. k \in Passed(h)
  <2>1. k <= cur[h]
    BY <1>1 DEF AllProgress, Progress
  <2>2. k \in Nat /\ cur[h] \in Nat
    BY DEF SafeInv, TypeOK
  <2>3. QED
    BY <1>1, <2>1, <2>2 DEF Passed
<1>3. Decided(h, r)
  BY <1>1, <1>2 DEF AllProgress, Progress, OpenPhases
<1>4. r.id \in Ids /\ r.rev \in Nat
  BY ValidFacts DEF SafeInv, RawRecord
<1>5. Reached(r.id, r.rev)'
  BY <1>1, <1>3, <1>4 DEF Decided, Committed, Reached
<1>6. QED
  BY <1>1, <1>5 DEF Reached

SettledReached ==
  \A h \in Handlers : pc[h] = "respond" => \A k \in valid[h] :
    Reached(req[h].batch[k].id, req[h].batch[k].rev)

LEMMA SettledStep ==
  ASSUME SafeInv, AllProgress, SettledReached, [Next]_vars
  PROVE  SettledReached'
<1> SUFFICES ASSUME NEW g \in Handlers, pc'[g] = "respond", NEW k \in valid'[g]
             PROVE  /\ rows'[req'[g].batch[k].id] # NULL
                    /\ rows'[req'[g].batch[k].id].rev >= req'[g].batch[k].rev
  BY DEF SettledReached, Reached
<1>1. CASE pc[g] = "respond" /\ valid'[g] = valid[g] /\ req'[g] = req[g]
  <2>1. PICK i \in Ids, n \in Nat : i = req[g].batch[k].id /\ n = req[g].batch[k].rev
    BY <1>1, ValidFacts DEF SafeInv, RawRecord
  <2>2. Reached(i, n)
    BY <1>1, <2>1 DEF SettledReached
  <2>3. Reached(i, n)'
    BY <2>2, ReachedStays
  <2>4. QED
    BY <1>1, <2>1, <2>3 DEF Reached
<1>2. ASSUME NEW h \in Handlers, HandlerStep(h), h # g PROVE Untouched(g)
  BY <1>2, OthersUntouched
<1>3. CASE Commit(g)
  <2>1. /\ k \in valid[g] /\ UNCHANGED req
    BY <1>3 DEF Commit
  <2>2. QED
    BY <1>3, <2>1, CommitReaches DEF Reached
<1>4. CASE HandlerStep(g) /\ ~Commit(g)
  <2>1. ~ EndRequest(g)
    BY DEF EndRequest, SafeInv, TypeOK
  <2>2. Begin(g) \/ SelectOwners(g)
    BY <1>4, <2>1 DEF HandlerStep, Step, FireInsertTrigger, StatementFails,
       InsertRow, UpdateRow, KeepRow, NextRecord, CountNew, IncrementUsage, Respond,
       RespondError, Abort, CancelDeadlocked, Goto, SafeInv, TypeOK
  <2>3. valid'[g] = {}
    <3>1. CASE Begin(g)
      BY <3>1, ValidFacts DEF Begin, Goto, SafeInv
    <3>2. CASE SelectOwners(g)
      BY <3>2 DEF SelectOwners, Goto, SafeInv, TypeOK
    <3>3. QED
      BY <2>2, <3>1, <3>2
  <2>4. QED
    BY <2>3
<1>5. CASE NextMonth \/ UNCHANGED vars
  BY <1>1, <1>5 DEF NextMonth, vars, pushVars
<1>6. QED
  BY <1>1, <1>2, <1>3, <1>4, <1>5 DEF Next, HandlerStep, Served, Untouched

LEMMA AckedStep ==
  ASSUME SafeInv, SettledReached, AckedDurable, [Next]_vars
  PROVE  AckedDurable'
<1> SUFFICES ASSUME NEW i \in Ids, NEW n \in acked'[i] PROVE Reached(i, n)'
  BY DEF AckedDurable, Reached
<1>1. CASE n \in acked[i]
  <2>1. Reached(i, n) /\ n \in Nat
    BY <1>1 DEF AckedDurable, Reached, SafeInv, TypeOK
  <2>2. QED
    BY <2>1, ReachedStays
<1>2. CASE n \notin acked[i]
  <2>1. PICK h \in Handlers : Respond(h)
    BY <1>2 DEF Next, Step, Begin, SelectOwners, FireInsertTrigger, StatementFails,
       InsertRow, UpdateRow, KeepRow, NextRecord, CountNew, IncrementUsage, Commit,
       RespondError, Abort, CancelDeadlocked, NextMonth, Served, vars, pushVars
  <2>2. PICK k \in valid[h] : req[h].batch[k].id = i /\ req[h].batch[k].rev = n
    BY <1>2, <2>1 DEF Respond, Revisions, Settled
  <2>3. Reached(i, n) /\ n \in Nat
    BY <2>1, <2>2, ValidFacts DEF Respond, SettledReached, SafeInv, RawRecord
  <2>4. QED
    BY <2>3, ReachedStays, SMTT(40)
<1>3. QED
  BY <1>1, <1>2

AckInv == SettledReached /\ AckedDurable

LEMMA AckInvariant == Spec => []AckInv
<1>1. Init => AckInv
  BY DEF Init, AckInv, SettledReached, AckedDurable
<1>2. SafeInv /\ AllProgress /\ AckInv /\ [Next]_vars => AckInv'
  BY SettledStep, AckedStep DEF AckInv
<1>3. QED
  BY <1>1, <1>2, SafeInvariant, ProgressInvariant, PTL DEF Spec

(* A revision that a client was told is settled (APPLIED or STALE_IGNORED) *)
(* is never lost: the committed row stays at that revision or a later one, *)
(* whatever other devices push and whatever crashes.                       *)
THEOREM AcknowledgedIsDurable == Spec => []AckedDurable
<1>1. AckInv => AckedDurable
  BY DEF AckInv
<1>2. QED
  BY <1>1, AckInvariant, PTL

-----------------------------------------------------------------------------
(* Replays. *)

LEMMA PeriodInvariant == Spec => []PeriodChosen
<1>1. SafeInv /\ PeriodChosen /\ [Next]_vars => PeriodChosen'
  BY PeriodChosenStep DEF SafeInv
<1>2. QED
  BY <1>1, PeriodChosenInit, SafeInvariant, PTL DEF Spec

(* What was committed, acknowledged or not, stays. *)
StoredReached == \A i \in Ids : \A n \in stored[i] : Reached(i, n)

LEMMA StoredStep ==
  ASSUME SafeInv, AllProgress, StoredReached, [Next]_vars
  PROVE  StoredReached'
<1> SUFFICES ASSUME NEW i \in Ids, NEW n \in stored'[i] PROVE Reached(i, n)'
  BY DEF StoredReached, Reached
<1>1. CASE n \in stored[i]
  <2>1. Reached(i, n) /\ n \in Nat
    BY <1>1 DEF StoredReached, SafeInv, TypeOK
  <2>2. QED
    BY <2>1, ReachedStays
<1>2. CASE n \notin stored[i]
  <2>1. PICK h \in Handlers : Commit(h)
    BY <1>2 DEF Next, Step, Begin, SelectOwners, FireInsertTrigger, StatementFails,
       InsertRow, UpdateRow, KeepRow, NextRecord, CountNew, IncrementUsage, Respond,
       RespondError, Abort, CancelDeadlocked, EndRequest, NextMonth, Served, vars,
       pushVars
  <2>2. PICK k \in valid[h] : req[h].batch[k].id = i /\ req[h].batch[k].rev = n
    BY <1>2, <2>1 DEF Commit, Revisions
  <2>3. QED
    BY <2>1, <2>2, CommitReaches DEF Commit, Reached
<1>3. QED
  BY <1>1, <1>2

LEMMA StoredInvariant == Spec => []StoredReached
<1>1. Init => StoredReached
  BY DEF Init, StoredReached
<1>2. QED
  BY <1>1, StoredStep, SafeInvariant, ProgressInvariant, PTL DEF Spec

(* A commit without a version to write. *)
LEMMA IdleCommit ==
  ASSUME SafeInv, PeriodChosen, NEW h \in Handlers, Commit(h),
         \A i \in Ids : pending[h][i] = NULL
  PROVE  UNCHANGED <<rows, usage>>
<1>1. pc[h] = "commit" /\ rows' = Committed(h)
  BY DEF Commit, CommitTransaction, Goto
<1>2. rows' = rows
  BY <1>1 DEF Committed, SafeInv, TypeOK, DbTypeOK
<1>3. NewIds(h) = {}
  BY <1>1 DEF NewIds, SafeInv, PendingReplaces, OpenPhases, Standing
<1>4. period[h] = NULL
  BY <1>1, <1>3 DEF PeriodChosen
<1>5. QED
  BY <1>2, <1>4 DEF Commit

LEMMA ReplayWritesNothing ==
  ASSUME SafeInv, AllProgress, StoredReached, NEW h \in Handlers,
         pc[h] = "commit", Replayed(h), NEW i \in Ids
  PROVE  pending[h][i] = NULL
<1> SUFFICES ASSUME pending[h][i] # NULL PROVE FALSE
  OBVIOUS
<1>1. PICK k \in Passed(h) : req[h].batch[k].id = i
  BY DEF AllProgress, Progress, OpenPhases
<1>2. Decided(h, req[h].batch[k]) /\ k \in valid[h]
  BY DEF AllProgress, Progress, OpenPhases, Passed
<1>3. PICK n \in stored[i] : n >= req[h].batch[k].rev
  BY <1>1, <1>2 DEF Replayed
<1>4. rows[i] # NULL /\ rows[i].rev >= n
  BY DEF StoredReached, Reached
<1>5. n \in Nat /\ req[h].batch[k].rev \in Nat /\ rows[i].rev \in Nat
  BY <1>2, <1>4, ValidFacts DEF SafeInv, TypeOK, DbTypeOK, Row, RawRecord
<1>6. rows[i].rev >= req[h].batch[k].rev
  BY <1>3, <1>4, <1>5
<1>7. QED
  BY <1>1, <1>2, <1>4, <1>6 DEF Decided

(* Pushing records again that were all part of committed pushes changes no *)
(* row and no counter, whether or not a response ever told the client, and *)
(* whoever else has written these rows in between.                         *)
THEOREM ReplaysAreNoOps == Spec => ReplayIsNoOp
<1> DEFINE NoOp == \A h \in Handlers :
             (pc[h] = "commit" /\ pc'[h] = "respond" /\ Replayed(h)) =>
               UNCHANGED <<rows, usage>>
<1>1. SafeInv /\ AllProgress /\ StoredReached /\ PeriodChosen /\ [Next]_vars => [NoOp]_vars
  <2> SUFFICES ASSUME SafeInv, AllProgress, StoredReached, PeriodChosen, Next,
                      NEW h \in Handlers, pc[h] = "commit", pc'[h] = "respond",
                      Replayed(h)
               PROVE  UNCHANGED <<rows, usage>>
    OBVIOUS
  <2>1. Commit(h)
    <3>1. PICK g \in Handlers : HandlerStep(g)
      BY SMTT(30) DEF Next, HandlerStep, NextMonth, Served, vars, pushVars
    <3>2. g = h
      BY <3>1, OthersUntouched DEF Untouched
    <3>3. ~ EndRequest(h)
      BY DEF EndRequest, SafeInv, TypeOK
    <3>4. QED
      BY <3>1, <3>2, <3>3 DEF HandlerStep, Step, Begin, SelectOwners,
         FireInsertTrigger, StatementFails, InsertRow, UpdateRow, KeepRow,
         NextRecord, CountNew, IncrementUsage, Respond, RespondError, Abort,
         CancelDeadlocked, Goto, SafeInv, TypeOK
  <2>2. QED
    BY <2>1, IdleCommit, ReplayWritesNothing
<1>2. QED
  BY <1>1, SafeInvariant, ProgressInvariant, StoredInvariant, PeriodInvariant, PTL
     DEF Spec, ReplayIsNoOp

-----------------------------------------------------------------------------
(* The refinement: the ownership checks accept, a commit merges, an error  *)
(* or a crash in between drops, and all else stutters.                     *)

(* What the store makes of a row. *)
LEMMA VersionFacts ==
  /\ \A row \in Row : /\ Version(row) \in Store!Version
                      /\ Version(row).user = row.user
                      /\ Version(row).device = row.device
                      /\ Version(row).rev = row.rev
  /\ \A row \in Row \cup {NULL} : Version(row) = NULL <=> row = NULL
<1>1. \A row \in Row : row # NULL
  BY NullAssumption
<1>2. \A row \in Row : /\ Version(row) \in Store!Version
                       /\ Version(row).user = row.user
                       /\ Version(row).device = row.device
                       /\ Version(row).rev = row.rev
  BY <1>1 DEF Version, Store!Version, Row
<1>3. QED
  BY <1>1, <1>2, VersionAssumption DEF Version

(* The records of a push, as the store sees them. *)
LEMMA ClaimedFacts ==
  ASSUME NEW u \in Users, NEW b \in Batches, NEW K \in SUBSET Parsed(b)
  PROVE  /\ Claimed(u, b, K) \in Store!Claim
         /\ Claimed(u, b, K) # NULL
         /\ Claimed(u, b, K).user = u
         /\ Claimed(u, b, K).records = {Sent(b[k]) : k \in K}
         /\ \A k \in K : b[k].id \in Ids
<1>1. \A k \in K : b[k] \in RawRecord
  BY ParsedFacts
<1>2. \A k \in K : Sent(b[k]) \in Store!Record
  BY <1>1 DEF Sent, Store!Record, RawRecord
<1>3. Claimed(u, b, K) \in Store!Claim
  BY <1>2 DEF Claimed, Store!Claim
<1>4. QED
  BY <1>1, <1>3, VersionAssumption DEF Claimed, RawRecord

(* Handler g keeps its place among the claims. *)
LEMMA AcceptedStays ==
  ASSUME NEW g \in Handlers, pc[g] \in OpenPhases <=> pc'[g] \in OpenPhases,
         req'[g] = req[g], valid'[g] = valid[g]
  PROVE  Accepted(g)' = Accepted(g)
BY DEF Accepted, OpenPhases

LEMMA OthersAccepted ==
  ASSUME SafeInv, NEW h \in Handlers, HandlerStep(h)
  PROVE  \A g \in Handlers \ {h} : Accepted(g)' = Accepted(g)
BY OthersUntouched, AcceptedStays DEF Untouched

(* A step of h moves its claim only. *)
LEMMA ClaimMoves ==
  ASSUME SafeInv, NEW h \in Handlers, HandlerStep(h), NEW new, Accepted(h)' = new
  PROVE  [g \in Handlers |-> Accepted(g)]'
           = [[g \in Handlers |-> Accepted(g)] EXCEPT ![h] = new]
BY OthersAccepted

LEMMA SelectAccepts ==
  ASSUME SafeInv, NEW h \in Handlers,
         SelectOwners(h), pc'[h] = "stamp"
  PROVE  Store!Accept(h)
<1> DEFINE claims == [g \in Handlers |-> Accepted(g)]
           store == [i \in Ids |-> Version(rows[i])]
<1>1. /\ pc[h] = "select" /\ UNCHANGED <<rows, usage, req>>
      /\ \A k \in valid'[h] : /\ k \in Parsed(req[h].batch)
                              /\ DeviceOwner[req[h].batch[k].device] = req[h].user
                              /\ rows[req[h].batch[k].id] # NULL =>
                                   rows[req[h].batch[k].id].user = req[h].user
  BY DEF SelectOwners, Goto, dbVars, SafeInv, TypeOK
<1>2. /\ req[h].user \in Users /\ req[h].batch \in Batches
      /\ valid'[h] \in SUBSET Parsed(req[h].batch)
  BY <1>1 DEF SafeInv, TypeOK, Request
<1>3. /\ Accepted(h)' \in Store!Claim
      /\ Accepted(h)'.user = req[h].user
      /\ Accepted(h)'.records = {Sent(req[h].batch[k]) : k \in valid'[h]}
      /\ \A k \in valid'[h] : req[h].batch[k].id \in Ids
  <2>1. Accepted(h)' = Claimed(req[h].user, req[h].batch, valid'[h])
    BY <1>1 DEF Accepted, OpenPhases
  <2>2. QED
    BY <1>2, <2>1, ClaimedFacts
<1>4. ASSUME NEW r \in Accepted(h)'.records
      PROVE  Store!MayWrite(req[h].user, r)
  <2>1. PICK k \in valid'[h] : r = Sent(req[h].batch[k])
    BY <1>3
  <2>2. r.device = req[h].batch[k].device /\ r.id = req[h].batch[k].id /\ r.id \in Ids
    BY <1>3, <2>1 DEF Sent
  <2>3. rows[r.id] # NULL => Version(rows[r.id]).user = rows[r.id].user
    BY <2>2, VersionFacts DEF SafeInv, TypeOK, DbTypeOK
  <2>4. store[r.id] = Version(rows[r.id]) /\ (store[r.id] # NULL => rows[r.id] # NULL)
    BY <2>2 DEF Version
  <2>5. QED
    BY <1>1, <2>1, <2>2, <2>3, <2>4 DEF Store!MayWrite
<1>5. ASSUME NEW r \in Accepted(h)'.records, NEW s \in Accepted(h)'.records, r.id = s.id
      PROVE  r = s
  <2>1. PICK k \in valid'[h] : r = Sent(req[h].batch[k])
    BY <1>3
  <2>2. PICK j \in valid'[h] : s = Sent(req[h].batch[j])
    BY <1>3
  <2>3. req[h].batch[k].id = req[h].batch[j].id
    BY <1>5, <2>1, <2>2 DEF Sent
  <2>4. k = j
    BY <1>1, <1>2, <2>3, ParsedDistinct
  <2>5. QED
    BY <2>1, <2>2, <2>4
<1>6. claims[h] = NULL
  BY <1>1 DEF Accepted, OpenPhases
<1>7. claims'[h] = Accepted(h)'
  BY DEF Accepted
<1>8. claims' = [claims EXCEPT ![h] = claims'[h]]
  BY <1>7, ClaimMoves DEF HandlerStep, Step
<1>9. UNCHANGED <<store, usage>>
  BY <1>1
<1>10. QED
  BY <1>3, <1>4, <1>5, <1>6, <1>7, <1>8, <1>9 DEF Store!Accept

(* What a commit makes of one record. *)
LEMMA CommitMerges ==
  ASSUME SafeInv, AllProgress, NEW h \in Handlers, Commit(h), NEW k \in valid[h],
         NEW r, r = Sent(req[h].batch[k])
  PROVE  /\ r.id \in Ids
         /\ Version(rows[r.id])' = IF Store!Wins(r) THEN Store!Written(req[h].user, r)
                                                    ELSE Version(rows[r.id])
<1> DEFINE raw == req[h].batch[k]
           old == rows[r.id]
           new == pending[h][r.id]
<1>1. pc[h] = "commit" /\ rows' = Committed(h)
  BY DEF Commit, CommitTransaction, Goto
<1>2. k \in Passed(h)
  <2>1. k <= cur[h]
    BY <1>1 DEF AllProgress, Progress
  <2>2. k \in Nat /\ cur[h] \in Nat
    BY DEF SafeInv, TypeOK
  <2>3. QED
    BY <1>1, <2>1, <2>2 DEF Passed
<1>3. Decided(h, raw)
  BY <1>1, <1>2 DEF AllProgress, Progress, OpenPhases
<1>4. /\ r.id \in Ids /\ r.rev \in Nat /\ r.inputs \in Inputs /\ r.deleted \in BOOLEAN
      /\ r.id = raw.id /\ r.device = raw.device /\ r.rev = raw.rev
      /\ r.inputs = raw.inputs /\ r.deleted = raw.deleted
  BY ValidFacts DEF SafeInv, RawRecord, Sent
<1>5. /\ old \in Row \cup {NULL} /\ new \in Row \cup {NULL}
      /\ rows'[r.id] = IF new = NULL THEN old ELSE new
      /\ Standing(h, r.id)
  BY <1>1, <1>4, PushAssumption
     DEF Committed, SafeInv, TypeOK, DbTypeOK, PendingReplaces, OpenPhases
<1>6. Store!Wins(r) <=> old = NULL \/ old.rev < r.rev
  BY <1>4, <1>5, VersionFacts DEF Store!Wins
<1>7. CASE old # NULL /\ old.rev >= r.rev
  <2>1. old.rev \in Nat
    BY <1>5, <1>7 DEF Row
  <2>2. ~ Store!Wins(r)
    BY <1>4, <1>6, <1>7, <2>1
  <2>3. new = NULL
    BY <1>3, <1>4, <1>7 DEF Decided
  <2>4. rows'[r.id] = old
    BY <1>5, <2>3
  <2>5. Version(rows[r.id])' = Version(old)
    BY <2>4 DEF Version
  <2>6. QED
    BY <1>4, <2>2, <2>5
<1>8. CASE old = NULL \/ ~ (old.rev >= r.rev)
  <2>1. /\ new # NULL /\ new.rev = r.rev /\ new.inputs = r.inputs
        /\ new.deleted = r.deleted /\ (old = NULL => new.device = r.device)
    BY <1>3, <1>4, <1>8 DEF Decided
  <2>2. rows'[r.id] = new /\ new \in Row
    BY <1>5, <2>1
  <2>3. Version(rows[r.id])' = [user |-> new.user, device |-> new.device,
                                rev |-> r.rev, inputs |-> r.inputs,
                                deleted |-> r.deleted]
    BY <2>1, <2>2 DEF Version
  <2>4. Store!Wins(r)
    <3>1. old # NULL => old.rev \in Nat
      BY <1>5 DEF Row
    <3>2. QED
      BY <1>4, <1>6, <1>8, <3>1
  <2>5. CASE old = NULL
    <3>1. new.user = req[h].user /\ new.device = r.device
      BY <1>5, <2>1, <2>5 DEF Standing
    <3>2. Version(rows[r.id]) = NULL
      BY <2>5 DEF Version
    <3>3. Store!Written(req[h].user, r) =
            [user |-> req[h].user, device |-> r.device, rev |-> r.rev,
             inputs |-> r.inputs, deleted |-> r.deleted]
      BY <1>4, <3>2 DEF Store!Written
    <3>4. QED
      BY <1>4, <2>3, <2>4, <3>1, <3>3
  <2>6. CASE old # NULL
    <3>1. new.user = old.user /\ new.device = old.device /\ old \in Row
      BY <1>5, <2>1, <2>6 DEF Standing, Replaces
    <3>2. /\ Version(old) \in Store!Version
          /\ Version(old).user = old.user /\ Version(old).device = old.device
          /\ Version(old) # NULL
      BY <3>1, <2>6, VersionFacts
    <3>3. Store!Written(req[h].user, r) =
            [user |-> old.user, device |-> old.device, rev |-> r.rev,
             inputs |-> r.inputs, deleted |-> r.deleted]
      BY <1>4, <3>2 DEF Store!Written
    <3>4. QED
      BY <1>4, <2>3, <2>4, <3>1, <3>3
  <2>7. QED
    BY <2>5, <2>6
<1>9. QED
  BY <1>7, <1>8

(* The store counts as SyncPush does. *)
LEMMA SameCardinality == \A S : Store!Cardinality(S) = Cardinality(S)
BY DEF Store!Cardinality, Cardinality

(* The usage period a commit counts in. *)
LEMMA CommitMeters ==
  ASSUME SafeInv, PeriodChosen, NEW h \in Handlers, Commit(h)
  PROVE  \E p \in Periods :
           usage' = [usage EXCEPT ![req[h].user][p] = @ + Cardinality(Store!Created)]
<1> DEFINE store == [i \in Ids |-> Version(rows[i])]
           u == req[h].user
           p == IF period[h] = NULL THEN 1 ELSE period[h]
<1>1. /\ pc[h] = "commit" /\ rows' = Committed(h) /\ req[h] \in Request
      /\ rows \in [Ids -> Row \cup {NULL}] /\ rows' \in [Ids -> Row \cup {NULL}]
  BY DbTransactionTypes, PushAssumption
     DEF Commit, CommitTransaction, Goto, SafeInv, TypeOK, DbTypeOK
<1>2. u \in Users /\ p \in Periods
  BY <1>1, PushAssumption DEF Request, SafeInv, TypeOK
<1>3. Store!Created = NewIds(h)
  <2>1. \A i \in Ids : (store[i] = NULL /\ store'[i] # NULL) <=>
                       (rows[i] = NULL /\ rows'[i] # NULL)
    BY <1>1, VersionFacts DEF Version
  <2>2. \A i \in Ids : (rows[i] = NULL /\ rows'[i] # NULL) <=> i \in NewIds(h)
    BY <1>1 DEF Committed, NewIds, SafeInv, PendingReplaces, OpenPhases, Standing
  <2>3. QED
    BY <2>1, <2>2 DEF Store!Created, NewIds
<1>4. CASE period[h] = NULL
  <2>1. NewIds(h) = {}
    BY <1>1, <1>4, NullAssumption, PushAssumption DEF PeriodChosen
  <2>2. usage' = usage /\ usage \in [Users -> [Periods -> Nat]]
    BY <1>4 DEF Commit, SafeInv, TypeOK
  <2>3. Cardinality(Store!Created) = 0
    BY <1>3, <2>1, FS_EmptySet
  <2>4. usage[u][p] \in Nat /\ usage[u][p] + 0 = usage[u][p]
    BY <1>2, <2>2
  <2>5. usage = [usage EXCEPT ![u][p] = usage[u][p] + 0]
    BY <1>2, <2>2, <2>4
  <2>6. QED
    BY <1>2, <2>2, <2>3, <2>5
<1>5. CASE period[h] # NULL
  BY <1>2, <1>3, <1>5 DEF Commit
<1>6. QED
  BY <1>4, <1>5

LEMMA CommitMergesAll ==
  ASSUME SafeInv, AllProgress, PeriodChosen, NEW h \in Handlers, Commit(h)
  PROVE  Store!Next
<1> DEFINE store == [i \in Ids |-> Version(rows[i])]
           claims == [g \in Handlers |-> Accepted(g)]
<1>1. pc[h] = "commit" /\ pc'[h] = "respond" /\ rows' = Committed(h)
  BY DEF Commit, CommitTransaction, Goto, SafeInv, TypeOK
<1>2. /\ claims[h] = Accepted(h) /\ Accepted(h) # NULL
      /\ Accepted(h).user = req[h].user
      /\ Accepted(h).records = {Sent(req[h].batch[k]) : k \in valid[h]}
  <2>1. Accepted(h) = Claimed(req[h].user, req[h].batch, valid[h])
    BY <1>1 DEF Accepted, OpenPhases
  <2>2. /\ req[h].user \in Users /\ req[h].batch \in Batches
        /\ valid[h] \in SUBSET Parsed(req[h].batch)
    BY <1>1 DEF SafeInv, TypeOK, Request
  <2>3. QED
    BY <2>1, <2>2, ClaimedFacts
<1>3. Accepted(h)' = NULL
  BY <1>1 DEF Accepted, OpenPhases
<1>4. claims' = [claims EXCEPT ![h] = NULL]
  BY <1>3, ClaimMoves DEF HandlerStep, Step
<1>5. ASSUME NEW r \in claims[h].records
      PROVE  store'[r.id] = IF Store!Wins(r) THEN Store!Written(req[h].user, r)
                                             ELSE store[r.id]
  <2>1. PICK k \in valid[h] : r = Sent(req[h].batch[k])
    BY <1>2, <1>5
  <2>2. /\ r.id \in Ids
        /\ Version(rows[r.id])' = IF Store!Wins(r) THEN Store!Written(req[h].user, r)
                                                   ELSE Version(rows[r.id])
    BY <2>1, CommitMerges
  <2>3. store[r.id] = Version(rows[r.id]) /\ store'[r.id] = Version(rows[r.id])'
    BY <2>2
  <2>4. QED
    BY <2>2, <2>3
<1>6. ASSUME NEW i \in Ids, store'[i] # store[i]
      PROVE  \E r \in claims[h].records : r.id = i
  <2>1. rows'[i] # rows[i]
    BY <1>6 DEF Version
  <2>2. pending[h][i] # NULL
    BY <1>1, <2>1 DEF Committed
  <2>3. PICK k \in valid[h] : req[h].batch[k].id = i
    BY <1>1, <2>2 DEF AllProgress, Progress, Passed, OpenPhases
  <2>4. Sent(req[h].batch[k]).id = i /\ Sent(req[h].batch[k]) \in claims[h].records
    BY <1>2, <2>3 DEF Sent
  <2>5. QED
    BY <2>4
<1>7. DOMAIN store' = Ids
  OBVIOUS
<1>8. PICK p \in Periods :
        usage' = [usage EXCEPT ![req[h].user][p] = @ + Cardinality(Store!Created)]
  BY CommitMeters
<1>9. usage' = [usage EXCEPT ![claims[h].user][p] = @ + Store!Cardinality(Store!Created)]
  BY <1>2, <1>8, SameCardinality
<1>10. Store!Merge(h, p)
  BY <1>2, <1>4, <1>5, <1>6, <1>7, <1>9 DEF Store!Merge
<1>11. QED
  BY <1>10 DEF Store!Next

(* A step that leaves the rows and the counters alone. *)
LEMMA QuietStep ==
  ASSUME SafeInv, NEW h \in Handlers, HandlerStep(h), UNCHANGED <<rows, usage>>,
         Accepted(h)' \in {Accepted(h), NULL}
  PROVE  \/ Store!Next
         \/ UNCHANGED <<[i \in Ids |-> Version(rows[i])], usage,
                        [g \in Handlers |-> Accepted(g)]>>
<1> DEFINE claims == [g \in Handlers |-> Accepted(g)]
<1>1. UNCHANGED [i \in Ids |-> Version(rows[i])]
  OBVIOUS
<1>2. CASE Accepted(h)' = Accepted(h)
  <2>1. \A g \in Handlers : Accepted(g)' = Accepted(g)
    BY <1>2, OthersAccepted
  <2>2. QED
    BY <1>1, <2>1
<1>3. CASE Accepted(h)' = NULL /\ Accepted(h) # NULL
  <2>1. claims' = [claims EXCEPT ![h] = NULL] /\ claims[h] # NULL
    BY <1>3, ClaimMoves
  <2>2. Store!Drop(h)
    BY <1>1, <2>1 DEF Store!Drop
  <2>3. QED
    BY <2>2 DEF Store!Next
<1>4. QED
  BY <1>2, <1>3

LEMMA PushesImplementStore ==
  ASSUME SafeInv, AllProgress, PeriodChosen, [Next]_vars
  PROVE  \/ Store!Next
         \/ UNCHANGED <<[i \in Ids |-> Version(rows[i])], usage,
                        [g \in Handlers |-> Accepted(g)]>>
<1> DEFINE Implements == \/ Store!Next
                         \/ UNCHANGED <<[i \in Ids |-> Version(rows[i])], usage,
                                        [g \in Handlers |-> Accepted(g)]>>
<1>1. ASSUME NEW h \in Handlers, Commit(h) PROVE Store!Next
  BY <1>1, CommitMergesAll
<1>2. ASSUME NEW h \in Handlers, SelectOwners(h) PROVE Implements
  <2>1. CASE pc'[h] = "stamp"
    BY <1>2, <2>1, SelectAccepts DEF Store!Next
  <2>2. CASE pc'[h] # "stamp"
    <3>1. pc[h] = "select" /\ pc'[h] = "respond" /\ UNCHANGED <<rows, usage>>
      BY <1>2, <2>2 DEF SelectOwners, Goto, dbVars, SafeInv, TypeOK
    <3>2. Accepted(h)' = Accepted(h)
      BY <3>1 DEF Accepted, OpenPhases
    <3>3. QED
      BY <1>2, <3>1, <3>2, QuietStep DEF HandlerStep, Step
  <2>3. QED
    BY <2>1, <2>2
<1>3. ASSUME NEW h \in Handlers, HandlerStep(h), ~ Commit(h), ~ SelectOwners(h)
      PROVE  Implements
  <2>1. UNCHANGED <<rows, usage>>
    BY <1>3 DEF HandlerStep, Step, Begin, FireInsertTrigger, StatementFails,
       InsertRow, UpdateRow, KeepRow, NextRecord, CountNew, IncrementUsage, Respond,
       RespondError, Abort, CancelDeadlocked, EndRequest, Rollback, dbVars
  <2>2. Accepted(h)' \in {Accepted(h), NULL}
    <3>1. CASE pc'[h] \notin OpenPhases
      BY <3>1 DEF Accepted, OpenPhases
    <3>2. CASE pc'[h] \in OpenPhases
      <4>1. ~ EndRequest(h) /\ ~ Goto(h, "stamp", "data_error")
        BY <3>2 DEF EndRequest, Goto, SafeInv, TypeOK, OpenPhases
      <4>2. \/ FireInsertTrigger(h) \/ InsertRow(h) \/ UpdateRow(h) \/ KeepRow(h)
            \/ CountNew(h) \/ IncrementUsage(h)
        <5>1. ~ Begin(h)
          BY <3>2 DEF Begin, Goto, SafeInv, TypeOK, OpenPhases
        <5>2. QED
          BY <1>3, <4>1, <5>1 DEF HandlerStep, Step, StatementFails, Respond,
             RespondError, Abort, CancelDeadlocked
      <4>3. pc[h] \in OpenPhases /\ UNCHANGED <<req, valid>>
        BY <4>2 DEF FireInsertTrigger, InsertRow, UpdateRow, KeepRow, NextRecord,
           CountNew, IncrementUsage, Goto, OpenPhases
      <4>4. QED
        BY <3>2, <4>3, AcceptedStays
    <3>3. QED
      BY <3>1, <3>2
  <2>3. QED
    BY <1>3, <2>1, <2>2, QuietStep
<1>4. CASE NextMonth \/ UNCHANGED vars
  <2>1. UNCHANGED <<rows, usage, pc, req, valid>>
    BY <1>4 DEF NextMonth, vars, dbVars, pushVars
  <2>2. \A g \in Handlers : Accepted(g)' = Accepted(g)
    BY <2>1 DEF Accepted
  <2>3. QED
    BY <2>1, <2>2
<1>5. QED
  BY <1>1, <1>2, <1>3, <1>4 DEF Next, HandlerStep, Served

LEMMA StoreInit == Init => Store!Init
BY DEF Init, DbInit, Store!Init, Version, Accepted, OpenPhases

(* Concurrent pushes, with their locks, triggers, crashes and replays, are *)
(* a last-writer-wins store: each push has its records accepted by the     *)
(* owners of one moment, and merges exactly these in one later step, which *)
(* meters the rows it creates.                                             *)
THEOREM ImplementsStore == Spec => ImplementsLwwStore
<1>1. SafeInv /\ AllProgress /\ PeriodChosen /\ [Next]_vars
        => [Store!Next]_<<[i \in Ids |-> Version(rows[i])], usage,
                          [h \in Handlers |-> Accepted(h)]>>
  BY PushesImplementStore
<1>2. QED
  BY <1>1, StoreInit, SafeInvariant, ProgressInvariant, PeriodInvariant, PTL
     DEF Spec, ImplementsLwwStore, Store!Spec

-----------------------------------------------------------------------------
(* The numbers of versions. *)

(* No version shares its number with one of another row, nor with a number *)
(* that a trigger has drawn and the upsert has not used yet.               *)
SeqsApart ==
  /\ SeqsUnique
  /\ \A h \in Handlers : pc[h] = "conflict" =>
       \A i \in Ids : \A v \in Versions(i) \ {NULL} : v.seq # stamp[h]
  /\ \A g, h \in Handlers :
       g # h /\ pc[g] = "conflict" /\ pc[h] = "conflict" => stamp[g] # stamp[h]

LEMMA VersionsBelow ==
  ASSUME SafeInv, NEW i \in Ids, NEW v \in Versions(i) \ {NULL}
  PROVE  v.seq \in Nat /\ v.seq <= seq
<1>1. CASE v = rows[i]
  BY <1>1 DEF SafeInv, SeqBounds, TypeOK, DbTypeOK, Row
<1>2. ASSUME NEW s \in Sessions, v = pending[s][i] PROVE v.seq \in Nat /\ v.seq <= seq
  BY <1>2 DEF SafeInv, SeqBounds, TypeOK, DbTypeOK, Row
<1>3. QED
  BY <1>1, <1>2 DEF Versions

(* The versions of a row when nothing is written to it. *)
LEMMA VersionsRemain ==
  ASSUME NEW i \in Ids, rows'[i] \in Versions(i) \cup {NULL},
         \A s \in Sessions : lock'[i] = s =>
           \/ lock[i] = s /\ pending'[s][i] = pending[s][i]
           \/ pending'[s][i] = NULL
  PROVE  Versions(i)' \subseteq Versions(i) \cup {NULL}
BY DEF Versions

(* A step that writes no version; nobody draws a number. *)
LEMMA ApartShrinks ==
  ASSUME SeqsApart,
         \A i \in Ids : Versions(i)' \subseteq Versions(i) \cup {NULL},
         \A h \in Handlers : pc'[h] = "conflict" =>
           pc[h] = "conflict" /\ stamp'[h] = stamp[h]
  PROVE  SeqsApart'
<1>1. SeqsUnique'
  BY DEF SeqsApart, SeqsUnique
<1>2. QED
  BY <1>1 DEF SeqsApart

(* A step that writes one version, under a number nobody else has. *)
LEMMA ApartGrows ==
  ASSUME SeqsApart, NEW i0 \in Ids, NEW n,
         \A i \in Ids \ {i0} : Versions(i)' \subseteq Versions(i) \cup {NULL},
         \A v \in Versions(i0)' \ {NULL} : v \in Versions(i0) \/ v.seq = n,
         \A i \in Ids \ {i0} : \A v \in Versions(i) \ {NULL} : v.seq # n,
         \A h \in Handlers : pc'[h] = "conflict" =>
           pc[h] = "conflict" /\ stamp'[h] = stamp[h] /\ stamp[h] # n
  PROVE  SeqsApart'
<1>1. ASSUME NEW i \in Ids, NEW j \in Ids, i # j,
             NEW v \in Versions(i)' \ {NULL}, NEW w \in Versions(j)' \ {NULL}
      PROVE  v.seq # w.seq
  <2>1. CASE i # i0 /\ j # i0
    BY <1>1, <2>1 DEF SeqsApart, SeqsUnique
  <2>2. CASE i = i0
    BY <1>1, <2>2 DEF SeqsApart, SeqsUnique
  <2>3. CASE j = i0
    BY <1>1, <2>3 DEF SeqsApart, SeqsUnique
  <2>4. QED
    BY <2>1, <2>2, <2>3
<1>2. SeqsUnique'
  BY <1>1 DEF SeqsUnique
<1>3. ASSUME NEW h \in Handlers, pc'[h] = "conflict", NEW i \in Ids,
             NEW v \in Versions(i)' \ {NULL}
      PROVE  v.seq # stamp'[h]
  <2>1. CASE i = i0
    BY <1>3, <2>1 DEF SeqsApart
  <2>2. CASE i # i0
    BY <1>3, <2>2 DEF SeqsApart
  <2>3. QED
    BY <2>1, <2>2
<1>4. QED
  BY <1>2, <1>3 DEF SeqsApart

LEMMA TransactionApart ==
  ASSUME SafeInv, SeqsApart, NEW h \in Handlers, EndTransaction(h),
         \A i \in Ids : rows'[i] = rows[i] \/ (lock[i] = h /\ rows'[i] = pending[h][i]),
         \A g \in Handlers : pc'[g] = "conflict" =>
           pc[g] = "conflict" /\ stamp'[g] = stamp[g]
  PROVE  SeqsApart'
<1>1. ASSUME NEW i \in Ids PROVE Versions(i)' \subseteq Versions(i) \cup {NULL}
  <2>1. rows'[i] \in Versions(i)
    BY PushAssumption DEF Versions
  <2>2. ASSUME NEW s \in Sessions, lock'[i] = s
        PROVE  lock[i] = s /\ pending'[s][i] = pending[s][i]
    BY <2>2, SessionAssumption DEF EndTransaction, SafeInv, TypeOK, DbTypeOK
  <2>3. QED
    BY <2>1, <2>2, VersionsRemain
<1>2. QED
  BY <1>1, ApartShrinks

LEMMA UpsertApart ==
  ASSUME SafeInv, SeqsApart, NEW h \in Handlers, NextRecord(h),
         NEW i0 \in Ids, i0 = Record(h).id, NEW new, WriteRow(h, i0, new),
         new.seq = stamp[h] \/ new.seq = seq + 1
  PROVE  SeqsApart'
<1> USE DEF SafeInv
<1>1. /\ pc[h] = "conflict" /\ UNCHANGED <<rows, stamp>>
      /\ pc' = [pc EXCEPT ![h] = IF \E j \in valid[h] : j > cur[h]
                                 THEN "stamp" ELSE "count"]
      /\ lock' = [lock EXCEPT ![i0] = h]
  BY DEF NextRecord, LockRow, Goto
<1>2. \A g \in Handlers : pc'[g] = "conflict" => g # h /\ pc[g] = "conflict"
  BY <1>1 DEF TypeOK
<1>3. ASSUME NEW i \in Ids \ {i0}
      PROVE  Versions(i)' \subseteq Versions(i) \cup {NULL}
  <2>1. /\ lock'[i] = lock[i]
        /\ \A s \in Sessions : pending'[s][i] = pending[s][i]
    BY <1>1, PushAssumption DEF WriteRow, TypeOK, DbTypeOK
  <2>2. QED
    BY <1>1, <2>1 DEF Versions
<1>4. Versions(i0)' \subseteq Versions(i0) \cup {new}
  <2>1. lock'[i0] = h /\ pending'[h][i0] = new
    BY <1>1, PushAssumption DEF WriteRow, TypeOK, DbTypeOK
  <2>2. QED
    BY <1>1, <2>1 DEF Versions
<1>5. \A i \in Ids : \A v \in Versions(i) \ {NULL} : v.seq # new.seq
  BY <1>1, VersionsBelow DEF SeqsApart, TypeOK, DbTypeOK
<1>6. \A g \in Handlers \ {h} : pc[g] = "conflict" => stamp[g] # new.seq
  <2>1. \A g \in Handlers : stamp[g] \in Nat /\ stamp[g] <= seq /\ seq \in Nat
    BY DEF SeqBounds, TypeOK, DbTypeOK
  <2>2. QED
    BY <1>1, <2>1 DEF SeqsApart
<1>7. QED
  BY <1>1, <1>2, <1>3, <1>4, <1>5, <1>6, ApartGrows

LEMMA ApartStep == SafeInv /\ SeqsApart /\ [Next]_vars => SeqsApart'
<1> SUFFICES ASSUME SafeInv, SeqsApart, [Next]_vars PROVE SeqsApart'
  OBVIOUS
<1>0. TypeOK /\ SeqBounds /\ PendingReplaces
  BY DEF SafeInv
<1>a. ASSUME UNCHANGED <<rows, lock, pending>>,
             \A g \in Handlers : pc'[g] = "conflict" =>
               pc[g] = "conflict" /\ stamp'[g] = stamp[g]
      PROVE  SeqsApart'
  <2>1. \A i \in Ids : Versions(i)' = Versions(i)
    BY <1>a DEF Versions
  <2>2. QED
    BY <1>a, <2>1, ApartShrinks
<1>e. ASSUME NEW h \in Handlers, EndRequest(h)
      PROVE  \A g \in Handlers : pc'[g] = "conflict" =>
               pc[g] = "conflict" /\ stamp'[g] = stamp[g]
  BY <1>0, <1>e DEF EndRequest, TypeOK
<1>1. ASSUME NEW h \in Handlers,
             \/ Begin(h) \/ SelectOwners(h) \/ CountNew(h) \/ IncrementUsage(h)
      PROVE  SeqsApart'
  <2>1. \A g \in Handlers : pc'[g] = "conflict" =>
          pc[g] = "conflict" /\ stamp'[g] = stamp[g]
    BY <1>0, <1>1 DEF Begin, SelectOwners, CountNew, IncrementUsage, Goto, TypeOK
  <2>2. QED
    BY <1>1, <1>a, <2>1 DEF Begin, SelectOwners, CountNew, IncrementUsage, dbVars
<1>2. ASSUME NEW h \in Handlers, FireInsertTrigger(h) PROVE SeqsApart'
  <2>1. /\ pc' = [pc EXCEPT ![h] = "conflict"]
        /\ stamp' = [stamp EXCEPT ![h] = seq + 1]
        /\ UNCHANGED <<rows, lock, pending>>
    BY <1>2 DEF FireInsertTrigger, SetServerSeq, Goto
  <2>2. \A g \in Handlers \ {h} : pc'[g] = pc[g] /\ stamp'[g] = stamp[g]
    BY <1>0, <2>1 DEF TypeOK
  <2>3. stamp'[h] = seq + 1 /\ seq \in Nat
        /\ \A g \in Handlers : stamp[g] \in Nat /\ stamp[g] <= seq
    BY <1>0, <2>1 DEF SeqBounds, TypeOK, DbTypeOK
  <2>4. \A i \in Ids : Versions(i)' = Versions(i)
    BY <2>1 DEF Versions
  <2>5. SeqsUnique'
    BY <2>4 DEF SeqsApart, SeqsUnique
  <2>6. \A i \in Ids : \A v \in Versions(i) \ {NULL} : v.seq # seq + 1
    BY <2>3, VersionsBelow
  <2>7. \A g \in Handlers : pc'[g] = "conflict" =>
          \A i \in Ids : \A v \in Versions(i)' \ {NULL} : v.seq # stamp'[g]
    BY <2>2, <2>3, <2>4, <2>6 DEF SeqsApart
  <2>8. \A g1, g2 \in Handlers :
          g1 # g2 /\ pc'[g1] = "conflict" /\ pc'[g2] = "conflict" =>
            stamp'[g1] # stamp'[g2]
    BY <2>2, <2>3 DEF SeqsApart
  <2>9. QED
    BY <2>5, <2>7, <2>8 DEF SeqsApart
<1>3. ASSUME NEW h \in Handlers, StatementFails(h) PROVE SeqsApart'
  <2>1. /\ EndTransaction(h) /\ UNCHANGED <<rows, stamp>>
        /\ pc' = [pc EXCEPT ![h] = "data_error"]
    BY <1>3 DEF StatementFails, Rollback, Goto
  <2>2. \A g \in Handlers : pc'[g] = "conflict" => pc[g] = "conflict"
    BY <1>0, <2>1 DEF TypeOK
  <2>3. QED
    BY <2>1, <2>2, TransactionApart
<1>4. ASSUME NEW h \in Handlers, InsertRow(h) PROVE SeqsApart'
  <2>1. pc[h] = "conflict" /\ NextRecord(h)
    BY <1>4 DEF InsertRow, NextRecord, Goto
  <2>2. PICK i0 \in Ids : i0 = Record(h).id
    BY <1>0, <2>1, RecordType DEF RawRecord
  <2>3. \E new : WriteRow(h, i0, new) /\ new.seq = stamp[h]
    BY <1>4, <2>2 DEF InsertRow
  <2>4. QED
    BY <2>1, <2>2, <2>3, UpsertApart
<1>5. ASSUME NEW h \in Handlers, UpdateRow(h) PROVE SeqsApart'
  <2>1. pc[h] = "conflict" /\ NextRecord(h)
    BY <1>5 DEF UpdateRow, NextRecord, Goto
  <2>2. PICK i0 \in Ids : i0 = Record(h).id
    BY <1>0, <2>1, RecordType DEF RawRecord
  <2>3. rows[i0] \in Row /\ seq' = seq + 1
    BY <1>0, <1>5, <2>2 DEF UpdateRow, SetServerSeq, TypeOK, DbTypeOK
  <2>4. \E new : WriteRow(h, i0, new) /\ new.seq = seq + 1
    <3> DEFINE r == Record(h)
               new == [rows[i0] EXCEPT !.rev = r.rev, !.inputs = r.inputs,
                         !.deleted = r.deleted, !.seq = seq',
                         !.base = NewBase(r, rows[i0])]
    <3>1. WriteRow(h, i0, new)
      BY <1>5, <2>2 DEF UpdateRow
    <3>2. new.seq = seq + 1
      BY <2>3 DEF Row
    <3>3. QED
      BY <3>1, <3>2
  <2>5. QED
    BY <2>1, <2>2, <2>4, UpsertApart
<1>6. ASSUME NEW h \in Handlers, KeepRow(h) PROVE SeqsApart'
  <2>1. pc[h] = "conflict" /\ NextRecord(h) /\ pending' = pending
    BY <1>6 DEF KeepRow, NextRecord, Goto
  <2>2. PICK i0 \in Ids : i0 = Record(h).id
    BY <1>0, <2>1, RecordType DEF RawRecord
  <2>3. /\ lock[i0] = NULL /\ lock' = [lock EXCEPT ![i0] = h]
        /\ UNCHANGED <<rows, stamp>>
        /\ \A g \in Handlers : pc'[g] = "conflict" => pc[g] = "conflict"
    BY <1>0, <2>1, <2>2 DEF NextRecord, LockRow, Goto, TypeOK
  <2>4. pending[h][i0] = NULL
    BY <1>0, <2>1, <2>2, <2>3, FreeRow
  <2>5. \A i \in Ids : Versions(i)' \subseteq Versions(i) \cup {NULL}
    <3>1. \A i \in Ids \ {i0} : lock'[i] = lock[i]
      BY <1>0, <2>3 DEF TypeOK, DbTypeOK
    <3>2. lock'[i0] = h
      BY <1>0, <2>3 DEF TypeOK, DbTypeOK
    <3>3. QED
      BY <2>1, <2>3, <2>4, <3>1, <3>2 DEF Versions
  <2>6. QED
    BY <2>3, <2>5, ApartShrinks
<1>7. ASSUME NEW h \in Handlers, Commit(h) PROVE SeqsApart'
  <2>1. /\ pc[h] = "commit" /\ EndTransaction(h) /\ rows' = Committed(h)
        /\ stamp' = stamp /\ pc' = [pc EXCEPT ![h] = "respond"]
    BY <1>7 DEF Commit, CommitTransaction, Goto
  <2>2. \A i \in Ids : rows'[i] = rows[i] \/ (lock[i] = h /\ rows'[i] = pending[h][i])
    <3>1. \A i \in Ids : Standing(h, i)
      BY <1>0, <2>1 DEF PendingReplaces, OpenPhases
    <3>2. QED
      BY <2>1, <3>1 DEF Committed, Standing
  <2>3. \A g \in Handlers : pc'[g] = "conflict" => pc[g] = "conflict"
    BY <1>0, <2>1 DEF TypeOK
  <2>4. QED
    BY <2>1, <2>2, <2>3, TransactionApart
<1>8. ASSUME NEW h \in Handlers, Respond(h) \/ RespondError(h) PROVE SeqsApart'
  BY <1>8, <1>a, <1>e DEF Respond, RespondError, dbVars
<1>9. ASSUME NEW h \in Handlers, Abort(h) \/ CancelDeadlocked(h, PushWaitsFor)
      PROVE  SeqsApart'
  <2>1. EndTransaction(h) /\ UNCHANGED rows /\ EndRequest(h)
    BY <1>9 DEF Abort, CancelDeadlocked, Rollback
  <2>2. \A g \in Handlers : pc'[g] = "conflict" =>
          pc[g] = "conflict" /\ stamp'[g] = stamp[g]
    BY <1>e, <2>1
  <2>3. QED
    BY <2>1, <2>2, TransactionApart
<1>10. CASE NextMonth \/ UNCHANGED vars
  BY <1>10, <1>a DEF NextMonth, vars, dbVars, pushVars
<1>11. QED
  BY <1>1, <1>2, <1>3, <1>4, <1>5, <1>6, <1>7, <1>8, <1>9, <1>10
     DEF Next, Step, Served

LEMMA ApartInit == Init => SeqsApart
<1> SUFFICES ASSUME Init PROVE SeqsApart
  OBVIOUS
<1>1. \A i \in Ids : Versions(i) \subseteq {NULL}
  BY DEF Init, DbInit, NoWrites, Versions
<1>2. QED
  BY <1>1 DEF Init, SeqsApart, SeqsUnique

(* Whatever is committed or about to be: no two rows share a server_seq,   *)
(* so that a pull can stop between any two of them.                        *)
THEOREM NumbersAreUnique == Spec => []SeqsUnique
<1>1. SeqsApart => SeqsUnique
  BY DEF SeqsApart
<1>2. QED
  BY <1>1, ApartInit, ApartStep, SafeInvariant, PTL DEF Spec

-----------------------------------------------------------------------------
(* The numbers that are reported. *)

(* A set of numbers with a bound has a largest one. *)
LEMMA Largest ==
  ASSUME NEW b \in Nat, NEW S \in SUBSET (0 .. b), S # {}
  PROVE  \E n \in S : \A m \in S : m <= n
<1> DEFINE T == {b - n : n \in S}
<1>1. T \subseteq Nat /\ T # {}
  <2>1. PICK n \in S : TRUE
    OBVIOUS
  <2>2. b - n \in T
    OBVIOUS
  <2>3. \A m \in S : b - m \in Nat
    OBVIOUS
  <2>4. QED
    BY <2>2, <2>3
<1>2. PICK x \in T : \A y \in T : ~ (<<y, x>> \in OpToRel(<, Nat))
  BY <1>1, WFMin, NatLessThanWellFounded
<1>3. \A y \in T : ~ (y < x)
  BY <1>1, <1>2 DEF OpToRel
<1>4. PICK n \in S : x = b - n
  BY <1>2
<1>5. ASSUME NEW m \in S PROVE m <= n
  <2>1. ~ (b - m < b - n)
    BY <1>3, <1>4
  <2>2. QED
    BY <2>1
<1>6. QED
  BY <1>4, <1>5

LEMMA HighWaterReached ==
  ASSUME SafeInv, NEW i \in Ids, rows[i] # NULL
  PROVE  /\ HighWater(rows[i].user) \in Nat
         /\ HighWater(rows[i].user) >= rows[i].seq
<1> DEFINE seqs == {rows[j].seq : j \in RowsOf(rows[i].user)} \cup {0}
<1>1. seq \in Nat /\ \A j \in Ids : rows[j] # NULL =>
        rows[j].seq \in Nat /\ rows[j].seq <= seq
  BY DEF SafeInv, SeqBounds, TypeOK, DbTypeOK, Row
<1>2. seqs \subseteq 0 .. seq /\ rows[i].seq \in seqs
  BY <1>1 DEF RowsOf
<1>3. \E n \in seqs : \A m \in seqs : m <= n
  BY <1>1, <1>2, Largest
<1>4. HighWater(rows[i].user) = CHOOSE n \in seqs : \A m \in seqs : m <= n
  BY DEF HighWater
<1>5. /\ HighWater(rows[i].user) \in seqs
      /\ \A m \in seqs : m <= HighWater(rows[i].user)
  BY <1>3, <1>4, Zenon
<1>6. QED
  BY <1>1, <1>2, <1>5

(* Row i has the number n or a later one. *)
Numbered(i, n) == rows[i] # NULL /\ rows[i].seq >= n

ReturnedReached ==
  \A h \in Handlers : pc[h] = "respond" =>
    \A i \in Ids : returned[h][i] # NULL => Numbered(i, returned[h][i].seq)

LEMMA NumberedStays ==
  ASSUME SafeInv, [Next]_vars, NEW i \in Ids, NEW n \in Nat, Numbered(i, n)
  PROVE  Numbered(i, n)'
<1>1. CASE rows'[i] = rows[i]
  BY <1>1 DEF Numbered
<1>2. CASE rows'[i] # rows[i]
  <2>1. PICK h \in Handlers : Commit(h)
    BY <1>2, OnlyCommitWrites DEF vars, dbVars
  <2>2. /\ rows'[i] = pending[h][i] /\ rows'[i] # NULL
        /\ Replaces(rows'[i], rows[i])
    BY <1>2, <2>1, CommitReplaces DEF Numbered
  <2>3. rows[i].seq \in Nat /\ rows'[i].seq \in Nat
    BY <2>2, PushAssumption DEF Numbered, SafeInv, TypeOK, DbTypeOK, Row
  <2>4. QED
    BY <2>2, <2>3 DEF Numbered, Replaces
<1>3. QED
  BY <1>1, <1>2

LEMMA ReturnedStep ==
  ASSUME SafeInv, AllProgress, ReturnedReached, [Next]_vars
  PROVE  ReturnedReached'
<1> SUFFICES ASSUME NEW g \in Handlers, pc'[g] = "respond", NEW i \in Ids,
                    returned'[g][i] # NULL
             PROVE  rows'[i] # NULL /\ rows'[i].seq >= returned'[g][i].seq
  BY DEF ReturnedReached, Numbered
<1>1. CASE pc[g] = "respond" /\ returned'[g] = returned[g]
  <2>1. PICK n \in Nat : n = returned[g][i].seq
    BY <1>1 DEF SafeInv, TypeOK, Returning
  <2>2. Numbered(i, n)
    BY <1>1, <2>1 DEF ReturnedReached
  <2>3. Numbered(i, n)'
    BY <2>2, NumberedStays
  <2>4. QED
    BY <1>1, <2>1, <2>3 DEF Numbered
<1>2. ASSUME NEW h \in Handlers, HandlerStep(h), h # g PROVE Untouched(g)
  BY <1>2, OthersUntouched
<1>3. CASE Commit(g)
  <2>1. /\ pc[g] = "commit" /\ rows' = Committed(g) /\ returned' = returned
    BY <1>3 DEF Commit, CommitTransaction, Goto
  <2>2. pending[g][i] # NULL
    BY <2>1 DEF SafeInv, PendingReplaces, OpenPhases, Standing
  <2>3. PICK k \in Passed(g) : req[g].batch[k].id = i
    BY <2>1, <2>2 DEF AllProgress, Progress, OpenPhases
  <2>4. Decided(g, req[g].batch[k])
    BY <2>1 DEF AllProgress, Progress, OpenPhases
  <2>5. returned[g][i].seq = pending[g][i].seq
    BY <2>2, <2>3, <2>4 DEF Decided
  <2>6. rows'[i] = pending[g][i] /\ pending[g][i].seq \in Nat
    BY <2>1, <2>2, PushAssumption DEF Committed, SafeInv, TypeOK, DbTypeOK, Row
  <2>7. QED
    BY <2>1, <2>2, <2>5, <2>6
<1>4. CASE HandlerStep(g) /\ ~ Commit(g)
  <2>1. ~ EndRequest(g)
    BY DEF EndRequest, SafeInv, TypeOK
  <2>2. Begin(g) \/ SelectOwners(g)
    BY <1>4, <2>1 DEF HandlerStep, Step, FireInsertTrigger, StatementFails,
       InsertRow, UpdateRow, KeepRow, NextRecord, CountNew, IncrementUsage, Respond,
       RespondError, Abort, CancelDeadlocked, Goto, SafeInv, TypeOK
  <2>3. pc[g] \in {"idle", "select"} /\ returned' = returned
    BY <2>2 DEF Begin, SelectOwners, Goto
  <2>4. returned'[g] = NothingReturned
    BY <2>3 DEF SafeInv, PendingReplaces
  <2>5. QED
    BY <2>4 DEF NothingReturned
<1>5. CASE NextMonth \/ UNCHANGED vars
  BY <1>1, <1>5 DEF NextMonth, vars, pushVars
<1>6. QED
  BY <1>1, <1>2, <1>3, <1>4, <1>5 DEF Next, HandlerStep, Served, Untouched

(* The server_seq a push reports for a record is its row's, or the row has *)
(* been written again since: the response never runs ahead of the table,   *)
(* and the high water mark a client could continue from covers it.         *)
THEOREM ReportsAreReached == Spec => []ReportedSeqReached
<1>1. Init => ReturnedReached
  BY DEF Init, ReturnedReached
<1>2. SafeInv /\ ReturnedReached => ReportedSeqReached
  <2> SUFFICES ASSUME SafeInv, ReturnedReached, NEW h \in Handlers,
                      pc[h] = "respond", NEW i \in Ids, returned[h][i] # NULL
               PROVE  /\ rows[i] # NULL
                      /\ rows[i].seq >= returned[h][i].seq
                      /\ HighWater(rows[i].user) >= returned[h][i].seq
    BY DEF ReportedSeqReached
  <2>1. Numbered(i, returned[h][i].seq)
    BY DEF ReturnedReached
  <2>2. HighWater(rows[i].user) \in Nat /\ HighWater(rows[i].user) >= rows[i].seq
    BY <2>1, HighWaterReached DEF Numbered
  <2>3. rows[i].seq \in Nat /\ returned[h][i].seq \in Nat
    BY <2>1 DEF Numbered, SafeInv, TypeOK, DbTypeOK, Row, Returning
  <2>4. QED
    BY <2>1, <2>2, <2>3 DEF Numbered
<1>3. SafeInv /\ AllProgress /\ ReturnedReached /\ [Next]_vars => ReturnedReached'
  BY ReturnedStep
<1>4. QED
  BY <1>1, <1>2, <1>3, SafeInvariant, ProgressInvariant, PTL DEF Spec
=============================================================================
