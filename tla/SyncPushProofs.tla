--------------------------- MODULE SyncPushProofs ---------------------------
(***************************************************************************)
(* Proofs about SyncPush for every number of handlers, users, devices,     *)
(* expenses and months, and for every set of batches.                      *)
(***************************************************************************)
EXTENDS SyncPush, FiniteSetTheorems, TLAPS

(* What a position kept by the validation loop gives. *)
LEMMA ParsedFacts ==
  ASSUME NEW b \in Batches
  PROVE  /\ Parsed(b) \subseteq Nat
         /\ \A k \in Parsed(b) : b[k] \in RawRecord
<1>1. b \in Seq(RawRecord)
  BY PushAssumption
<1>2. DOMAIN b \subseteq Nat /\ \A k \in DOMAIN b : b[k] \in RawRecord
  BY <1>1
<1>3. QED
  BY <1>2 DEF Parsed

LEMMA RecordType ==
  ASSUME TypeOK, NEW h \in Handlers, pc[h] = "conflict"
  PROVE  /\ Record(h) \in RawRecord
         /\ req[h] \in Request
         /\ cur[h] \in Parsed(req[h].batch)
<1>1. req[h] \in Request /\ valid[h] \subseteq Parsed(req[h].batch) /\ cur[h] \in valid[h]
  BY DEF TypeOK
<1>2. req[h].batch \in Batches
  BY <1>1 DEF Request
<1>3. QED
  BY <1>1, <1>2, ParsedFacts DEF Record

(* The revisions of a batch are numbers. *)
LEMMA RevisionsTyped ==
  ASSUME TypeOK, NEW h \in Handlers, pc[h] # "idle",
         NEW K, K \subseteq valid[h], NEW i \in Ids
  PROVE  Revisions(h, K, i) \subseteq Nat
<1>1. req[h] \in Request /\ valid[h] \subseteq Parsed(req[h].batch)
  BY DEF TypeOK
<1>2. \A k \in K : req[h].batch[k].rev \in Nat
  BY <1>1, ParsedFacts DEF Request, RawRecord
<1>3. QED
  BY <1>2 DEF Revisions

(* Committing and rolling back keep the tables well-typed. *)
LEMMA DbTransactionTypes ==
  ASSUME DbTypeOK, NEW s \in Sessions
  PROVE  /\ CommitTransaction(s) => DbTypeOK'
         /\ Rollback(s) => DbTypeOK'
<1> USE DEF DbTypeOK
<1>1. NoWrites \in [Ids -> Row \cup {NULL}]
  BY DEF NoWrites
<1>2. EndTransaction(s) => /\ lock' \in [Ids -> Sessions \cup {NULL}]
                           /\ pending' \in [Sessions -> [Ids -> Row \cup {NULL}]]
  BY <1>1 DEF EndTransaction
<1>3. Committed(s) \in [Ids -> Row \cup {NULL}]
  BY DEF Committed
<1>4. QED
  BY <1>2, <1>3 DEF CommitTransaction, Rollback

-----------------------------------------------------------------------------
(* Type correctness. *)

LEMMA TypeInit == Init => TypeOK
<1> SUFFICES ASSUME Init PROVE TypeOK
  OBVIOUS
<1>1. DbTypeOK
  BY DEF Init, DbInit, DbTypeOK, NoWrites
<1>2. QED
  BY <1>1, PushAssumption DEF Init, TypeOK, NothingReturned

(* A handler that ends leaves its slot as Init has it. *)
LEMMA EndRequestType ==
  ASSUME TypeOK, NEW h \in Handlers, EndRequest(h), DbTypeOK',
         acked' \in [Ids -> SUBSET Nat]
  PROVE  TypeOK'
<1>1. NothingReturned \in [Ids -> Returning \cup {NULL}]
  BY DEF NothingReturned
<1>2. /\ pc'[h] = "idle" /\ valid'[h] = {} /\ cur'[h] = 0
      /\ \A g \in Handlers \ {h} : /\ pc'[g] = pc[g] /\ req'[g] = req[g]
                                   /\ valid'[g] = valid[g] /\ cur'[g] = cur[g]
  BY DEF EndRequest, TypeOK
<1>3. QED
  BY <1>1, <1>2 DEF EndRequest, TypeOK

LEMMA NextRecordType ==
  ASSUME TypeOK, NEW h \in Handlers, NextRecord(h), seq' \in Nat,
         pending' \in [Sessions -> [Ids -> Row \cup {NULL}]],
         returned' \in [Handlers -> [Ids -> Returning \cup {NULL}]]
  PROVE  TypeOK'
<1>1. DbTypeOK'
  BY PushAssumption DEF NextRecord, LockRow, TypeOK, DbTypeOK
<1>2. pc' \in [Handlers -> {"idle", "select", "stamp", "conflict", "count",
                            "meter", "commit", "respond", "data_error"}]
  BY DEF NextRecord, Goto, TypeOK
<1>3. \A g \in Handlers : /\ pc'[g] = "idle" <=> pc[g] = "idle"
                          /\ pc'[g] = "conflict" => pc[g] = "conflict"
  BY DEF NextRecord, Goto, TypeOK
<1>4. QED
  BY <1>1, <1>2, <1>3 DEF NextRecord, TypeOK

LEMMA TypeStep == TypeOK /\ [Next]_vars => TypeOK'
<1> SUFFICES ASSUME TypeOK, [Next]_vars PROVE TypeOK'
  OBVIOUS
<1>1. ASSUME NEW h \in Handlers, Begin(h) PROVE TypeOK'
  <2>1. PICK u \in Users, b \in Batches :
          /\ req' = [req EXCEPT ![h] = [user |-> u, batch |-> b, began |-> seq]]
          /\ Goto(h, "idle", IF Parsed(b) = {} THEN "respond" ELSE "select")
    BY <1>1 DEF Begin
  <2>2. [user |-> u, batch |-> b, began |-> seq] \in Request
    BY DEF Request, TypeOK, DbTypeOK
  <2>3. DbTypeOK'
    BY <1>1 DEF Begin, TypeOK, DbTypeOK, dbVars
  <2>4. /\ pc' \in [Handlers -> {"idle", "select", "stamp", "conflict", "count",
                                 "meter", "commit", "respond", "data_error"}]
        /\ req' \in [Handlers -> Request \cup {NULL}]
        /\ pushes' \in 0 .. MaxPushes
    BY <1>1, <2>1, <2>2, PushAssumption DEF Begin, Goto, TypeOK
  <2>5. /\ pc[h] = "idle" /\ valid[h] = {} /\ pc'[h] \in {"respond", "select"}
        /\ req'[h] \in Request
        /\ \A g \in Handlers \ {h} : pc'[g] = pc[g] /\ req'[g] = req[g]
    BY <2>1, <2>2 DEF Goto, TypeOK
  <2> QED
    BY <1>1, <2>3, <2>4, <2>5 DEF Begin, TypeOK
<1>2. ASSUME NEW h \in Handlers, SelectOwners(h) PROVE TypeOK'
  <2> DEFINE b == req[h].batch
             passed == valid'[h]
  <2>1. /\ pc[h] = "select"
        /\ passed \subseteq Parsed(b)
        /\ valid' = [valid EXCEPT ![h] = passed]
        /\ pc' = [pc EXCEPT ![h] = pc'[h]]
        /\ pc'[h] \in {"respond", "stamp"}
    BY <1>2 DEF SelectOwners, Goto, TypeOK
  <2>2. req[h] \in Request /\ Parsed(b) \subseteq Nat
    BY <2>1, ParsedFacts DEF TypeOK, Request
  <2>3. DbTypeOK'
    BY <1>2 DEF SelectOwners, TypeOK, DbTypeOK, dbVars
  <2> QED
    BY <1>2, <2>1, <2>2, <2>3, ZenonT(30) DEF SelectOwners, TypeOK
<1>3. ASSUME NEW h \in Handlers, FireInsertTrigger(h) PROVE TypeOK'
  <2>1. PICK k \in valid[h] : cur' = [cur EXCEPT ![h] = k]
    BY <1>3 DEF FireInsertTrigger
  <2>2. /\ pc[h] = "stamp"
        /\ pc' = [pc EXCEPT ![h] = "conflict"]
    BY <1>3 DEF FireInsertTrigger, Goto
  <2>3. DbTypeOK' /\ seq' \in Nat
    BY <1>3 DEF FireInsertTrigger, SetServerSeq, TypeOK, DbTypeOK
  <2> QED
    BY <1>3, <2>1, <2>2, <2>3 DEF FireInsertTrigger, TypeOK
<1>4. ASSUME NEW h \in Handlers, StatementFails(h) PROVE TypeOK'
  <2>1. DbTypeOK'
    BY <1>4, DbTransactionTypes, PushAssumption DEF StatementFails, TypeOK
  <2>2. returned' \in [Handlers -> [Ids -> Returning \cup {NULL}]]
    BY <1>4 DEF StatementFails, NothingReturned, TypeOK
  <2>3. pc[h] = "stamp" /\ pc' = [pc EXCEPT ![h] = "data_error"]
    BY <1>4 DEF StatementFails, Goto
  <2> QED
    BY <1>4, <2>1, <2>2, <2>3 DEF StatementFails, TypeOK
<1>5. ASSUME NEW h \in Handlers, InsertRow(h) PROVE TypeOK'
  <2> DEFINE r == Record(h)
             new == [user |-> req[h].user, device |-> r.device,
                     rev |-> r.rev, inputs |-> r.inputs,
                     deleted |-> r.deleted, base |-> NULL,
                     created |-> req[h].began, seq |-> stamp[h]]
  <2>1. pc[h] = "conflict" /\ NextRecord(h)
    BY <1>5 DEF InsertRow, NextRecord, Goto
  <2>2. r \in RawRecord /\ req[h] \in Request
    BY <2>1, RecordType
  <2>3. new \in Row
    BY <2>2 DEF RawRecord, Request, Row, TypeOK
  <2>4. pending' = [pending EXCEPT ![h][r.id] = new]
    BY <1>5 DEF InsertRow, WriteRow
  <2>5. pending' \in [Sessions -> [Ids -> Row \cup {NULL}]]
    BY <2>2, <2>3, <2>4 DEF TypeOK, DbTypeOK
  <2>6. [seq |-> stamp[h], inserted |-> TRUE] \in Returning
    BY DEF Returning, TypeOK
  <2>7. returned' \in [Handlers -> [Ids -> Returning \cup {NULL}]]
    BY <1>5, <2>2, <2>6 DEF InsertRow, TypeOK
  <2>8. seq' \in Nat
    BY <1>5 DEF InsertRow, TypeOK, DbTypeOK
  <2> QED
    BY <2>1, <2>5, <2>7, <2>8, NextRecordType
<1>6. ASSUME NEW h \in Handlers, UpdateRow(h) PROVE TypeOK'
  <2> DEFINE r   == Record(h)
             old == rows[r.id]
             new == [old EXCEPT !.rev = r.rev, !.inputs = r.inputs,
                                !.deleted = r.deleted, !.seq = seq',
                                !.base = NewBase(r, old)]
  <2>1. pc[h] = "conflict" /\ NextRecord(h)
    BY <1>6 DEF UpdateRow, NextRecord, Goto
  <2>2. r \in RawRecord
    BY <2>1, RecordType
  <2>3. seq' \in Nat
    BY <1>6 DEF UpdateRow, SetServerSeq, TypeOK, DbTypeOK
  <2>4. r.id \in Ids /\ old \in Row
    BY <1>6, <2>2 DEF UpdateRow, RawRecord, TypeOK, DbTypeOK
  <2>5. new \in Row
    BY <2>2, <2>3, <2>4 DEF NewBase, RawRecord, Row
  <2>6. pending' = [pending EXCEPT ![h][r.id] = new]
    BY <1>6 DEF UpdateRow, WriteRow
  <2>7. pending' \in [Sessions -> [Ids -> Row \cup {NULL}]]
    BY <2>4, <2>5, <2>6 DEF TypeOK, DbTypeOK
  <2>8. [seq |-> seq', inserted |-> FALSE] \in Returning
    BY <2>3 DEF Returning
  <2>9. returned' \in [Handlers -> [Ids -> Returning \cup {NULL}]]
    BY <1>6, <2>4, <2>8 DEF UpdateRow, TypeOK
  <2> QED
    BY <2>1, <2>3, <2>7, <2>9, NextRecordType
<1>7. ASSUME NEW h \in Handlers, KeepRow(h) PROVE TypeOK'
  BY <1>7, NextRecordType DEF KeepRow, TypeOK, DbTypeOK
<1>8. ASSUME NEW h \in Handlers, CountNew(h) PROVE TypeOK'
  <2>1. /\ pc[h] = "count"
        /\ pc' = [pc EXCEPT ![h] = pc'[h]]
        /\ pc'[h] \in {"commit", "meter"}
    BY <1>8 DEF CountNew, Goto, TypeOK
  <2>2. DbTypeOK'
    BY <1>8 DEF CountNew, TypeOK, DbTypeOK, dbVars
  <2>3. period' \in [Handlers -> Periods \cup {NULL}]
    BY <1>8 DEF CountNew, TypeOK
  <2> QED
    BY <1>8, <2>1, <2>2, <2>3 DEF CountNew, TypeOK
<1>9. ASSUME NEW h \in Handlers, IncrementUsage(h) PROVE TypeOK'
  <2>1. pc[h] = "meter" /\ pc' = [pc EXCEPT ![h] = "commit"]
    BY <1>9 DEF IncrementUsage, Goto
  <2>2. DbTypeOK'
    BY <1>9 DEF IncrementUsage, TypeOK, DbTypeOK, dbVars
  <2> QED
    BY <1>9, <2>1, <2>2 DEF IncrementUsage, TypeOK
<1>10. ASSUME NEW h \in Handlers, Commit(h) PROVE TypeOK'
  <2>1. pc[h] = "commit" /\ pc' = [pc EXCEPT ![h] = "respond"]
    BY <1>10 DEF Commit, Goto
  <2>2. DbTypeOK'
    BY <1>10, DbTransactionTypes, PushAssumption DEF Commit, TypeOK
  <2>3. req[h] \in Request
    BY <2>1 DEF TypeOK
  <2>4. Cardinality(NewIds(h)) \in Nat
    BY FS_Subset, FS_CardinalityType, PushAssumption DEF NewIds
  <2>5. usage' \in [Users -> [Periods -> Nat]]
    <3>1. CASE period[h] = NULL
      BY <1>10, <3>1 DEF Commit, TypeOK
    <3>2. CASE period[h] # NULL
      <4>1. period[h] \in Periods /\ req[h].user \in Users
        BY <2>3, <3>2 DEF TypeOK, Request
      <4>2. usage[req[h].user][period[h]] + Cardinality(NewIds(h)) \in Nat
        BY <2>4, <4>1 DEF TypeOK
      <4> QED
        BY <1>10, <3>2, <4>1, <4>2 DEF Commit, TypeOK
    <3> QED
      BY <3>1, <3>2
  <2>6. landed' \in [Ids -> Periods \cup {NULL}]
    BY <1>10 DEF Commit, TypeOK
  <2>7. stored' \in [Ids -> SUBSET Nat]
    BY <1>10, <2>1, RevisionsTyped DEF Commit, TypeOK
  <2> QED
    BY <1>10, <2>1, <2>2, <2>5, <2>6, <2>7 DEF Commit, TypeOK
<1>11. ASSUME NEW h \in Handlers, Respond(h) PROVE TypeOK'
  <2>1. DbTypeOK' /\ EndRequest(h)
    BY <1>11 DEF Respond, TypeOK, DbTypeOK, dbVars
  <2>2. acked' \in [Ids -> SUBSET Nat]
    BY <1>11, RevisionsTyped DEF Respond, Settled, TypeOK
  <2> QED
    BY <2>1, <2>2, EndRequestType
<1>12. ASSUME NEW h \in Handlers, RespondError(h) PROVE TypeOK'
  <2>1. DbTypeOK' /\ EndRequest(h) /\ acked' \in [Ids -> SUBSET Nat]
    BY <1>12 DEF RespondError, TypeOK, DbTypeOK, dbVars
  <2> QED
    BY <2>1, EndRequestType
<1>13. ASSUME NEW h \in Handlers, Abort(h) PROVE TypeOK'
  <2>1. DbTypeOK' /\ EndRequest(h) /\ acked' \in [Ids -> SUBSET Nat]
    BY <1>13, DbTransactionTypes, PushAssumption DEF Abort, TypeOK
  <2> QED
    BY <2>1, EndRequestType
<1>14. ASSUME NEW h \in Handlers, CancelDeadlocked(h, PushWaitsFor) PROVE TypeOK'
  <2>1. DbTypeOK' /\ EndRequest(h) /\ acked' \in [Ids -> SUBSET Nat]
    BY <1>14, DbTransactionTypes, PushAssumption DEF CancelDeadlocked, TypeOK
  <2> QED
    BY <2>1, EndRequestType
<1>15. CASE NextMonth
  BY <1>15 DEF NextMonth, TypeOK, DbTypeOK, dbVars
<1>16. CASE UNCHANGED vars
  BY <1>16 DEF vars, dbVars, pushVars, TypeOK, DbTypeOK
<1>17. QED
  BY <1>1, <1>2, <1>3, <1>4, <1>5, <1>6, <1>7, <1>8, <1>9, <1>10, <1>11, <1>12,
     <1>13, <1>14, <1>15, <1>16 DEF Next, Step, Served

(* Every reachable state is well-typed; in particular a handler that is    *)
(* not idle works on a batch it received, and only on positions that the   *)
(* validation loop kept.                                                   *)
THEOREM TypeCorrect == Spec => []TypeOK
  BY TypeInit, TypeStep, PTL DEF Spec

-----------------------------------------------------------------------------
(* The sequence is ahead of every number it has handed out. *)

SeqBounds ==
  /\ \A i \in Ids : rows[i] # NULL => rows[i].seq <= seq
  /\ \A s \in Sessions, i \in Ids : pending[s][i] # NULL => pending[s][i].seq <= seq
  /\ \A h \in Handlers : stamp[h] <= seq

LEMMA SeqBoundsInit == Init => SeqBounds
BY DEF Init, DbInit, NoWrites, SeqBounds

(* The end of a transaction, and steps that leave the tables alone. *)
LEMMA SeqBoundsSameNumbers ==
  ASSUME TypeOK, SeqBounds, seq' = seq,
         \A i \in Ids : rows'[i] = rows[i] \/ \E s \in Sessions : rows'[i] = pending[s][i],
         \A s \in Sessions : pending'[s] = pending[s] \/ pending'[s] = NoWrites,
         \A h \in Handlers : stamp'[h] = stamp[h] \/ stamp'[h] = 0
  PROVE  SeqBounds'
<1>1. \A i \in Ids : rows'[i] # NULL => rows'[i].seq <= seq'
  BY DEF SeqBounds
<1>2. \A s \in Sessions, i \in Ids : pending'[s][i] # NULL => pending'[s][i].seq <= seq'
  BY DEF SeqBounds, NoWrites
<1>3. \A h \in Handlers : stamp'[h] <= seq'
  <2>1. seq \in Nat /\ stamp \in [Handlers -> Nat]
    BY DEF TypeOK, DbTypeOK
  <2>2. ASSUME NEW h \in Handlers PROVE stamp'[h] <= seq'
    <3>1. stamp[h] <= seq /\ 0 <= seq
      BY <2>1 DEF SeqBounds
    <3> QED
      BY <3>1
  <2> QED
    BY <2>2
<1>4. QED
  BY <1>1, <1>2, <1>3 DEF SeqBounds

LEMMA SeqBoundsStep == TypeOK /\ SeqBounds /\ [Next]_vars => SeqBounds'
<1> SUFFICES ASSUME TypeOK, SeqBounds, [Next]_vars PROVE SeqBounds'
  OBVIOUS
<1>a. ASSUME NEW h \in Handlers, Rollback(h),
             \A g \in Handlers : stamp'[g] = stamp[g] \/ stamp'[g] = 0
      PROVE  SeqBounds'
  <2>1. \A s \in Sessions : pending'[s] = pending[s] \/ pending'[s] = NoWrites
    BY <1>a, PushAssumption DEF Rollback, EndTransaction, TypeOK, DbTypeOK
  <2> QED
    BY <1>a, <2>1, SeqBoundsSameNumbers DEF Rollback
<1>b. ASSUME NEW h \in Handlers, EndRequest(h)
      PROVE  \A g \in Handlers : stamp'[g] = stamp[g] \/ stamp'[g] = 0
  BY <1>b DEF EndRequest, TypeOK
<1>1. ASSUME NEW h \in Handlers, Begin(h) PROVE SeqBounds'
  BY <1>1, SeqBoundsSameNumbers DEF Begin, dbVars
<1>2. ASSUME NEW h \in Handlers, SelectOwners(h) PROVE SeqBounds'
  BY <1>2, SeqBoundsSameNumbers DEF SelectOwners, dbVars
<1>3. ASSUME NEW h \in Handlers, FireInsertTrigger(h) PROVE SeqBounds'
  <2>1. /\ seq' = seq + 1 /\ UNCHANGED <<rows, pending>>
        /\ stamp' = [stamp EXCEPT ![h] = seq']
    BY <1>3 DEF FireInsertTrigger, SetServerSeq
  <2> QED
    BY <2>1 DEF SeqBounds, TypeOK, DbTypeOK, Row
<1>4. ASSUME NEW h \in Handlers, StatementFails(h) PROVE SeqBounds'
  BY <1>4, <1>a DEF StatementFails
<1>5. ASSUME \A s \in Sessions, i \in Ids :
               pending'[s][i] = pending[s][i] \/ pending'[s][i].seq <= seq',
             seq' \in {seq, seq + 1}, UNCHANGED <<rows, stamp>>
      PROVE  SeqBounds'
  BY <1>5 DEF SeqBounds, TypeOK, DbTypeOK, Row
<1>6. ASSUME NEW h \in Handlers, InsertRow(h) PROVE SeqBounds'
  <2>1. pc[h] = "conflict" /\ UNCHANGED <<rows, seq, stamp>>
    BY <1>6 DEF InsertRow, NextRecord, Goto
  <2>2. Record(h).id \in Ids
    BY <2>1, RecordType DEF RawRecord
  <2>3. stamp[h] <= seq
    BY DEF SeqBounds
  <2>4. \A s \in Sessions, i \in Ids :
          pending'[s][i] = pending[s][i] \/ pending'[s][i].seq = stamp[h]
    BY <1>6, <2>2, PushAssumption DEF InsertRow, WriteRow, TypeOK, DbTypeOK
  <2> QED
    BY <1>5, <2>1, <2>3, <2>4
<1>7. ASSUME NEW h \in Handlers, UpdateRow(h) PROVE SeqBounds'
  <2>1. /\ pc[h] = "conflict" /\ UNCHANGED <<rows, stamp>>
        /\ seq' = seq + 1 /\ rows[Record(h).id] # NULL
    BY <1>7 DEF UpdateRow, SetServerSeq, NextRecord, Goto
  <2>2. Record(h).id \in Ids
    BY <2>1, RecordType DEF RawRecord
  <2>3. rows[Record(h).id] \in Row /\ seq' \in Nat
    BY <2>1, <2>2 DEF TypeOK, DbTypeOK
  <2>4. \A s \in Sessions, i \in Ids :
          pending'[s][i] = pending[s][i] \/ pending'[s][i].seq = seq'
    BY <1>7, <2>2, <2>3, PushAssumption
       DEF UpdateRow, WriteRow, Row, TypeOK, DbTypeOK
  <2> QED
    BY <1>5, <2>1, <2>3, <2>4
<1>8. ASSUME NEW h \in Handlers, KeepRow(h) PROVE SeqBounds'
  BY <1>8, SeqBoundsSameNumbers DEF KeepRow, NextRecord
<1>9. ASSUME NEW h \in Handlers, CountNew(h) \/ IncrementUsage(h) PROVE SeqBounds'
  BY <1>9, SeqBoundsSameNumbers DEF CountNew, IncrementUsage, dbVars
<1>10. ASSUME NEW h \in Handlers, Commit(h) PROVE SeqBounds'
  <2>1. \A s \in Sessions : pending'[s] = pending[s] \/ pending'[s] = NoWrites
    BY <1>10, PushAssumption
       DEF Commit, CommitTransaction, EndTransaction, TypeOK, DbTypeOK
  <2>2. \A i \in Ids : rows'[i] = rows[i] \/ rows'[i] = pending[h][i]
    BY <1>10 DEF Commit, CommitTransaction, Committed
  <2>3. seq' = seq /\ stamp' = stamp
    BY <1>10 DEF Commit, CommitTransaction
  <2> QED
    BY <2>1, <2>2, <2>3, PushAssumption, SeqBoundsSameNumbers
<1>11. ASSUME NEW h \in Handlers, Respond(h) \/ RespondError(h) PROVE SeqBounds'
  BY <1>11, <1>b, SeqBoundsSameNumbers DEF Respond, RespondError, dbVars
<1>12. ASSUME NEW h \in Handlers, Abort(h) \/ CancelDeadlocked(h, PushWaitsFor)
       PROVE  SeqBounds'
  BY <1>12, <1>a, <1>b DEF Abort, CancelDeadlocked
<1>13. CASE NextMonth \/ UNCHANGED vars
  BY <1>13, SeqBoundsSameNumbers DEF NextMonth, vars, dbVars, pushVars
<1>14. QED
  BY <1>1, <1>2, <1>3, <1>4, <1>6, <1>7, <1>8, <1>9, <1>10, <1>11, <1>12, <1>13
     DEF Next, Step, Served

-----------------------------------------------------------------------------
(* Strict two-phase locking, as the upsert uses it. *)

LEMMA PendingInit == Init => PendingReplaces
BY PushAssumption DEF Init, DbInit, PendingReplaces, OpenPhases

(* What happens elsewhere leaves a row's pending version standing. *)
LEMMA StandingFrame ==
  ASSUME NEW g \in Handlers, NEW i \in Ids, Standing(g, i),
         pending'[g][i] = pending[g][i], returned'[g][i] = returned[g][i],
         req'[g] = req[g], lock[i] = g => lock'[i] = g /\ rows'[i] = rows[i]
  PROVE  Standing(g, i)'
BY DEF Standing, Replaces

(* A session whose transaction ends leaves those of the others standing. *)
LEMMA EndTransactionFrame ==
  ASSUME TypeOK, PendingReplaces, NEW h \in Handlers, EndTransaction(h),
         NEW g \in Handlers \ {h}, pc[g] \in OpenPhases, NEW i \in Ids,
         returned'[g] = returned[g], req'[g] = req[g],
         lock[i] = g => rows'[i] = rows[i]
  PROVE  Standing(g, i)'
<1>1. Standing(g, i)
  BY DEF PendingReplaces
<1>2. pending'[g] = pending[g] /\ (lock[i] = g => lock'[i] = g)
  BY PushAssumption DEF EndTransaction, TypeOK, DbTypeOK
<1>3. QED
  BY <1>1, <1>2, StandingFrame

LEMMA RollbackKeeps ==
  ASSUME TypeOK, PendingReplaces, NEW h \in Handlers, Rollback(h),
         pc'[h] \notin OpenPhases, returned'[h] = NothingReturned,
         \A g \in Handlers \ {h} :
           pc'[g] = pc[g] /\ returned'[g] = returned[g] /\ req'[g] = req[g]
  PROVE  PendingReplaces'
<1>1. /\ UNCHANGED <<rows, seq>> /\ EndTransaction(h)
      /\ pending' = [pending EXCEPT ![h] = NoWrites]
  BY DEF Rollback, EndTransaction
<1>2. \A g \in Handlers : pc'[g] \in OpenPhases => \A i \in Ids : Standing(g, i)'
  BY <1>1, EndTransactionFrame
<1>3. \A g \in Handlers : pc'[g] \notin OpenPhases => pending'[g] = NoWrites
  BY <1>1, PushAssumption DEF PendingReplaces, TypeOK, DbTypeOK
<1>4. \A g \in Handlers : pc'[g] \in {"idle", "select"} => returned'[g] = NothingReturned
  BY DEF PendingReplaces
<1>5. NoWrites' = NoWrites /\ NothingReturned' = NothingReturned
  BY DEF NoWrites, NothingReturned
<1>6. QED
  BY <1>2, <1>3, <1>4, <1>5 DEF PendingReplaces

(* A handler moves on without touching the tables. *)
LEMMA LocalMoveKeeps ==
  ASSUME TypeOK, PendingReplaces, NEW h \in Handlers,
         UNCHANGED <<rows, lock, pending>>,
         pc'[h] \in OpenPhases => /\ pc[h] \in OpenPhases \cup {"select"}
                                 /\ returned'[h] = returned[h] /\ req'[h] = req[h],
         pc'[h] \notin OpenPhases => pc[h] \notin OpenPhases,
         pc'[h] \in {"idle", "select"} => returned'[h] = NothingReturned,
         \A g \in Handlers \ {h} :
           pc'[g] = pc[g] /\ returned'[g] = returned[g] /\ req'[g] = req[g]
  PROVE  PendingReplaces'
<1>1. \A g \in Handlers : pc'[g] \in OpenPhases => \A i \in Ids : Standing(g, i)'
  <2> SUFFICES ASSUME NEW g \in Handlers, pc'[g] \in OpenPhases, NEW i \in Ids
               PROVE  Standing(g, i)'
    OBVIOUS
  <2>1. Standing(g, i)
    <3>1. CASE pc[g] \in OpenPhases
      BY <3>1 DEF PendingReplaces
    <3>2. CASE pc[g] = "select"
      <4>1. pending[g] = NoWrites /\ returned[g] = NothingReturned
        BY <3>2, PushAssumption DEF PendingReplaces, OpenPhases
      <4> QED
        BY <4>1 DEF Standing, NoWrites, NothingReturned
    <3> QED
      BY <3>1, <3>2
  <2> QED
    BY <2>1, StandingFrame
<1>2. NoWrites' = NoWrites /\ NothingReturned' = NothingReturned
  BY DEF NoWrites, NothingReturned
<1>3. \A g \in Handlers : pc'[g] \notin OpenPhases => pending'[g] = NoWrites
  BY DEF PendingReplaces
<1>4. \A g \in Handlers : pc'[g] \in {"idle", "select"} => returned'[g] = NothingReturned
  BY DEF PendingReplaces
<1>5. QED
  BY <1>1, <1>2, <1>3, <1>4 DEF PendingReplaces

(* The upsert of one record: its row was free, so no transaction, this one *)
(* included, has a pending version of it.                                  *)
LEMMA NextRecordKeeps ==
  ASSUME TypeOK, PendingReplaces, NEW h \in Handlers, NextRecord(h),
         NEW i0 \in Ids, i0 = Record(h).id, Standing(h, i0)',
         \A s \in Sessions \ {h} : pending'[s] = pending[s],
         \A g \in Handlers \ {h} : returned'[g] = returned[g],
         \A i \in Ids \ {i0} : /\ pending'[h][i] = pending[h][i]
                               /\ returned'[h][i] = returned[h][i]
  PROVE  PendingReplaces'
<1>1. /\ pc[h] = "conflict" /\ pc'[h] \in {"stamp", "count"}
      /\ \A g \in Handlers \ {h} : pc'[g] = pc[g]
  BY DEF NextRecord, Goto, TypeOK
<1>2. /\ lock[i0] = NULL /\ UNCHANGED <<rows, req>>
      /\ \A i \in Ids \ {i0} : lock'[i] = lock[i]
  BY DEF NextRecord, LockRow, TypeOK, DbTypeOK
<1>3. ASSUME NEW g \in Handlers, pc'[g] \in OpenPhases, NEW i \in Ids
      PROVE  Standing(g, i)'
  <2>1. Standing(g, i)
    BY <1>1, <1>3 DEF PendingReplaces, OpenPhases
  <2>2. CASE g = h /\ i = i0
    BY <2>2
  <2>3. CASE g # h \/ i # i0
    <3>1. pending'[g][i] = pending[g][i] /\ returned'[g][i] = returned[g][i]
      BY <2>3, PushAssumption
    <3>2. lock[i] = g => lock'[i] = g
      BY <1>2, PushAssumption, SessionAssumption
    <3> QED
      BY <1>2, <2>1, <3>1, <3>2, StandingFrame
  <2> QED
    BY <2>2, <2>3
<1>4. \A g \in Handlers : pc'[g] \notin OpenPhases => pending'[g] = NoWrites
  BY <1>1, PushAssumption DEF PendingReplaces, OpenPhases
<1>5. \A g \in Handlers : pc'[g] \in {"idle", "select"} => returned'[g] = NothingReturned
  BY <1>1 DEF PendingReplaces
<1>6. NoWrites' = NoWrites /\ NothingReturned' = NothingReturned
  BY DEF NoWrites, NothingReturned
<1>7. QED
  BY <1>3, <1>4, <1>5, <1>6 DEF PendingReplaces

(* A free row is not written by anybody. *)
LEMMA FreeRow ==
  ASSUME PendingReplaces, NEW h \in Handlers, pc[h] = "conflict",
         NEW i \in Ids, lock[i] = NULL
  PROVE  pending[h][i] = NULL /\ returned[h][i] = NULL
BY PushAssumption, SessionAssumption DEF PendingReplaces, OpenPhases, Standing

(* The upsert writes a version that stands. *)
LEMMA WrittenRowKeeps ==
  ASSUME TypeOK, PendingReplaces, NEW h \in Handlers, NextRecord(h),
         NEW i0 \in Ids, i0 = Record(h).id,
         NEW new \in Row, WriteRow(h, i0, new),
         NEW ret \in Returning,
         returned' = [returned EXCEPT ![h][i0] = ret],
         \/ /\ rows[i0] = NULL
            /\ ret.inserted = TRUE
            /\ new.user = req[h].user
         \/ /\ rows[i0] # NULL
            /\ ret.inserted = FALSE
            /\ Replaces(new, rows[i0])
  PROVE  PendingReplaces'
<1>1. pc[h] = "conflict" /\ lock[i0] = NULL /\ UNCHANGED <<rows, req>>
  BY DEF NextRecord, LockRow, Goto
<1>3. lock'[i0] = h
  BY DEF NextRecord, LockRow, TypeOK, DbTypeOK
<1>4. /\ pending'[h][i0] = new
      /\ \A i \in Ids \ {i0} : pending'[h][i] = pending[h][i]
      /\ \A s \in Sessions \ {h} : pending'[s] = pending[s]
  BY PushAssumption DEF WriteRow, TypeOK, DbTypeOK
<1>5. /\ returned'[h][i0] = ret
      /\ \A i \in Ids \ {i0} : returned'[h][i] = returned[h][i]
      /\ \A g \in Handlers \ {h} : returned'[g] = returned[g]
  BY DEF TypeOK
<1>6. new # NULL /\ ret # NULL
  BY NullAssumption, ReturningAssumption
<1>7. Standing(h, i0)'
  <2>1. CASE rows[i0] = NULL
    BY <1>1, <1>3, <1>4, <1>5, <1>6, <2>1 DEF Standing
  <2>2. CASE rows[i0] # NULL
    BY <1>1, <1>3, <1>4, <1>5, <1>6, <2>2 DEF Standing, Replaces
  <2> QED
    BY <2>1, <2>2
<1>8. QED
  BY <1>4, <1>5, <1>7, NextRecordKeeps

LEMMA PendingStep == TypeOK /\ SeqBounds /\ PendingReplaces /\ [Next]_vars => PendingReplaces'
<1> SUFFICES ASSUME TypeOK, SeqBounds, PendingReplaces, [Next]_vars
             PROVE  PendingReplaces'
  OBVIOUS
<1> USE DEF OpenPhases
<1>a. ASSUME NEW h \in Handlers, EndRequest(h)
      PROVE  /\ pc'[h] = "idle" /\ returned'[h] = NothingReturned
             /\ \A g \in Handlers \ {h} :
                  pc'[g] = pc[g] /\ returned'[g] = returned[g] /\ req'[g] = req[g]
  BY <1>a DEF EndRequest, TypeOK
<1>1. ASSUME NEW h \in Handlers, Begin(h) PROVE PendingReplaces'
  <2>1. /\ pc[h] = "idle" /\ pc'[h] \in {"respond", "select"}
        /\ \A g \in Handlers \ {h} : pc'[g] = pc[g] /\ req'[g] = req[g]
        /\ UNCHANGED <<rows, lock, pending, returned>>
    BY <1>1 DEF Begin, Goto, TypeOK, dbVars
  <2>2. returned[h] = NothingReturned
    BY <2>1 DEF PendingReplaces
  <2> QED
    BY <2>1, <2>2, LocalMoveKeeps
<1>2. ASSUME NEW h \in Handlers, SelectOwners(h) PROVE PendingReplaces'
  <2>1. /\ pc[h] = "select" /\ pc'[h] \in {"respond", "stamp"}
        /\ \A g \in Handlers \ {h} : pc'[g] = pc[g]
        /\ UNCHANGED <<rows, lock, pending, returned, req>>
    BY <1>2 DEF SelectOwners, Goto, TypeOK, dbVars
  <2> QED
    BY <2>1, LocalMoveKeeps
<1>3. ASSUME NEW h \in Handlers, FireInsertTrigger(h) PROVE PendingReplaces'
  <2>1. /\ pc[h] = "stamp" /\ pc'[h] = "conflict"
        /\ \A g \in Handlers \ {h} : pc'[g] = pc[g]
        /\ UNCHANGED <<rows, lock, pending, returned, req>>
    BY <1>3 DEF FireInsertTrigger, Goto, TypeOK
  <2> QED
    BY <2>1, LocalMoveKeeps
<1>4. ASSUME NEW h \in Handlers, StatementFails(h) PROVE PendingReplaces'
  <2>1. /\ pc'[h] = "data_error" /\ returned'[h] = NothingReturned
        /\ \A g \in Handlers \ {h} :
             pc'[g] = pc[g] /\ returned'[g] = returned[g] /\ req'[g] = req[g]
    BY <1>4 DEF StatementFails, Goto, TypeOK
  <2> QED
    BY <1>4, <2>1, RollbackKeeps DEF StatementFails
<1>5. ASSUME NEW h \in Handlers, InsertRow(h) PROVE PendingReplaces'
  <2> DEFINE r == Record(h)
             new == [user |-> req[h].user, device |-> r.device, rev |-> r.rev,
                     inputs |-> r.inputs, deleted |-> r.deleted, base |-> NULL,
                     created |-> req[h].began, seq |-> stamp[h]]
             ret == [seq |-> stamp[h], inserted |-> TRUE]
  <2>1. /\ NextRecord(h) /\ pc[h] = "conflict" /\ rows[r.id] = NULL
        /\ WriteRow(h, r.id, new) /\ returned' = [returned EXCEPT ![h][r.id] = ret]
    BY <1>5 DEF InsertRow, NextRecord, Goto
  <2>2. stamp[h] \in Nat /\ ret \in Returning
    BY DEF TypeOK, Returning
  <2>3. r \in RawRecord /\ req[h] \in Request
    BY <2>1, RecordType
  <2>4. new \in Row
    BY <2>2, <2>3 DEF RawRecord, Request, Row
  <2>5. new.user = req[h].user /\ ret.inserted = TRUE
    OBVIOUS
  <2>6. PICK i0 \in Ids : i0 = r.id
    BY <2>3 DEF RawRecord
  <2> HIDE DEF new, ret
  <2> QED
    BY <2>1, <2>2, <2>4, <2>5, <2>6, WrittenRowKeeps
<1>6. ASSUME NEW h \in Handlers, UpdateRow(h) PROVE PendingReplaces'
  <2> DEFINE r   == Record(h)
             old == rows[r.id]
             new == [old EXCEPT !.rev = r.rev, !.inputs = r.inputs,
                       !.deleted = r.deleted, !.seq = seq',
                       !.base = NewBase(r, old)]
             ret == [seq |-> seq', inserted |-> FALSE]
  <2>1. /\ NextRecord(h) /\ pc[h] = "conflict" /\ old # NULL /\ old.rev < r.rev
        /\ seq' = seq + 1
        /\ WriteRow(h, r.id, new) /\ returned' = [returned EXCEPT ![h][r.id] = ret]
    BY <1>6 DEF UpdateRow, Newer, NextRecord, Goto, SetServerSeq
  <2>2. seq \in Nat /\ seq' \in Nat /\ ret \in Returning
    BY <2>1 DEF TypeOK, DbTypeOK, Returning
  <2>3. r \in RawRecord
    BY <2>1, RecordType
  <2>4. old \in Row /\ old.seq <= seq
    BY <2>1, <2>3 DEF RawRecord, TypeOK, DbTypeOK, SeqBounds
  <2>5. new \in Row
    BY <2>2, <2>3, <2>4 DEF NewBase, RawRecord, Row
  <2>6. Replaces(new, old)
    BY <2>1, <2>2, <2>4 DEF Replaces, Row
  <2>7. ret.inserted = FALSE
    OBVIOUS
  <2>8. PICK i0 \in Ids : i0 = r.id
    BY <2>3 DEF RawRecord
  <2> HIDE DEF new, ret
  <2> QED
    BY <2>1, <2>2, <2>5, <2>6, <2>7, <2>8, WrittenRowKeeps
<1>7. ASSUME NEW h \in Handlers, KeepRow(h) PROVE PendingReplaces'
  <2>1. /\ NextRecord(h) /\ pc[h] = "conflict" /\ lock[Record(h).id] = NULL
        /\ UNCHANGED <<pending, returned>>
    BY <1>7 DEF KeepRow, NextRecord, LockRow, Goto
  <2>2. PICK i0 \in Ids : i0 = Record(h).id
    BY <2>1, RecordType DEF RawRecord
  <2>3. pending[h][i0] = NULL /\ returned[h][i0] = NULL
    BY <2>1, <2>2, FreeRow
  <2>4. Standing(h, i0)'
    BY <2>1, <2>3 DEF Standing
  <2> QED
    BY <2>1, <2>2, <2>4, NextRecordKeeps
<1>8. ASSUME NEW h \in Handlers, CountNew(h) \/ IncrementUsage(h) PROVE PendingReplaces'
  <2>1. /\ pc[h] \in {"count", "meter"} /\ pc'[h] \in {"meter", "commit"}
        /\ \A g \in Handlers \ {h} : pc'[g] = pc[g]
        /\ UNCHANGED <<rows, lock, pending, returned, req>>
    BY <1>8 DEF CountNew, IncrementUsage, Goto, TypeOK, dbVars
  <2> QED
    BY <2>1, LocalMoveKeeps
<1>9. ASSUME NEW h \in Handlers, Commit(h) PROVE PendingReplaces'
  <2>1. /\ pc[h] = "commit" /\ pc' = [pc EXCEPT ![h] = "respond"]
        /\ CommitTransaction(h) /\ EndTransaction(h) /\ UNCHANGED <<req, returned>>
        /\ rows' = Committed(h)
    BY <1>9 DEF Commit, CommitTransaction, Goto
  <2>2. pc'[h] = "respond" /\ \A g \in Handlers \ {h} : pc'[g] = pc[g]
    BY <2>1 DEF TypeOK
  <2>3. /\ pending'[h] = NoWrites
        /\ \A s \in Sessions \ {h} : pending'[s] = pending[s]
    BY <2>1, PushAssumption DEF EndTransaction, TypeOK, DbTypeOK
  <2>4. ASSUME NEW g \in Handlers, pc'[g] \in OpenPhases, NEW i \in Ids
        PROVE  Standing(g, i)'
    <3>1. g # h /\ pc[g] \in OpenPhases
      BY <2>2, <2>4
    <3>2. lock[i] = g => pending[h][i] = NULL
      BY <2>1, <3>1, SessionAssumption DEF PendingReplaces, Standing
    <3>3. lock[i] = g => rows'[i] = rows[i]
      BY <2>1, <3>2 DEF Committed
    <3> QED
      BY <2>1, <3>1, <3>3, EndTransactionFrame
  <2>5. \A g \in Handlers : pc'[g] \notin OpenPhases => pending'[g] = NoWrites
    BY <2>2, <2>3, PushAssumption DEF PendingReplaces
  <2>6. \A g \in Handlers : pc'[g] \in {"idle", "select"} => returned'[g] = NothingReturned
    BY <2>1, <2>2 DEF PendingReplaces
  <2>7. NoWrites' = NoWrites /\ NothingReturned' = NothingReturned
    BY DEF NoWrites, NothingReturned
  <2> QED
    BY <2>4, <2>5, <2>6, <2>7 DEF PendingReplaces
<1>10. ASSUME NEW h \in Handlers, Respond(h) \/ RespondError(h) PROVE PendingReplaces'
  <2>1. /\ EndRequest(h) /\ UNCHANGED <<rows, lock, pending>>
        /\ pc[h] \in {"respond", "data_error"}
    BY <1>10 DEF Respond, RespondError, dbVars
  <2> QED
    BY <2>1, <1>a, LocalMoveKeeps
<1>11. ASSUME NEW h \in Handlers, Abort(h) \/ CancelDeadlocked(h, PushWaitsFor)
       PROVE  PendingReplaces'
  <2>1. Rollback(h) /\ EndRequest(h)
    BY <1>11 DEF Abort, CancelDeadlocked
  <2> QED
    BY <2>1, <1>a, RollbackKeeps
<1>12. CASE NextMonth \/ UNCHANGED vars
  BY <1>12 DEF NextMonth, vars, dbVars, pushVars, PendingReplaces, Standing, Replaces,
       NoWrites, NothingReturned
<1>13. QED
  BY <1>1, <1>2, <1>3, <1>4, <1>5, <1>6, <1>7, <1>8, <1>9, <1>10, <1>11, <1>12
     DEF Next, Step, Served

(* The inductive invariant of the safety theorems. *)
SafeInv == TypeOK /\ SeqBounds /\ PendingReplaces

LEMMA SafeInvariant == Spec => []SafeInv
<1>1. Init => SafeInv
  BY TypeInit, SeqBoundsInit, PendingInit DEF SafeInv
<1>2. SafeInv /\ [Next]_vars => SafeInv'
  BY TypeStep, SeqBoundsStep, PendingStep DEF SafeInv
<1>3. QED
  BY <1>1, <1>2, PTL DEF Spec

(* At every moment the uncommitted version of a row is the only one, its   *)
(* writer holds the row, it is newer than the committed version in         *)
(* revision and in server_seq, and RETURNING called it an insert exactly   *)
(* when there is no committed version: whatever runs concurrently, what an *)
(* upsert decided about a record is still right when it commits.           *)
THEOREM WritesStand == Spec => []PendingReplaces
<1>1. SafeInv => PendingReplaces
  BY DEF SafeInv
<1>2. QED
  BY <1>1, SafeInvariant, PTL

-----------------------------------------------------------------------------
(* Last writer wins. *)

(* Only a commit changes the committed rows. *)
LEMMA OnlyCommitWrites ==
  ASSUME Next, rows' # rows
  PROVE  \E h \in Handlers : Commit(h)
BY ZenonT(30) DEF Next, Step, Begin, SelectOwners, FireInsertTrigger, StatementFails, InsertRow,
       UpdateRow, KeepRow, NextRecord, CountNew, IncrementUsage, Respond, RespondError,
       Abort, CancelDeadlocked, NextMonth, Served, Rollback, vars, dbVars

LEMMA CommitReplaces ==
  ASSUME SafeInv, NEW h \in Handlers, Commit(h), NEW i \in Ids, rows'[i] # rows[i]
  PROVE  /\ rows'[i] = pending[h][i] /\ rows'[i] # NULL
         /\ rows[i] # NULL => Replaces(rows'[i], rows[i])
<1>1. pc[h] = "commit" /\ rows' = Committed(h)
  BY DEF Commit, CommitTransaction, Goto
<1>2. Standing(h, i)
  BY <1>1 DEF SafeInv, PendingReplaces, OpenPhases
<1>3. rows'[i] = pending[h][i] /\ pending[h][i] # NULL
  BY <1>1 DEF Committed
<1>4. QED
  BY <1>2, <1>3 DEF Standing

(* No interleaving of pushes moves a committed row back: every change of a *)
(* row is to a higher revision and a higher server_seq, and keeps owner,   *)
(* device and creation time.                                               *)
THEOREM RowsMoveForward == Spec => LastWriterWins
<1> DEFINE Forward == \A i \in Ids : rows'[i] # rows[i] =>
                        /\ rows'[i] # NULL
                        /\ rows[i] # NULL => Replaces(rows'[i], rows[i])
<1>1. SafeInv /\ [Next]_vars => [Forward]_rows
  <2> SUFFICES ASSUME SafeInv, [Next]_vars, rows' # rows PROVE Forward
    OBVIOUS
  <2>1. Next
    BY DEF vars, dbVars
  <2>2. PICK h \in Handlers : Commit(h)
    BY <2>1, OnlyCommitWrites
  <2> QED
    BY <2>2, CommitReplaces
<1>2. QED
  BY <1>1, SafeInvariant, PTL DEF Spec, LastWriterWins

-----------------------------------------------------------------------------
(* Metering. *)

(* A handler about to commit has a usage period exactly if it inserted.    *)
PeriodChosen ==
  \A h \in Handlers :
    /\ pc[h] = "meter" => NewIds(h) # {} /\ period[h] \in Periods
    /\ pc[h] = "commit" => IF NewIds(h) = {} THEN period[h] = NULL
                                             ELSE period[h] \in Periods

LEMMA PeriodChosenInit == Init => PeriodChosen
BY DEF Init, PeriodChosen

LEMMA PeriodChosenStep == TypeOK /\ PeriodChosen /\ [Next]_vars => PeriodChosen'
<1> SUFFICES ASSUME TypeOK, PeriodChosen, [Next]_vars PROVE PeriodChosen'
  OBVIOUS
<1>1. ASSUME NEW h \in Handlers, pc'[h] \notin {"meter", "commit"},
             \A g \in Handlers \ {h} : /\ pc'[g] = pc[g] /\ period'[g] = period[g]
                                       /\ returned'[g] = returned[g]
      PROVE  PeriodChosen'
  BY <1>1 DEF PeriodChosen, NewIds
<1>2. ASSUME NEW h \in Handlers, EndRequest(h) PROVE PeriodChosen'
  BY <1>1, <1>2 DEF EndRequest, TypeOK
<1>3. ASSUME NEW h \in Handlers,
             \/ Begin(h) \/ SelectOwners(h) \/ FireInsertTrigger(h)
             \/ StatementFails(h) \/ Commit(h)
      PROVE  PeriodChosen'
  BY <1>1, <1>3 DEF Begin, SelectOwners, FireInsertTrigger, StatementFails, Commit,
       Goto, TypeOK
<1>4. ASSUME NEW h \in Handlers, InsertRow(h) \/ UpdateRow(h) \/ KeepRow(h)
      PROVE  PeriodChosen'
  BY <1>1, <1>4 DEF InsertRow, UpdateRow, KeepRow, NextRecord, Goto, TypeOK
<1>5. ASSUME NEW h \in Handlers, CountNew(h) PROVE PeriodChosen'
  BY <1>5 DEF CountNew, Goto, TypeOK, PeriodChosen, NewIds
<1>6. ASSUME NEW h \in Handlers, IncrementUsage(h) PROVE PeriodChosen'
  BY <1>6 DEF IncrementUsage, Goto, TypeOK, PeriodChosen, NewIds
<1>7. ASSUME NEW h \in Handlers,
             \/ Respond(h) \/ RespondError(h) \/ Abort(h)
             \/ CancelDeadlocked(h, PushWaitsFor)
      PROVE  PeriodChosen'
  BY <1>2, <1>7 DEF Respond, RespondError, Abort, CancelDeadlocked
<1>8. CASE NextMonth \/ UNCHANGED vars
  BY <1>8 DEF NextMonth, vars, pushVars, PeriodChosen, NewIds
<1>9. QED
  BY <1>3, <1>4, <1>5, <1>6, <1>7, <1>8 DEF Next, Step, Served

(* The rows a user's counter stands for. *)
CountedRows(u, p) == {i \in RowsOf(u) : landed[i] = p}

LEMMA CommitCounts ==
  ASSUME SafeInv, PeriodChosen, NEW h \in Handlers, Commit(h),
         NEW u \in Users, NEW p \in Periods
  PROVE  IF u = req[h].user /\ p = period[h]
         THEN /\ CountedRows(u, p)' = CountedRows(u, p) \cup NewIds(h)
              /\ CountedRows(u, p) \cap NewIds(h) = {}
         ELSE CountedRows(u, p)' = CountedRows(u, p)
<1>1. /\ pc[h] = "commit" /\ rows' = Committed(h)
      /\ \A i \in Ids : landed'[i] = IF i \in NewIds(h) THEN period[h] ELSE landed[i]
  BY DEF Commit, CommitTransaction, Goto
<1>2. \A i \in Ids : Standing(h, i)
  BY <1>1 DEF SafeInv, PendingReplaces, OpenPhases
<1>3. ASSUME NEW i \in NewIds(h)
      PROVE  /\ i \in Ids /\ rows[i] = NULL /\ rows'[i] # NULL
             /\ rows'[i].user = req[h].user /\ landed'[i] = period[h]
  BY <1>1, <1>2, <1>3 DEF NewIds, Standing, Committed
<1>4. ASSUME NEW i \in Ids \ NewIds(h)
      PROVE  /\ rows'[i] = NULL <=> rows[i] = NULL
             /\ rows[i] # NULL => rows'[i].user = rows[i].user
             /\ landed'[i] = landed[i]
  BY <1>1, <1>2, <1>4 DEF NewIds, Standing, Committed, Replaces
<1>5. CountedRows(u, p)' = {i \in Ids : /\ rows'[i] # NULL
                                        /\ rows'[i].user = u /\ landed'[i] = p}
  BY DEF CountedRows, RowsOf
<1>6. CountedRows(u, p) = {i \in Ids : /\ rows[i] # NULL
                                       /\ rows[i].user = u /\ landed[i] = p}
  BY DEF CountedRows, RowsOf
<1>7. CASE u = req[h].user /\ p = period[h]
  BY <1>3, <1>4, <1>5, <1>6, <1>7
<1>8. CASE ~ (u = req[h].user /\ p = period[h])
  BY <1>3, <1>4, <1>5, <1>6, <1>8
<1>9. QED
  BY <1>7, <1>8

LEMMA MeteringStep ==
  SafeInv /\ PeriodChosen /\ MeteringExact /\ [Next]_vars => MeteringExact'
<1> SUFFICES ASSUME SafeInv, PeriodChosen, MeteringExact, [Next]_vars
             PROVE  MeteringExact'
  OBVIOUS
<1>1. CASE UNCHANGED <<rows, usage, landed>>
  BY <1>1 DEF MeteringExact, RowsOf
<1>2. ASSUME NEW h \in Handlers, Commit(h) PROVE MeteringExact'
  <2> SUFFICES ASSUME NEW u \in Users, NEW p \in Periods
               PROVE  usage'[u][p] = Cardinality(CountedRows(u, p)')
    BY DEF MeteringExact, CountedRows
  <2>1. usage[u][p] = Cardinality(CountedRows(u, p)) /\ usage \in [Users -> [Periods -> Nat]]
    BY DEF MeteringExact, CountedRows, SafeInv, TypeOK
  <2>2. IsFiniteSet(NewIds(h)) /\ IsFiniteSet(CountedRows(u, p))
    BY PushAssumption, FS_Subset DEF NewIds, CountedRows, RowsOf
  <2>3. usage' = IF period[h] = NULL THEN usage
                 ELSE [usage EXCEPT ![req[h].user][period[h]] =
                         @ + Cardinality(NewIds(h))]
    BY <1>2 DEF Commit
  <2>4. NULL \notin Periods
    BY NullAssumption, PushAssumption
  <2>5. CASE u = req[h].user /\ p = period[h]
    <3>1. /\ CountedRows(u, p)' = CountedRows(u, p) \cup NewIds(h)
          /\ CountedRows(u, p) \cap NewIds(h) = {}
      BY <1>2, <2>5, CommitCounts
    <3>2. Cardinality(CountedRows(u, p)') =
            Cardinality(CountedRows(u, p)) + Cardinality(NewIds(h))
      <4>1. Cardinality({}) = 0
        BY FS_EmptySet
      <4>2. /\ Cardinality(CountedRows(u, p)) \in Nat
            /\ Cardinality(NewIds(h)) \in Nat
        BY <2>2, FS_CardinalityType
      <4>3. Cardinality(CountedRows(u, p) \cup NewIds(h)) =
              Cardinality(CountedRows(u, p)) + Cardinality(NewIds(h)) - Cardinality({})
        BY <2>2, <3>1, FS_Union
      <4>4. Cardinality(CountedRows(u, p)') = Cardinality(CountedRows(u, p) \cup NewIds(h))
        BY <3>1
      <4> QED
        BY <4>1, <4>2, <4>3, <4>4
    <3>3. usage'[u][p] = usage[u][p] + Cardinality(NewIds(h))
      BY <2>1, <2>3, <2>4, <2>5
    <3> QED
      BY <2>1, <3>2, <3>3
  <2>6. CASE ~ (u = req[h].user /\ p = period[h])
    <3>1. CountedRows(u, p)' = CountedRows(u, p)
      BY <1>2, <2>6, CommitCounts
    <3>2. usage'[u][p] = usage[u][p]
      BY <2>1, <2>3, <2>6, SMTT(40)
    <3> QED
      BY <2>1, <3>1, <3>2
  <2> QED
    BY <2>5, <2>6
<1>3. CASE Next /\ \A h \in Handlers : ~ Commit(h)
  BY <1>1, <1>3, ZenonT(30) DEF Next, Step, Begin, SelectOwners, FireInsertTrigger, StatementFails,
       InsertRow, UpdateRow, KeepRow, NextRecord, CountNew, IncrementUsage, Respond,
       RespondError, Abort, CancelDeadlocked, EndRequest, NextMonth, Served, Rollback,
       vars, dbVars, pushVars
<1>4. CASE UNCHANGED vars
  BY <1>1, <1>4 DEF vars, dbVars, pushVars
<1>5. QED
  BY <1>2, <1>3, <1>4

LEMMA MeteringInit == Init => MeteringExact
<1> SUFFICES ASSUME Init PROVE MeteringExact
  OBVIOUS
<1>1. \A u \in Users, p \in Periods : CountedRows(u, p) = {}
  BY DEF Init, DbInit, CountedRows, RowsOf
<1>2. \A u \in Users, p \in Periods : usage[u][p] = 0
  BY DEF Init
<1>3. QED
  BY <1>1, <1>2, FS_EmptySet DEF MeteringExact, CountedRows

(* The counter of every user and month equals the number of the user's     *)
(* rows that were counted in that month, in every reachable state: no      *)
(* crash, replay, race between batches or change of month makes the        *)
(* free-tier meter count a row twice or miss one.                          *)
THEOREM MeterIsExact == Spec => []MeteringExact
<1>1. SafeInv /\ PeriodChosen /\ MeteringExact /\ [Next]_vars
        => PeriodChosen' /\ MeteringExact'
  BY PeriodChosenStep, MeteringStep DEF SafeInv
<1>2. QED
  BY <1>1, PeriodChosenInit, MeteringInit, SafeInvariant, PTL DEF Spec
=============================================================================
