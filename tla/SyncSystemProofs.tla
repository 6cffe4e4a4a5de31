-------------------------- MODULE SyncSystemProofs --------------------------
(***************************************************************************)
(* Proofs about SyncSystem: what UpsertProofs shows of push_sync alone     *)
(* still holds beside the worker's tasks and the pulls, for every number   *)
(* of handlers, tasks, clients, users and expenses; and what the clients   *)
(* that pull can rely on.                                                  *)
(*                                                                         *)
(* A step of the system is a step of SyncPush, or one of a client, which   *)
(* leaves the tables alone, or one of a task, which leaves the handlers    *)
(* alone and does one of four things to the tables (TaskEffect).           *)
(***************************************************************************)
EXTENDS SyncSystem, UpsertProofs

-----------------------------------------------------------------------------
(* The three kinds of steps. *)

PushStep == [Next]_vars /\ UNCHANGED <<pullVars, recomputeVars>>

PullStep ==
  /\ \E c \in Clients : Pull(c, OpenNumbers) \/ Receive(c) \/ LosePage(c)
  /\ UNCHANGED <<vars, recomputeVars>>

TaskAction ==
  \/ \E s \in Tasks : DropTask(s)
  \/ \E s \in Sweepers : \/ \E u \in Users \cup {NULL} : StartSweep(s, u)
                         \/ SweepStep(s)
  \/ \E s \in Rearmers : StartRearm(s) \/ RearmStep(s)
  \/ IngestSucceeds
  \/ RatesArrive
  \/ \E u \in Users : ChangeBaseCurrency(u)

TaskStep == TaskAction /\ UNCHANGED <<pushVars, pullVars>>

(* Whoever else waits, a handler that waits in a cycle waits for a lock:   *)
(* cancelling it is one of its ways to abort.                              *)
LEMMA VictimAborts ==
  ASSUME NEW h \in Handlers, CancelDeadlocked(h, WaitsFor)
  PROVE  Abort(h)
<1>1. PICK S \in SUBSET Sessions : h \in S /\ {WaitsFor[t] : t \in S} = S
  BY DEF CancelDeadlocked, Deadlocked
<1>2. WaitsFor[h] \in Sessions
  BY <1>1
<1>3. WaitsFor[h] = PushWaitsFor[h] /\ h \in Sessions
  BY SystemAssumption, PushAssumption DEF WaitsFor
<1>4. pc[h] = "conflict"
  BY <1>2, <1>3, SessionAssumption DEF PushWaitsFor
<1>5. QED
  BY <1>4 DEF CancelDeadlocked, Abort

LEMMA StepKinds == [SystemNext]_systemVars => PushStep \/ PullStep \/ TaskStep
<1> SUFFICES ASSUME [SystemNext]_systemVars PROVE PushStep \/ PullStep \/ TaskStep
  OBVIOUS
<1>1. CASE PushNext
  BY <1>1, VictimAborts DEF PushNext, PushStep, Next, Step
<1>2. CASE CutOff
  <2>1. CASE \E h \in Handlers : Abort(h) /\ UNCHANGED <<pullVars, recomputeVars>>
    BY <2>1 DEF PushStep, Next
  <2>2. CASE \E s \in Tasks : AbortTask(s) /\ UNCHANGED <<pushVars, pullVars>>
    BY <2>2 DEF TaskStep, TaskAction, AbortTask
  <2>3. QED
    BY <1>2, <2>1, <2>2 DEF CutOff
<1>3. CASE PullNext
  <2>1. ASSUME NEW c \in Clients, Pull(c, OpenNumbers) \/ Receive(c) \/ LosePage(c)
        PROVE  UNCHANGED dbVars
    BY <2>1 DEF Pull, Receive, LosePage
  <2>2. QED
    BY <1>3, <2>1 DEF PullNext, PullStep, vars
<1>4. CASE TaskNext
  BY <1>4 DEF TaskNext, TaskStep, TaskAction
<1>5. CASE UNCHANGED systemVars
  BY <1>5 DEF systemVars, PushStep
<1>6. QED
  BY <1>1, <1>2, <1>3, <1>4, <1>5 DEF SystemNext, Quiet

-----------------------------------------------------------------------------
(* What a task does to the tables. *)

(* The versions a task writes: another amount in the base currency and a   *)
(* later number, all else as it was.                                       *)
Restamps(new, old) ==
  /\ new \in Row
  /\ new.seq > old.seq
  /\ new.user = old.user /\ new.device = old.device /\ new.rev = old.rev
  /\ new.inputs = old.inputs /\ new.deleted = old.deleted
  /\ new.created = old.created

(* What session s has written and not committed. *)
OnlyRestamps(s) ==
  \A i \in Ids : pending[s][i] # NULL =>
    lock[i] = s /\ rows[i] # NULL /\ Restamps(pending[s][i], rows[i])

WritesOne(s) ==
  \E i \in Ids, b \in Base \cup {NULL} :
    /\ rows[i] # NULL
    /\ LockRow(s, i)
    /\ SetServerSeq
    /\ WriteRow(s, i, [rows[i] EXCEPT !.base = b, !.seq = seq'])
    /\ UNCHANGED rows

LocksOne(s) == \E i \in Ids : LockRow(s, i) /\ UNCHANGED <<rows, seq, pending>>

TaskEffect(s) ==
  WritesOne(s) \/ LocksOne(s) \/ CommitTransaction(s) \/ Rollback(s)

LEMMA Written ==
  ASSUME SafeInv, NEW i \in Ids, rows[i] # NULL, NEW b \in Base \cup {NULL},
         seq' = seq + 1
  PROVE  LET new == [rows[i] EXCEPT !.base = b, !.seq = seq']
         IN  Restamps(new, rows[i]) /\ new.seq = seq + 1 /\ new # NULL
<1> DEFINE old == rows[i]
           new == [old EXCEPT !.base = b, !.seq = seq']
<1>1. old \in Row /\ old.seq <= seq /\ old.seq \in Nat /\ seq \in Nat /\ seq' \in Nat
  BY DEF SafeInv, SeqBounds, TypeOK, DbTypeOK, Row
<1>2. new \in Row
  BY <1>1 DEF Row
<1>3. new # NULL
  BY <1>2, NullAssumption
<1>4. QED
  BY <1>1, <1>2, <1>3 DEF Restamps, Row

(* The same, as the tables show it. *)
LEMMA WritesOneFacts ==
  ASSUME SafeInv, NEW s \in Sessions, WritesOne(s)
  PROVE  \E i \in Ids, new \in Row :
           /\ rows[i] # NULL /\ lock[i] = NULL /\ lock' = [lock EXCEPT ![i] = s]
           /\ rows' = rows /\ seq' = seq + 1
           /\ new # NULL /\ new.seq = seq + 1 /\ Restamps(new, rows[i])
           /\ pending' = [pending EXCEPT ![s][i] = new]
<1>1. PICK i \in Ids, b \in Base \cup {NULL} :
        /\ rows[i] # NULL
        /\ LockRow(s, i)
        /\ SetServerSeq
        /\ WriteRow(s, i, [rows[i] EXCEPT !.base = b, !.seq = seq'])
        /\ UNCHANGED rows
  BY DEF WritesOne
<1> DEFINE new == [rows[i] EXCEPT !.base = b, !.seq = seq']
<1>2. Restamps(new, rows[i]) /\ new.seq = seq + 1 /\ new # NULL
  BY <1>1, Written DEF SetServerSeq
<1>3. pending' = [pending EXCEPT ![s][i] = new]
  BY <1>1 DEF WriteRow
<1>4. new \in Row
  BY <1>2 DEF Restamps
<1> HIDE DEF new
<1>5. QED
  BY <1>1, <1>2, <1>3, <1>4 DEF LockRow, SetServerSeq

LEMMA TaskKeepsOthers ==
  ASSUME SafeInv, NEW s \in Sessions, OnlyRestamps(s), TaskEffect(s),
         NEW g \in Sessions \ {s}
  PROVE  Kept(g)
<1> USE DEF SafeInv, TypeOK, DbTypeOK
<1>1. CASE WritesOne(s)
  BY <1>1, WritesOneFacts, SessionAssumption DEF Kept
<1>2. CASE LocksOne(s)
  BY <1>2, SessionAssumption DEF LocksOne, LockRow, Kept
<1>3. ASSUME EndTransaction(s)
      PROVE  /\ pending'[g] = pending[g]
             /\ \A i \in Ids : lock[i] = g => lock'[i] = g
  BY <1>3 DEF EndTransaction
<1>4. CASE Rollback(s)
  BY <1>3, <1>4 DEF Rollback, Kept
<1>5. CASE CommitTransaction(s)
  <2>1. \A i \in Ids : lock[i] = g => rows'[i] = rows[i]
    BY <1>5 DEF CommitTransaction, Committed, OnlyRestamps
  <2>2. QED
    BY <1>3, <1>5, <2>1 DEF CommitTransaction, Kept
<1>6. QED
  BY <1>1, <1>2, <1>4, <1>5 DEF TaskEffect

(* The committed rows after it. *)
LEMMA TaskRows ==
  ASSUME SafeInv, NEW s \in Sessions, OnlyRestamps(s), TaskEffect(s), NEW i \in Ids
  PROVE  \/ rows'[i] = rows[i]
         \/ /\ rows[i] # NULL /\ rows'[i] # NULL
            /\ lock[i] = s /\ rows'[i] = pending[s][i]
            /\ Restamps(rows'[i], rows[i])
<1>1. CASE WritesOne(s) \/ LocksOne(s) \/ Rollback(s)
  BY <1>1 DEF WritesOne, LocksOne, Rollback
<1>2. CASE CommitTransaction(s)
  BY <1>2 DEF CommitTransaction, Committed, OnlyRestamps
<1>3. QED
  BY <1>1, <1>2 DEF TaskEffect

LEMMA TaskKeepsItself ==
  ASSUME SafeInv, NEW s \in Sessions, OnlyRestamps(s), TaskEffect(s)
  PROVE  OnlyRestamps(s)'
<1> USE DEF SafeInv, TypeOK, DbTypeOK
<1>1. CASE WritesOne(s)
  BY <1>1, WritesOneFacts DEF OnlyRestamps, Restamps
<1>2. CASE LocksOne(s)
  BY <1>2, SessionAssumption DEF LocksOne, LockRow, OnlyRestamps, Restamps
<1>3. CASE CommitTransaction(s) \/ Rollback(s)
  <2>1. pending'[s] = NoWrites
    BY <1>3 DEF CommitTransaction, Rollback, EndTransaction
  <2>2. QED
    BY <2>1 DEF OnlyRestamps, NoWrites
<1>4. QED
  BY <1>1, <1>2, <1>3 DEF TaskEffect

LEMMA KeptKeeps ==
  ASSUME NEW g \in Sessions, OnlyRestamps(g), Kept(g)
  PROVE  OnlyRestamps(g)'
BY DEF OnlyRestamps, Restamps, Kept

-----------------------------------------------------------------------------
(* A task leaves what the push proofs know as it was. *)

(* The session of a task, at a step that leaves the handlers alone. *)
TaskMoves(s) ==
  s \in Sessions \ Handlers /\ OnlyRestamps(s) /\ TaskEffect(s) /\ UNCHANGED pushVars

LEMMA TaskKeepsType ==
  ASSUME SafeInv, NEW s, TaskMoves(s)
  PROVE  TypeOK'
<1>0. s \in Sessions /\ TaskEffect(s)
  BY DEF TaskMoves
<1>1. DbTypeOK'
  <2>1. CASE WritesOne(s)
    <3>1. PICK i \in Ids, new \in Row :
            /\ lock' = [lock EXCEPT ![i] = s] /\ rows' = rows /\ seq' = seq + 1
            /\ pending' = [pending EXCEPT ![s][i] = new]
      BY <1>0, <2>1, WritesOneFacts
    <3>2. QED
      BY <1>0, <3>1 DEF SafeInv, TypeOK, DbTypeOK
  <2>2. CASE LocksOne(s)
    BY <1>0, <2>2 DEF LocksOne, LockRow, SafeInv, TypeOK, DbTypeOK
  <2>3. CASE CommitTransaction(s) \/ Rollback(s)
    BY <1>0, <2>3, DbTransactionTypes DEF SafeInv, TypeOK
  <2>4. QED
    BY <1>0, <2>1, <2>2, <2>3 DEF TaskEffect
<1>2. QED
  BY <1>1 DEF SafeInv, TypeOK, TaskMoves, pushVars

LEMMA TaskKeepsSeqBounds ==
  ASSUME SafeInv, NEW s, TaskMoves(s)
  PROVE  SeqBounds'
<1>w. WritesOne(s) =>
        \E i \in Ids, new \in Row :
          /\ rows' = rows /\ seq' = seq + 1
          /\ new.seq = seq + 1 /\ pending' = [pending EXCEPT ![s][i] = new]
  BY WritesOneFacts DEF TaskMoves
<1> USE DEF SafeInv, TaskMoves
<1>1. CASE WritesOne(s)
  <2>1. /\ rows' = rows /\ stamp' = stamp /\ seq' = seq + 1 /\ seq \in Nat
        /\ \A t \in Sessions, i \in Ids :
             pending'[t][i] = pending[t][i] \/ pending'[t][i].seq = seq + 1
    BY <1>1, <1>w DEF TypeOK, DbTypeOK, pushVars
  <2>2. \A i \in Ids : rows[i] # NULL => rows[i].seq \in Nat
    BY DEF TypeOK, DbTypeOK, Row
  <2>3. \A t \in Sessions, i \in Ids : pending[t][i] # NULL => pending[t][i].seq \in Nat
    BY DEF TypeOK, DbTypeOK, Row
  <2>4. \A h \in Handlers : stamp[h] \in Nat
    BY DEF TypeOK
  <2>5. QED
    BY <2>1, <2>2, <2>3, <2>4 DEF SeqBounds
<1>2. CASE LocksOne(s)
  BY <1>2 DEF LocksOne, SeqBounds, pushVars
<1>3. CASE CommitTransaction(s) \/ Rollback(s)
  <2>1. seq' = seq /\ stamp' = stamp
    BY <1>3 DEF CommitTransaction, Rollback, pushVars
  <2>2. \A i \in Ids : rows'[i] = rows[i] \/ rows'[i] = pending[s][i]
    BY TaskRows
  <2>3. \A t \in Sessions : pending'[t] = pending[t] \/ pending'[t] = NoWrites
    BY <1>3 DEF CommitTransaction, Rollback, EndTransaction, TypeOK, DbTypeOK
  <2>4. QED
    BY <2>1, <2>2, <2>3, SeqBoundsSameNumbers
<1>4. QED
  BY <1>1, <1>2, <1>3 DEF TaskEffect

LEMMA TaskLeavesHandlers ==
  ASSUME SafeInv, NEW s, TaskMoves(s), NEW h \in Handlers
  PROVE  Untouched(h)
<1>1. Kept(h)
  BY TaskKeepsOthers, PushAssumption DEF TaskMoves
<1>2. QED
  BY <1>1 DEF Kept, Untouched, TaskMoves, pushVars

LEMMA TaskKeepsPending ==
  ASSUME SafeInv, NEW s, TaskMoves(s)
  PROVE  PendingReplaces'
<1>1. \A h \in Handlers : Untouched(h)
  BY TaskLeavesHandlers
<1>2. \A h \in Handlers : pc'[h] \in OpenPhases => \A i \in Ids : Standing(h, i)'
  BY <1>1, StandingFrame DEF SafeInv, PendingReplaces, Untouched
<1>3. NoWrites' = NoWrites /\ NothingReturned' = NothingReturned
  BY DEF NoWrites, NothingReturned
<1>4. QED
  BY <1>1, <1>2, <1>3 DEF SafeInv, PendingReplaces, Untouched

LEMMA TaskKeepsSafe ==
  ASSUME SafeInv, NEW s, TaskMoves(s)
  PROVE  SafeInv'
BY TaskKeepsType, TaskKeepsSeqBounds, TaskKeepsPending DEF SafeInv

LEMMA TaskKeepsProgress ==
  ASSUME SafeInv, AllProgress, NEW s, TaskMoves(s)
  PROVE  AllProgress'
<1>1. ASSUME NEW h \in Handlers PROVE Progress(h)'
  BY TaskLeavesHandlers, UntouchedKeeps DEF AllProgress, SafeInv
<1>2. QED
  BY <1>1 DEF AllProgress

LEMMA TaskKeepsPeriod ==
  ASSUME PeriodChosen, NEW s, TaskMoves(s)
  PROVE  PeriodChosen'
BY DEF TaskMoves, pushVars, PeriodChosen, NewIds

(* A task neither adds nor removes a row, and moves none to another user.  *)
LEMMA TaskKeepsMetering ==
  ASSUME SafeInv, MeteringExact, NEW s, TaskMoves(s)
  PROVE  MeteringExact'
<1>1. \A i \in Ids : \/ rows'[i] = rows[i]
                     \/ rows[i] # NULL /\ rows'[i] # NULL /\ rows'[i].user = rows[i].user
  BY TaskRows DEF TaskMoves, Restamps
<1>2. \A u : RowsOf(u)' = RowsOf(u)
  BY <1>1 DEF RowsOf
<1>3. usage' = usage /\ landed' = landed
  BY DEF TaskMoves, pushVars
<1>4. \A u, p : {i \in RowsOf(u) : landed[i] = p}' = {i \in RowsOf(u) : landed[i] = p}
  BY <1>2, <1>3
<1>5. QED
  BY <1>3, <1>4 DEF MeteringExact

(* The store does not see what a task changes. *)
LEMMA TaskKeepsStore ==
  ASSUME SafeInv, NEW s, TaskMoves(s)
  PROVE  UNCHANGED <<[i \in Ids |-> Version(rows[i])], usage,
                     [h \in Handlers |-> Accepted(h)]>>
<1>1. \A i \in Ids : Version(rows'[i]) = Version(rows[i])
  BY TaskRows DEF TaskMoves, Restamps, Version
<1>2. \A h \in Handlers : Accepted(h)' = Accepted(h)
  BY AcceptedStays DEF TaskMoves, pushVars
<1>3. QED
  BY <1>1, <1>2 DEF TaskMoves, pushVars, Version

LEMMA TaskKeepsAcked ==
  ASSUME SafeInv, AckInv, NEW s, TaskMoves(s)
  PROVE  AckInv'
<1>1. \A i \in Ids : rows[i] # NULL => rows'[i] # NULL /\ rows'[i].rev = rows[i].rev
  BY TaskRows DEF TaskMoves, Restamps
<1>2. \A h \in Handlers : \A k \in valid[h] : req[h].batch[k].id \in Ids
  BY ValidFacts DEF SafeInv, RawRecord
<1>3. SettledReached'
  BY <1>1, <1>2 DEF AckInv, SettledReached, Reached, TaskMoves, pushVars
<1>4. AckedDurable'
  BY <1>1 DEF AckInv, AckedDurable, TaskMoves, pushVars
<1>5. QED
  BY <1>3, <1>4 DEF AckInv

LEMMA TaskKeepsApart ==
  ASSUME SafeInv, SeqsApart, NEW s, TaskMoves(s)
  PROVE  SeqsApart'
<1>w. WritesOne(s) =>
        \E i \in Ids, new \in Row :
          /\ lock[i] = NULL /\ lock' = [lock EXCEPT ![i] = s] /\ rows' = rows
          /\ new.seq = seq + 1 /\ pending' = [pending EXCEPT ![s][i] = new]
  BY WritesOneFacts DEF TaskMoves
<1>v. \A i \in Ids : rows'[i] \in Versions(i)
  BY TaskRows DEF TaskMoves, Versions
<1>u. \A i \in Ids : \A v \in Versions(i) \ {NULL} : v.seq # seq + 1
  BY VersionsBelow DEF SafeInv, TypeOK, DbTypeOK
<1> USE DEF SafeInv, TypeOK, DbTypeOK, TaskMoves
<1>1. \A g \in Handlers : pc'[g] = pc[g] /\ stamp'[g] = stamp[g]
  BY DEF pushVars
<1>2. CASE WritesOne(s)
  <2>1. PICK j \in Ids, new \in Row :
          /\ lock[j] = NULL /\ lock' = [lock EXCEPT ![j] = s] /\ rows' = rows
          /\ new.seq = seq + 1 /\ pending' = [pending EXCEPT ![s][j] = new]
    BY <1>2, <1>w
  <2>2. \A i \in Ids \ {j} : Versions(i)' \subseteq Versions(i) \cup {NULL}
    <3>1. \A i \in Ids \ {j} : /\ lock'[i] = lock[i]
                               /\ \A t \in Sessions : pending'[t][i] = pending[t][i]
      BY <2>1
    <3>2. QED
      BY <2>1, <3>1 DEF Versions
  <2>3. \A v \in Versions(j)' \ {NULL} : v \in Versions(j) \/ v.seq = seq + 1
    BY <2>1 DEF Versions
  <2>4. \A h \in Handlers : stamp[h] # seq + 1
    BY DEF SeqBounds
  <2>5. PICK n : n = seq + 1
    OBVIOUS
  <2>6. /\ \A v \in Versions(j)' \ {NULL} : v \in Versions(j) \/ v.seq = n
        /\ \A i \in Ids \ {j} : \A v \in Versions(i) \ {NULL} : v.seq # n
    BY <1>u, <2>3, <2>5
  <2>7. \A h \in Handlers : pc'[h] = "conflict" =>
          pc[h] = "conflict" /\ stamp'[h] = stamp[h] /\ stamp[h] # n
    BY <1>1, <2>4, <2>5
  <2> HIDE DEF SafeInv, TypeOK, DbTypeOK, TaskMoves
  <2>8. QED
    BY <2>2, <2>6, <2>7, ApartGrows
<1>3. CASE ~ WritesOne(s)
  <2>1. ASSUME NEW i \in Ids, NEW t \in Sessions, lock'[i] = t
        PROVE  \/ lock[i] = t /\ pending'[t][i] = pending[t][i]
               \/ pending'[t][i] = NULL
    <3>1. CASE LocksOne(s)
      BY <2>1, <3>1 DEF LocksOne, LockRow, OnlyRestamps
    <3>2. CASE CommitTransaction(s) \/ Rollback(s)
      BY <2>1, <3>2, SessionAssumption
         DEF CommitTransaction, Rollback, EndTransaction
    <3>3. QED
      BY <1>3, <3>1, <3>2 DEF TaskEffect
  <2>2. \A i \in Ids : Versions(i)' \subseteq Versions(i) \cup {NULL}
    BY <1>v, <2>1, VersionsRemain
  <2>3. QED
    BY <1>1, <2>2, ApartShrinks
<1>4. QED
  BY <1>2, <1>3

-----------------------------------------------------------------------------
(* The tasks. *)

(* The rows a task still has to handle exist: rows are never removed.  A   *)
(* task that is about to handle one has one, and an idle task has written  *)
(* nothing.                                                                *)
TodoExists ==
  /\ \A s \in Sweepers : \A n \in DOMAIN todo[s] : rows[todo[s][n].id] # NULL
  /\ \A s \in Rearmers : \A n \in DOMAIN todo[s] : rows[todo[s][n]] # NULL

TaskInv ==
  /\ todo \in [Tasks -> Seq(Selected) \cup Seq(Ids)]
  /\ TodoExists
  /\ \A s \in Tasks : task[s] \in {"convert", "update", "null"} => todo[s] # <<>>
  /\ \A s \in Tasks : task[s] = "idle" => pending[s] = NoWrites
  /\ \A s \in Tasks : OnlyRestamps(s)

TasksTyped == RecomputeTypeOK /\ TaskInv

LEMMA TaskSessions == \A s \in Tasks : s \in Sessions \ Handlers
BY RecomputeAssumption, SystemAssumption DEF Tasks

LEMMA HeadAndTail ==
  ASSUME NEW T, NEW q \in Seq(T), q # <<>>
  PROVE  /\ Len(q) \in Nat /\ Len(q) >= 1 /\ DOMAIN q = 1 .. Len(q)
         /\ Head(q) = q[1] /\ q[1] \in T
         /\ Tail(q) \in Seq(T) /\ DOMAIN Tail(q) = 1 .. Len(q) - 1
         /\ \A n \in 1 .. Len(q) - 1 : Tail(q)[n] = q[n + 1]
         /\ Len(q) # 1 => Tail(q) # <<>>
<1>1. Len(q) \in Nat /\ Len(q) >= 1 /\ DOMAIN q = 1 .. Len(q)
  OBVIOUS
<1>2. Head(q) = q[1] /\ q[1] \in T
  BY <1>1
<1>3. /\ Tail(q) \in Seq(T) /\ Len(Tail(q)) = Len(q) - 1
      /\ \A n \in 1 .. Len(q) - 1 : Tail(q)[n] = q[n + 1]
  BY <1>1
<1>4. DOMAIN Tail(q) = 1 .. Len(q) - 1
  BY <1>3
<1>5. Len(q) # 1 => Tail(q) # <<>>
  BY <1>1, <1>3
<1>6. QED
  BY <1>1, <1>2, <1>3, <1>4, <1>5

LEMMA SweeperTodo ==
  ASSUME TasksTyped, NEW s \in Sweepers, todo[s] # <<>>
  PROVE  /\ Len(todo[s]) \in Nat
         /\ Head(todo[s]) \in Selected /\ rows[Head(todo[s]).id] # NULL
         /\ Tail(todo[s]) \in Seq(Selected)
         /\ \A n \in DOMAIN Tail(todo[s]) : rows[Tail(todo[s])[n].id] # NULL
         /\ Len(todo[s]) # 1 => Tail(todo[s]) # <<>>
<1>1. PICK q \in Seq(Selected) : q = todo[s]
  BY DEF TasksTyped, RecomputeTypeOK
<1>2. \A n \in DOMAIN q : rows[q[n].id] # NULL
  BY <1>1 DEF TasksTyped, TaskInv, TodoExists
<1>3. /\ Len(q) \in Nat /\ Len(q) >= 1 /\ DOMAIN q = 1 .. Len(q)
      /\ Head(q) = q[1] /\ q[1] \in Selected
      /\ Tail(q) \in Seq(Selected) /\ DOMAIN Tail(q) = 1 .. Len(q) - 1
      /\ \A n \in 1 .. Len(q) - 1 : Tail(q)[n] = q[n + 1]
      /\ Len(q) # 1 => Tail(q) # <<>>
  BY <1>1, HeadAndTail
<1>4. \A n \in 1 .. Len(q) - 1 : n + 1 \in DOMAIN q
  BY <1>3
<1>5. 1 \in DOMAIN q
  BY <1>3
<1>6. QED
  BY <1>1, <1>2, <1>3, <1>4, <1>5

LEMMA RearmerTodo ==
  ASSUME TasksTyped, NEW s \in Rearmers, todo[s] # <<>>
  PROVE  /\ Len(todo[s]) \in Nat
         /\ Head(todo[s]) \in Ids /\ rows[Head(todo[s])] # NULL
         /\ Tail(todo[s]) \in Seq(Ids)
         /\ \A n \in DOMAIN Tail(todo[s]) : rows[Tail(todo[s])[n]] # NULL
         /\ Len(todo[s]) # 1 => Tail(todo[s]) # <<>>
<1>1. PICK q \in Seq(Ids) : q = todo[s]
  BY DEF TasksTyped, RecomputeTypeOK
<1>2. \A n \in DOMAIN q : rows[q[n]] # NULL
  BY <1>1 DEF TasksTyped, TaskInv, TodoExists
<1>3. /\ Len(q) \in Nat /\ Len(q) >= 1 /\ DOMAIN q = 1 .. Len(q)
      /\ Head(q) = q[1] /\ q[1] \in Ids
      /\ Tail(q) \in Seq(Ids) /\ DOMAIN Tail(q) = 1 .. Len(q) - 1
      /\ \A n \in 1 .. Len(q) - 1 : Tail(q)[n] = q[n + 1]
      /\ Len(q) # 1 => Tail(q) # <<>>
  BY <1>1, HeadAndTail
<1>4. \A n \in 1 .. Len(q) - 1 : n + 1 \in DOMAIN q
  BY <1>3
<1>5. 1 \in DOMAIN q
  BY <1>3
<1>6. QED
  BY <1>1, <1>2, <1>3, <1>4, <1>5

(* What the actions of a task do to the tables. *)
LEMMA WriteBaseEffect ==
  ASSUME SafeInv, TasksTyped, NEW s \in Sweepers, WriteBase(s)
  PROVE  TaskEffect(s)
<1> DEFINE r == Head(todo[s])
           b == [inputs |-> r.inputs, ccy |-> r.ccy]
<1>1. task[s] = "update" /\ s \in Tasks
  BY DEF WriteBase, Tasks
<1>2. r \in Selected /\ rows[r.id] # NULL
  BY <1>1, SweeperTodo DEF TasksTyped, TaskInv
<1>3. r.id \in Ids /\ b \in Base
  BY <1>2 DEF Selected, Base
<1>4. /\ LockRow(s, r.id) /\ SetServerSeq /\ UNCHANGED rows
      /\ WriteRow(s, r.id, [rows[r.id] EXCEPT !.base = b, !.seq = seq'])
  BY DEF WriteBase
<1> HIDE DEF r, b
<1>5. QED
  BY <1>2, <1>3, <1>4 DEF WritesOne, TaskEffect

LEMMA NullBaseEffect ==
  ASSUME SafeInv, TasksTyped, NEW s \in Rearmers, NullBase(s)
  PROVE  TaskEffect(s)
<1> DEFINE i == Head(todo[s])
<1>1. task[s] = "null" /\ s \in Tasks
  BY DEF NullBase, Tasks
<1>2. i \in Ids /\ rows[i] # NULL
  BY <1>1, RearmerTodo DEF TasksTyped, TaskInv
<1>3. /\ LockRow(s, i) /\ UNCHANGED rows
      /\ \/ /\ SetServerSeq
            /\ WriteRow(s, i, [rows[i] EXCEPT !.base = NULL, !.seq = seq'])
         \/ UNCHANGED <<seq, pending>>
  BY DEF NullBase
<1> HIDE DEF i
<1>4. QED
  BY <1>2, <1>3 DEF WritesOne, LocksOne, TaskEffect

LEMMA TaskActionEffect ==
  ASSUME SafeInv, TasksTyped, TaskAction
  PROVE  UNCHANGED dbVars \/ \E s \in Tasks : TaskEffect(s)
<1>1. ASSUME NEW s \in Tasks, DropTask(s) \/ ConversionRaises(s) \/ UpdateOverflows(s)
      PROVE  TaskEffect(s)
  BY <1>1 DEF DropTask, ConversionRaises, UpdateOverflows, TaskEffect
<1>2. ASSUME NEW s \in Tasks, CommitSweep(s) \/ CommitRearm(s) PROVE TaskEffect(s)
  BY <1>2 DEF CommitSweep, CommitRearm, TaskEffect
<1>3. ASSUME NEW s, \/ \E u \in Users \cup {NULL} : StartSweep(s, u)
                    \/ Convert(s) \/ SkipUnrated(s) \/ StartRearm(s)
      PROVE  UNCHANGED dbVars
  BY <1>3 DEF StartSweep, Convert, SkipUnrated, StartRearm
<1>4. CASE IngestSucceeds \/ RatesArrive \/ \E u \in Users : ChangeBaseCurrency(u)
  BY <1>4 DEF IngestSucceeds, RatesArrive, ChangeBaseCurrency
<1>5. QED
  BY <1>1, <1>2, <1>3, <1>4, WriteBaseEffect, NullBaseEffect
     DEF TaskAction, SweepStep, RearmStep, Tasks

LEMMA TaskMovesOn ==
  ASSUME SafeInv, TasksTyped, NEW s \in Tasks, TaskEffect(s) \/ UNCHANGED dbVars,
         NEW q, NEW x \in {"idle", "convert", "update", "null", "commit"},
         task' = [task EXCEPT ![s] = x], todo' = [todo EXCEPT ![s] = q],
         s \in Sweepers => /\ q \in Seq(Selected)
                          /\ \A n \in DOMAIN q : rows[q[n].id] # NULL,
         s \in Rearmers => /\ q \in Seq(Ids)
                          /\ \A n \in DOMAIN q : rows[q[n]] # NULL,
         x \in {"convert", "update", "null"} => q # <<>>,
         x = "idle" => pending'[s] = NoWrites,
         forUser' \in [Rearmers -> Users \cup {NULL}], due' \subseteq Users,
         sweeps' \subseteq Users \cup {NULL},
         UNCHANGED <<baseCurrency, rated, changes>>
  PROVE  TasksTyped'
<1>1. s \in Sessions /\ OnlyRestamps(s)
  BY TaskSessions DEF TasksTyped, TaskInv
<1>2. \A i \in Ids : rows[i] # NULL => rows'[i] # NULL
  BY <1>1, TaskRows DEF dbVars
<1>3. \A t \in Sessions \ {s} : Kept(t)
  BY <1>1, TaskKeepsOthers DEF dbVars, Kept
<1>4. /\ todo \in [Tasks -> Seq(Selected) \cup Seq(Ids)]
      /\ task \in [Tasks -> {"idle", "convert", "update", "null", "commit"}]
      /\ todo'[s] = q /\ task'[s] = x
      /\ \A t \in Tasks \ {s} : todo'[t] = todo[t] /\ task'[t] = task[t]
  BY DEF TasksTyped, TaskInv, RecomputeTypeOK
<1>5. \A t \in Sweepers : todo'[t] \in Seq(Selected)
  BY <1>4 DEF TasksTyped, RecomputeTypeOK, Tasks
<1>6. \A t \in Rearmers : todo'[t] \in Seq(Ids)
  BY <1>4 DEF TasksTyped, RecomputeTypeOK, Tasks
<1>7. RecomputeTypeOK'
  BY <1>4, <1>5, <1>6 DEF TasksTyped, RecomputeTypeOK
<1>8. TodoExists'
  <2>1. ASSUME NEW t \in Sweepers, NEW n \in DOMAIN todo'[t]
        PROVE  rows'[todo'[t][n].id] # NULL
    <3>1. rows[todo'[t][n].id] # NULL
      BY <1>4, <2>1 DEF TasksTyped, TaskInv, TodoExists, Tasks
    <3>2. todo'[t][n] \in Selected
      BY <1>5, <2>1
    <3>3. QED
      BY <1>2, <3>1, <3>2 DEF Selected
  <2>2. ASSUME NEW t \in Rearmers, NEW n \in DOMAIN todo'[t]
        PROVE  rows'[todo'[t][n]] # NULL
    <3>1. rows[todo'[t][n]] # NULL
      BY <1>4, <2>2 DEF TasksTyped, TaskInv, TodoExists, Tasks
    <3>2. todo'[t][n] \in Ids
      BY <1>6, <2>2
    <3>3. QED
      BY <1>2, <3>1, <3>2
  <2>3. QED
    BY <2>1, <2>2 DEF TodoExists
<1>9. todo' \in [Tasks -> Seq(Selected) \cup Seq(Ids)]
  BY <1>4 DEF Tasks
<1>10. \A t \in Tasks : task'[t] \in {"convert", "update", "null"} => todo'[t] # <<>>
  BY <1>4 DEF TasksTyped, TaskInv
<1>11. \A t \in Tasks : task'[t] = "idle" => pending'[t] = NoWrites
  BY <1>3, <1>4, TaskSessions DEF TasksTyped, TaskInv, Kept
<1>12. OnlyRestamps(s)'
  BY <1>1, TaskKeepsItself DEF dbVars, OnlyRestamps, Restamps
<1>13. \A t \in Tasks : OnlyRestamps(t)'
  BY <1>3, <1>12, TaskSessions, KeptKeeps DEF TasksTyped, TaskInv
<1>14. NoWrites' = NoWrites
  BY DEF NoWrites
<1>15. QED
  BY <1>7, <1>8, <1>9, <1>10, <1>11, <1>13, <1>14 DEF TasksTyped, TaskInv

LEMMA ListingFacts ==
  ASSUME NEW S \in SUBSET Ids, NEW list \in Listings(S)
  PROVE  list \in Seq(S) /\ DOMAIN list = 1 .. Len(list) /\ Len(list) \in Nat
<1>1. Cardinality(S) \in Nat
  BY PushAssumption, FS_Subset, FS_CardinalityType
<1>2. list \in [1 .. Cardinality(S) -> S]
  BY DEF Listings
<1>3. QED
  BY <1>1, <1>2

LEMMA StartSweepKeeps ==
  ASSUME SafeInv, TasksTyped, NEW s \in Sweepers, NEW u, StartSweep(s, u)
  PROVE  TasksTyped'
<1> DEFINE S == {i \in Scope(u) : NeedsBase(i)}
<1>0. S \in SUBSET Ids /\ \A i \in S : rows[i] # NULL
  BY DEF Scope, RowsOf, NeedsBase
<1>1. PICK T \in SUBSET S : \E list \in Listings(T) :
           /\ todo' = [todo EXCEPT ![s] =
                [n \in DOMAIN list |->
                   [id     |-> list[n],
                    inputs |-> rows[list[n]].inputs,
                    ccy    |-> baseCurrency[rows[list[n]].user]]]]
           /\ task' = [task EXCEPT ![s] = IF list = <<>> THEN "commit" ELSE "convert"]
  BY DEF StartSweep
<1>2. PICK list \in Listings(T) :
           /\ todo' = [todo EXCEPT ![s] =
                [n \in DOMAIN list |->
                   [id     |-> list[n],
                    inputs |-> rows[list[n]].inputs,
                    ccy    |-> baseCurrency[rows[list[n]].user]]]]
           /\ task' = [task EXCEPT ![s] = IF list = <<>> THEN "commit" ELSE "convert"]
  BY <1>1
<1> HIDE DEF S
<1> DEFINE q == [n \in DOMAIN list |-> [id     |-> list[n],
                                       inputs |-> rows[list[n]].inputs,
                                       ccy    |-> baseCurrency[rows[list[n]].user]]]
<1>3. list \in Seq(T) /\ DOMAIN list = 1 .. Len(list) /\ Len(list) \in Nat
  <2>1. T \in SUBSET Ids
    BY <1>0
  <2>2. QED
    BY <2>1, ListingFacts
<1>4. ASSUME NEW n \in DOMAIN list
      PROVE  q[n] \in Selected /\ rows[q[n].id] # NULL
  <2>1. list[n] \in T
    BY <1>3, <1>4
  <2>2. rows[list[n]] # NULL /\ list[n] \in Ids
    BY <1>0, <2>1
  <2>3. rows[list[n]] \in Row
    BY <2>2 DEF SafeInv, TypeOK, DbTypeOK
  <2>4. rows[list[n]].inputs \in Inputs /\ baseCurrency[rows[list[n]].user] \in Currencies
    BY <2>3 DEF Row, TasksTyped, RecomputeTypeOK
  <2>5. QED
    BY <2>2, <2>4 DEF Selected
<1>5. q \in Seq(Selected)
  BY <1>3, <1>4
<1>6. list # <<>> => q # <<>>
  <2> SUFFICES ASSUME list # <<>> PROVE q # <<>>
    OBVIOUS
  <2>1. Len(list) # 0
    BY <1>3
  <2>2. 1 \in DOMAIN list
    BY <1>3, <2>1
  <2>3. DOMAIN q = DOMAIN list
    OBVIOUS
  <2>4. QED
    BY <2>2, <2>3
<1>7. \A n \in DOMAIN q : rows[q[n].id] # NULL
  BY <1>4
<1>8. todo' = [todo EXCEPT ![s] = q]
  BY <1>2
<1> HIDE DEF q
<1>9. /\ s \in Tasks /\ s \notin Rearmers
      /\ sweeps' = sweeps \ {u}
      /\ UNCHANGED <<dbVars, baseCurrency, rated, forUser, due, changes>>
  BY SystemAssumption DEF StartSweep, Tasks
<1>10. /\ forUser' \in [Rearmers -> Users \cup {NULL}] /\ due' \subseteq Users
       /\ sweeps' \subseteq Users \cup {NULL}
  BY <1>9 DEF TasksTyped, RecomputeTypeOK
<1>11. CASE list = <<>>
  <2>1. task' = [task EXCEPT ![s] = "commit"]
    BY <1>2, <1>11
  <2>2. QED
    BY <1>5, <1>7, <1>8, <1>9, <1>10, <2>1, TaskMovesOn
<1>12. CASE list # <<>>
  <2>1. task' = [task EXCEPT ![s] = "convert"]
    BY <1>2, <1>12
  <2>2. QED
    BY <1>5, <1>6, <1>7, <1>8, <1>9, <1>10, <1>12, <2>1, TaskMovesOn
<1>13. QED
  BY <1>11, <1>12

LEMMA StartRearmKeeps ==
  ASSUME SafeInv, TasksTyped, NEW s \in Rearmers, StartRearm(s)
  PROVE  TasksTyped'
<1>0. PICK u \in due :
        \E list \in Listings({i \in RowsOf(u) : rows[i].base # NULL}) :
          /\ todo' = [todo EXCEPT ![s] = list]
          /\ task' = [task EXCEPT ![s] = IF list = <<>> THEN "commit" ELSE "null"]
          /\ forUser' = [forUser EXCEPT ![s] = u]
  BY DEF StartRearm
<1>1. PICK list \in Listings({i \in RowsOf(u) : rows[i].base # NULL}) :
        /\ todo' = [todo EXCEPT ![s] = list]
        /\ task' = [task EXCEPT ![s] = IF list = <<>> THEN "commit" ELSE "null"]
        /\ forUser' = [forUser EXCEPT ![s] = u]
  BY <1>0
<1> DEFINE S == {i \in RowsOf(u) : rows[i].base # NULL}
<1>2. S \in SUBSET Ids /\ \A i \in S : rows[i] # NULL
  BY DEF RowsOf
<1> HIDE DEF S
<1>3. list \in Seq(S) /\ DOMAIN list = 1 .. Len(list) /\ Len(list) \in Nat
  BY <1>1, <1>2, ListingFacts DEF S
<1>4. list \in Seq(Ids) /\ \A n \in DOMAIN list : rows[list[n]] # NULL
  <2>1. \A n \in DOMAIN list : list[n] \in S
    BY <1>3
  <2>2. QED
    BY <1>2, <1>3, <2>1
<1>5. /\ s \in Tasks /\ s \notin Sweepers
      /\ UNCHANGED <<dbVars, baseCurrency, rated, sweeps, due, changes>>
  BY SystemAssumption DEF StartRearm, Tasks
<1>6. /\ forUser' \in [Rearmers -> Users \cup {NULL}] /\ due' \subseteq Users
      /\ sweeps' \subseteq Users \cup {NULL}
  BY <1>1, <1>5 DEF TasksTyped, RecomputeTypeOK
<1>7. CASE list = <<>>
  <2>1. task' = [task EXCEPT ![s] = "commit"]
    BY <1>1, <1>7
  <2>2. QED
    BY <1>1, <1>4, <1>5, <1>6, <2>1, TaskMovesOn
<1>8. CASE list # <<>>
  <2>1. task' = [task EXCEPT ![s] = "null"]
    BY <1>1, <1>8
  <2>2. QED
    BY <1>1, <1>4, <1>5, <1>6, <1>8, <2>1, TaskMovesOn
<1>9. QED
  BY <1>7, <1>8

(* A task is done with the first of its rows. *)
LEMMA ContinueKeeps ==
  ASSUME SafeInv, TasksTyped, NEW s \in Tasks, TaskEffect(s) \/ UNCHANGED dbVars,
         NEW again \in {"convert", "null"}, Continue(s, again),
         task[s] \in {"convert", "update", "null"},
         UNCHANGED <<baseCurrency, rated, sweeps, forUser, due, changes>>
  PROVE  TasksTyped'
<1>1. todo[s] # <<>>
  BY DEF TasksTyped, TaskInv
<1>2. s \in Sweepers =>
        /\ Tail(todo[s]) \in Seq(Selected)
        /\ \A n \in DOMAIN Tail(todo[s]) : rows[Tail(todo[s])[n].id] # NULL
        /\ Len(todo[s]) # 1 => Tail(todo[s]) # <<>>
  BY <1>1, SweeperTodo
<1>3. s \in Rearmers =>
        /\ Tail(todo[s]) \in Seq(Ids)
        /\ \A n \in DOMAIN Tail(todo[s]) : rows[Tail(todo[s])[n]] # NULL
        /\ Len(todo[s]) # 1 => Tail(todo[s]) # <<>>
  BY <1>1, RearmerTodo
<1>4. /\ forUser' \in [Rearmers -> Users \cup {NULL}] /\ due' \subseteq Users
      /\ sweeps' \subseteq Users \cup {NULL}
  BY DEF TasksTyped, RecomputeTypeOK
<1> DEFINE q == Tail(todo[s])
<1>5. todo' = [todo EXCEPT ![s] = q]
  BY DEF Continue
<1> HIDE DEF q
<1>6. CASE Len(todo[s]) = 1
  <2>1. task' = [task EXCEPT ![s] = "commit"]
    BY <1>6 DEF Continue
  <2>2. QED
    BY <1>2, <1>3, <1>4, <1>5, <2>1, TaskMovesOn DEF q
<1>7. CASE Len(todo[s]) # 1
  <2>1. task' = [task EXCEPT ![s] = again]
    BY <1>7 DEF Continue
  <2>2. q # <<>>
    BY <1>2, <1>3, <1>7 DEF q, Tasks
  <2>3. QED
    BY <1>2, <1>3, <1>4, <1>5, <2>1, <2>2, TaskMovesOn DEF q
<1>8. QED
  BY <1>6, <1>7

(* A task ends, with its commit or without. *)
LEMMA EndTaskKeeps ==
  ASSUME SafeInv, TasksTyped, NEW s \in Tasks, EndTask(s),
         CommitTransaction(s) \/ Rollback(s),
         forUser' \in [Rearmers -> Users \cup {NULL}], due' \subseteq Users,
         sweeps' \subseteq Users \cup {NULL},
         UNCHANGED <<baseCurrency, rated, changes>>
  PROVE  TasksTyped'
<1>1. pending'[s] = NoWrites
  BY TaskSessions
     DEF CommitTransaction, Rollback, EndTransaction, SafeInv, TypeOK, DbTypeOK
<1>2. TaskEffect(s)
  BY DEF TaskEffect
<1>3. /\ task' = [task EXCEPT ![s] = "idle"]
      /\ todo' = [todo EXCEPT ![s] = <<>>]
  BY DEF EndTask
<1>4. /\ <<>> \in Seq(Selected) /\ <<>> \in Seq(Ids) /\ DOMAIN <<>> = {}
  OBVIOUS
<1>5. QED
  BY <1>1, <1>2, <1>3, <1>4, TaskMovesOn

LEMMA TaskStepKeepsTasks ==
  ASSUME SafeInv, TasksTyped, TaskStep
  PROVE  TasksTyped'
<1>1. /\ forUser \in [Rearmers -> Users \cup {NULL}] /\ due \subseteq Users
      /\ sweeps \subseteq Users \cup {NULL}
  BY DEF TasksTyped, RecomputeTypeOK
<1>2. ASSUME NEW s \in Tasks, DropTask(s) PROVE TasksTyped'
  <2>1. /\ forUser' \in [Rearmers -> Users \cup {NULL}] /\ due' \subseteq Users
        /\ sweeps' \subseteq Users \cup {NULL}
    BY <1>1, <1>2 DEF DropTask
  <2>2. QED
    BY <1>2, <2>1, EndTaskKeeps DEF DropTask
<1>3. ASSUME NEW s \in Sweepers, ConversionRaises(s) \/ UpdateOverflows(s)
      PROVE  TasksTyped'
  BY <1>2, <1>3 DEF ConversionRaises, UpdateOverflows, Tasks
<1>4. ASSUME NEW s \in Sweepers, NEW u \in Users \cup {NULL}, StartSweep(s, u)
      PROVE  TasksTyped'
  BY <1>4, StartSweepKeeps
<1>5. ASSUME NEW s \in Sweepers, Convert(s) PROVE TasksTyped'
  <2> DEFINE q == todo[s]
  <2>1. /\ task[s] = "convert" /\ task' = [task EXCEPT ![s] = "update"]
        /\ UNCHANGED <<dbVars, baseCurrency, rated, sweeps, todo, forUser, due, changes>>
    BY <1>5 DEF Convert
  <2>2. s \in Tasks /\ s \notin Rearmers /\ q # <<>>
    BY <2>1, SystemAssumption DEF Tasks, TasksTyped, TaskInv
  <2>3. q \in Seq(Selected) /\ \A n \in DOMAIN q : rows[q[n].id] # NULL
    BY DEF TasksTyped, TaskInv, TodoExists, RecomputeTypeOK
  <2>4. todo' = [todo EXCEPT ![s] = q]
    BY <2>1, <2>2 DEF TasksTyped, TaskInv
  <2> HIDE DEF q
  <2>5. QED
    BY <1>1, <2>1, <2>2, <2>3, <2>4, TaskMovesOn
<1>6. ASSUME NEW s \in Sweepers, SkipUnrated(s) \/ WriteBase(s) PROVE TasksTyped'
  <2>1. TaskEffect(s) \/ UNCHANGED dbVars
    <3>1. CASE SkipUnrated(s)
      BY <3>1 DEF SkipUnrated
    <3>2. CASE WriteBase(s)
      BY <1>6, <3>2, WriteBaseEffect
    <3>3. QED
      BY <1>6, <3>1, <3>2
  <2>2. s \in Tasks /\ Continue(s, "convert") /\ task[s] \in {"convert", "update", "null"}
        /\ UNCHANGED <<baseCurrency, rated, sweeps, forUser, due, changes>>
    BY <1>6 DEF SkipUnrated, WriteBase, Tasks
  <2>3. QED
    BY <2>1, <2>2, ContinueKeeps
<1>7. ASSUME NEW s \in Rearmers, NullBase(s) PROVE TasksTyped'
  <2>1. TaskEffect(s)
    BY <1>7, NullBaseEffect
  <2>2. s \in Tasks /\ Continue(s, "null") /\ task[s] \in {"convert", "update", "null"}
        /\ UNCHANGED <<baseCurrency, rated, sweeps, forUser, due, changes>>
    BY <1>7 DEF NullBase, Tasks
  <2>3. QED
    BY <2>1, <2>2, ContinueKeeps
<1>8. ASSUME NEW s \in Sweepers, CommitSweep(s) PROVE TasksTyped'
  BY <1>1, <1>8, EndTaskKeeps DEF CommitSweep, Tasks
<1>9. ASSUME NEW s \in Rearmers, CommitRearm(s) PROVE TasksTyped'
  <2>1. /\ s \in Tasks /\ CommitTransaction(s) /\ EndTask(s)
        /\ forUser' = [forUser EXCEPT ![s] = NULL] /\ due' = due \ {forUser[s]}
        /\ sweeps' \in {sweeps, sweeps \cup {forUser[s]}}
        /\ UNCHANGED <<baseCurrency, rated, changes>>
    BY <1>9 DEF CommitRearm, Tasks
  <2>2. /\ forUser' \in [Rearmers -> Users \cup {NULL}] /\ due' \subseteq Users
        /\ sweeps' \subseteq Users \cup {NULL}
    BY <1>1, <2>1
  <2>3. QED
    BY <2>1, <2>2, EndTaskKeeps
<1>10. ASSUME NEW s \in Rearmers, StartRearm(s) PROVE TasksTyped'
  BY <1>10, StartRearmKeeps
<1>11. ASSUME UNCHANGED <<dbVars, task, todo, forUser>>,
              baseCurrency' \in [Users -> Currencies], rated' \subseteq Inputs,
              sweeps' \subseteq Users \cup {NULL},
              due' \subseteq Users, changes' \in 0 .. MaxChanges
       PROVE  TasksTyped'
  BY <1>11 DEF TasksTyped, RecomputeTypeOK, TaskInv, TodoExists, OnlyRestamps,
     Restamps, NoWrites, dbVars
<1>12. CASE IngestSucceeds \/ RatesArrive
  BY <1>1, <1>11, <1>12 DEF IngestSucceeds, RatesArrive, TasksTyped, RecomputeTypeOK
<1>13. ASSUME NEW u \in Users, ChangeBaseCurrency(u) PROVE TasksTyped'
  <2>1. changes' \in 0 .. MaxChanges
    BY <1>13, RecomputeAssumption DEF ChangeBaseCurrency, TasksTyped, RecomputeTypeOK
  <2>2. baseCurrency' \in [Users -> Currencies] /\ rated' \subseteq Inputs
    BY <1>13 DEF ChangeBaseCurrency, TasksTyped, RecomputeTypeOK
  <2>3. /\ due' \subseteq Users /\ UNCHANGED <<dbVars, task, todo, forUser>>
        /\ sweeps' \subseteq Users \cup {NULL}
    BY <1>1, <1>13 DEF ChangeBaseCurrency
  <2>4. QED
    BY <1>11, <2>1, <2>2, <2>3
<1>14. QED
  BY <1>2, <1>3, <1>4, <1>5, <1>6, <1>7, <1>8, <1>9, <1>10, <1>12, <1>13
     DEF TaskStep, TaskAction, SweepStep, RearmStep

LEMMA PushStepKeepsTasks ==
  ASSUME SafeInv, TasksTyped, [Next]_vars, UNCHANGED recomputeVars
  PROVE  TasksTyped'
<1>1. \A s \in Tasks : Kept(s)
  <2>1. ASSUME NEW h \in Handlers, HandlerStep(h), NEW s \in Tasks PROVE Kept(s)
    BY <2>1, OthersKept, TaskSessions
  <2>2. CASE NextMonth \/ UNCHANGED vars
    BY <2>2 DEF NextMonth, vars, dbVars, Kept
  <2>3. QED
    BY <2>1, <2>2 DEF Next, HandlerStep, Served
<1>2. \A i \in Ids : rows[i] # NULL => rows'[i] # NULL
  <2>1. CASE rows' = rows
    BY <2>1
  <2>2. CASE rows' # rows
    BY <2>2, OnlyCommitWrites, CommitReplaces DEF vars, dbVars
  <2>3. QED
    BY <2>1, <2>2
<1>3. UNCHANGED <<baseCurrency, rated, sweeps, task, todo, forUser, due, changes>>
  BY DEF recomputeVars
<1>4. RecomputeTypeOK'
  BY <1>3 DEF TasksTyped, RecomputeTypeOK
<1>5. TodoExists'
  <2>1. ASSUME NEW s \in Sweepers, NEW n \in DOMAIN todo[s]
        PROVE  rows'[todo[s][n].id] # NULL
    <3>1. todo[s] \in Seq(Selected)
      BY DEF TasksTyped, RecomputeTypeOK
    <3>2. todo[s][n] \in Selected
      BY <3>1
    <3>3. QED
      BY <1>2, <3>2 DEF Selected, TasksTyped, TaskInv, TodoExists
  <2>2. ASSUME NEW s \in Rearmers, NEW n \in DOMAIN todo[s]
        PROVE  rows'[todo[s][n]] # NULL
    <3>1. todo[s] \in Seq(Ids)
      BY DEF TasksTyped, RecomputeTypeOK
    <3>2. todo[s][n] \in Ids
      BY <3>1
    <3>3. QED
      BY <1>2, <3>2 DEF TasksTyped, TaskInv, TodoExists
  <2>3. QED
    BY <1>3, <2>1, <2>2 DEF TodoExists
<1>6. \A s \in Tasks : OnlyRestamps(s)'
  BY <1>1, KeptKeeps, TaskSessions DEF TasksTyped, TaskInv
<1>7. \A s \in Tasks : task'[s] = "idle" => pending'[s] = NoWrites
  BY <1>1, <1>3 DEF Kept, TasksTyped, TaskInv
<1>8. NoWrites' = NoWrites
  BY DEF NoWrites
<1>9. QED
  BY <1>3, <1>4, <1>5, <1>6, <1>7, <1>8 DEF TasksTyped, TaskInv

-----------------------------------------------------------------------------
(* An edit of the inputs clears the amount in the base currency.           *)

EditsClearBase ==
  \A h \in Handlers : \A i \in Ids :
    pending[h][i] # NULL /\ rows[i] # NULL /\ pending[h][i].inputs # rows[i].inputs
      => pending[h][i].base = NULL

(* A handler's version of a row is there while it holds the row.           *)
LEMMA WriterHolds ==
  ASSUME PendingReplaces, NEW h \in Handlers, NEW i \in Ids, pending[h][i] # NULL
  PROVE  lock[i] = h
BY DEF PendingReplaces, Standing, NoWrites

LEMMA PushKeepsClearBase ==
  ASSUME SafeInv, EditsClearBase, [Next]_vars
  PROVE  EditsClearBase'
<1> SUFFICES ASSUME NEW h \in Handlers, NEW i \in Ids,
                    pending'[h][i] # NULL, rows'[i] # NULL,
                    pending'[h][i].inputs # rows'[i].inputs
             PROVE  pending'[h][i].base = NULL
  BY DEF EditsClearBase
<1>0. TypeOK /\ PendingReplaces /\ h \in Sessions
  BY PushAssumption DEF SafeInv
<1>1. CASE pending'[h][i] = pending[h][i]
  <2>1. lock[i] = h
    BY <1>0, <1>1, WriterHolds
  <2>2. rows'[i] = rows[i]
    <3> SUFFICES ASSUME rows'[i] # rows[i] PROVE FALSE
      OBVIOUS
    <3>1. PICK g \in Handlers : Commit(g)
      BY OnlyCommitWrites DEF vars, dbVars
    <3>2. pending[g][i] # NULL
      BY <3>1, CommitReplaces
    <3>3. g = h
      BY <1>0, <2>1, <3>2, WriterHolds
    <3>4. pending'[h][i] = NULL
      BY <1>0, <3>1, <3>3
         DEF Commit, CommitTransaction, EndTransaction, NoWrites, TypeOK, DbTypeOK
    <3>5. QED
      BY <3>4
  <2>3. QED
    BY <1>1, <2>2 DEF EditsClearBase
<1>2. CASE pending'[h][i] # pending[h][i]
  <2>1. i = Record(h).id /\ (InsertRow(h) \/ UpdateRow(h))
    BY <1>0, <1>2, OnlyUpsertsPropose
  <2>2. CASE InsertRow(h)
    BY <1>0, <2>1, <2>2 DEF InsertRow, WriteRow, TypeOK, DbTypeOK
  <2>3. CASE UpdateRow(h)
    <3>1. pc[h] = "conflict" /\ rows' = rows /\ rows[i] \in Row
      BY <1>0, <2>1, <2>3 DEF UpdateRow, NextRecord, Goto, TypeOK, DbTypeOK
    <3>2. /\ pending'[h][i].inputs = Record(h).inputs
          /\ pending'[h][i].base = NewBase(Record(h), rows[i])
      BY <1>0, <2>1, <2>3, <3>1 DEF UpdateRow, WriteRow, TypeOK, DbTypeOK, Row
    <3>3. QED
      BY <3>1, <3>2 DEF NewBase
  <2>4. QED
    BY <2>1, <2>2, <2>3
<1>3. QED
  BY <1>1, <1>2

LEMMA TaskKeepsClearBase ==
  ASSUME SafeInv, EditsClearBase, NEW s, TaskMoves(s)
  PROVE  EditsClearBase'
<1> SUFFICES ASSUME NEW h \in Handlers, NEW i \in Ids,
                    pending'[h][i] # NULL, rows'[i] # NULL,
                    pending'[h][i].inputs # rows'[i].inputs
             PROVE  pending'[h][i].base = NULL
  BY DEF EditsClearBase
<1>1. Untouched(h)
  BY TaskLeavesHandlers
<1>2. pending'[h] = pending[h] /\ lock[i] = h
  BY <1>1, WriterHolds DEF Untouched, SafeInv
<1>3. rows'[i] = rows[i]
  BY <1>1, <1>2 DEF Untouched
<1>4. QED
  BY <1>2, <1>3 DEF EditsClearBase

-----------------------------------------------------------------------------
(* The invariant of the system. *)

PushInv ==
  /\ SafeInv /\ AllProgress /\ PeriodChosen /\ MeteringExact
  /\ AckInv /\ SeqsApart /\ EditsClearBase

SystemInv == PushInv /\ TasksTyped

LEMMA TaskStepCases ==
  ASSUME SystemInv, TaskStep
  PROVE  UNCHANGED vars \/ \E s \in Tasks : TaskMoves(s)
<1>1. UNCHANGED dbVars \/ \E s \in Tasks : TaskEffect(s)
  BY TaskActionEffect DEF SystemInv, PushInv, TaskStep
<1>2. \A s \in Tasks : TaskEffect(s) => TaskMoves(s)
  BY TaskSessions DEF TaskMoves, TaskStep, SystemInv, TasksTyped, TaskInv
<1>3. QED
  BY <1>1, <1>2 DEF TaskStep, vars

LEMMA PushKeepsPushInv ==
  ASSUME PushInv, [Next]_vars
  PROVE  PushInv'
BY TypeStep, SeqBoundsStep, PendingStep, ProgressStep, PeriodChosenStep, MeteringStep,
   SettledStep, AckedStep, ApartStep, PushKeepsClearBase DEF PushInv, SafeInv, AckInv

LEMMA TaskKeepsPushInv ==
  ASSUME PushInv, NEW s, TaskMoves(s)
  PROVE  PushInv'
BY TaskKeepsSafe, TaskKeepsProgress, TaskKeepsPeriod, TaskKeepsMetering,
   TaskKeepsAcked, TaskKeepsApart, TaskKeepsClearBase DEF PushInv

LEMMA SystemInvStep == SystemInv /\ [SystemNext]_systemVars => SystemInv'
<1> SUFFICES ASSUME SystemInv, [SystemNext]_systemVars PROVE SystemInv'
  OBVIOUS
<1>1. CASE [Next]_vars /\ UNCHANGED recomputeVars
  BY <1>1, PushKeepsPushInv, PushStepKeepsTasks DEF SystemInv, PushInv
<1>2. CASE TaskStep
  <2>1. PushInv'
    BY <1>2, TaskStepCases, TaskKeepsPushInv, PushKeepsPushInv DEF SystemInv
  <2>2. TasksTyped'
    BY <1>2, TaskStepKeepsTasks DEF SystemInv, PushInv
  <2>3. QED
    BY <2>1, <2>2 DEF SystemInv
<1>3. QED
  BY <1>1, <1>2, StepKinds DEF PushStep, PullStep

LEMMA SystemInvInit == SystemInit => SystemInv
<1> SUFFICES ASSUME SystemInit PROVE SystemInv
  OBVIOUS
<1>1. Init /\ RecomputeInit
  BY DEF SystemInit
<1>2. SafeInv /\ PeriodChosen /\ MeteringExact
  BY <1>1, TypeInit, SeqBoundsInit, PendingInit, PeriodChosenInit, MeteringInit
     DEF SafeInv
<1>3. AllProgress
  BY <1>1, ProgressInit DEF AllProgress
<1>4. AckInv /\ EditsClearBase
  BY <1>1 DEF Init, DbInit, AckInv, SettledReached, AckedDurable, EditsClearBase
<1>5. SeqsApart
  BY <1>1, ApartInit
<1>6. RecomputeTypeOK
  <2>1. <<>> \in Seq(Selected) /\ <<>> \in Seq(Ids)
    OBVIOUS
  <2>2. QED
    BY <1>1, <2>1, RecomputeAssumption DEF RecomputeInit, RecomputeTypeOK, Tasks
<1>7. TaskInv
  <2>1. <<>> \in Seq(Ids) /\ DOMAIN <<>> = {}
    OBVIOUS
  <2>2. TodoExists
    BY <1>1, <2>1 DEF RecomputeInit, TodoExists, Tasks
  <2>3. \A s \in Tasks : pending[s] = NoWrites /\ OnlyRestamps(s)
    BY <1>1, TaskSessions DEF Init, DbInit, NoWrites, OnlyRestamps
  <2>4. QED
    BY <1>1, <2>1, <2>2, <2>3 DEF RecomputeInit, TaskInv
<1>8. QED
  BY <1>2, <1>3, <1>4, <1>5, <1>6, <1>7 DEF SystemInv, PushInv, TasksTyped

LEMMA SystemInvariant == SystemSpec => []SystemInv
  BY SystemInvInit, SystemInvStep, PTL DEF SystemSpec

-----------------------------------------------------------------------------
(* How numbers move: a number is drawn from the sequence, belongs to an    *)
(* open transaction, and then to a committed row.                          *)

LEMMA OpenNumberFacts ==
  /\ \A s \in Sessions, i \in Ids : pending[s][i] # NULL => pending[s][i].seq \in OpenNumbers
  /\ \A h \in Handlers : pc[h] = "conflict" => stamp[h] \in OpenNumbers
  /\ \A n \in OpenNumbers :
       \/ \E s \in Sessions, i \in Ids : pending[s][i] # NULL /\ n = pending[s][i].seq
       \/ \E h \in Handlers : pc[h] = "conflict" /\ n = stamp[h]
<1>1. ASSUME NEW s \in Sessions, NEW i \in Ids, pending[s][i] # NULL
      PROVE  pending[s][i].seq \in OpenNumbers
  <2> DEFINE x == <<s, i>>
  <2>1. x \in {y \in Sessions \X Ids : pending[y[1]][y[2]] # NULL}
    BY <1>1
  <2>2. pending[x[1]][x[2]].seq = pending[s][i].seq
    OBVIOUS
  <2>3. QED
    BY <2>1, <2>2 DEF OpenNumbers
<1>2. QED
  BY <1>1 DEF OpenNumbers

LEMMA OpenNumbersNext ==
  \A n \in OpenNumbers' :
    \/ \E s \in Sessions, i \in Ids : pending'[s][i] # NULL /\ n = pending'[s][i].seq
    \/ \E h \in Handlers : pc'[h] = "conflict" /\ n = stamp'[h]
BY DEF OpenNumbers

LEMMA OpenNumbersTyped ==
  ASSUME SafeInv
  PROVE  \A n \in OpenNumbers : n \in Nat /\ n <= seq
<1>1. ASSUME NEW s \in Sessions, NEW i \in Ids, pending[s][i] # NULL
      PROVE  pending[s][i].seq \in Nat /\ pending[s][i].seq <= seq
  <2>1. pending[s][i] \in Row
    BY <1>1 DEF SafeInv, TypeOK, DbTypeOK
  <2>2. QED
    BY <1>1, <2>1 DEF SafeInv, SeqBounds, Row
<1>2. \A h \in Handlers : stamp[h] \in Nat /\ stamp[h] <= seq
  BY DEF SafeInv, SeqBounds, TypeOK
<1>3. QED
  BY <1>1, <1>2, OpenNumberFacts

(* What a step may do to the numbers and to the rows. *)
NumbersFlow ==
  /\ seq <= seq'
  /\ \A n \in OpenNumbers' : n \in OpenNumbers \/ n > seq
  /\ \A i \in Ids : rows'[i] # rows[i] =>
       /\ rows'[i] # NULL /\ rows'[i].seq \in OpenNumbers
       /\ rows[i] # NULL => rows'[i].seq > rows[i].seq /\ rows'[i].user = rows[i].user

LEMMA Drawn ==
  ASSUME TypeOK, [Next]_vars
  PROVE  /\ seq' \in {seq, seq + 1}
         /\ \A g \in Handlers : pc'[g] = "conflict" =>
              \/ pc[g] = "conflict" /\ stamp'[g] = stamp[g]
              \/ stamp'[g] = seq + 1
<1>1. ASSUME NEW h \in Handlers, EndRequest(h)
      PROVE  \A g \in Handlers : pc'[g] = "conflict" =>
               pc[g] = "conflict" /\ stamp'[g] = stamp[g]
  BY <1>1 DEF EndRequest, TypeOK
<1>2. ASSUME NEW h \in Handlers, Respond(h) \/ RespondError(h) \/ Abort(h)
                                 \/ CancelDeadlocked(h, PushWaitsFor)
      PROVE  EndRequest(h) /\ seq' = seq
  BY <1>2 DEF Respond, RespondError, Abort, CancelDeadlocked, Rollback, dbVars
<1>3. ASSUME NEW h \in Handlers,
             \/ Begin(h) \/ SelectOwners(h) \/ StatementFails(h) \/ CountNew(h)
             \/ IncrementUsage(h) \/ Commit(h)
      PROVE  /\ seq' = seq
             /\ \A g \in Handlers : pc'[g] = "conflict" =>
                  pc[g] = "conflict" /\ stamp'[g] = stamp[g]
  BY <1>3 DEF Begin, SelectOwners, StatementFails, CountNew, IncrementUsage, Commit,
     Rollback, CommitTransaction, Goto, dbVars, TypeOK
<1>4. ASSUME NEW h \in Handlers, InsertRow(h) \/ UpdateRow(h) \/ KeepRow(h)
      PROVE  /\ seq' \in {seq, seq + 1}
             /\ \A g \in Handlers : pc'[g] = "conflict" =>
                  pc[g] = "conflict" /\ stamp'[g] = stamp[g]
  BY <1>4 DEF InsertRow, UpdateRow, KeepRow, NextRecord, SetServerSeq, Goto, TypeOK
<1>5. ASSUME NEW h \in Handlers, FireInsertTrigger(h)
      PROVE  /\ seq' = seq + 1
             /\ \A g \in Handlers : pc'[g] = "conflict" =>
                  \/ pc[g] = "conflict" /\ stamp'[g] = stamp[g]
                  \/ stamp'[g] = seq + 1
  BY <1>5 DEF FireInsertTrigger, SetServerSeq, Goto, TypeOK
<1>6. CASE NextMonth \/ UNCHANGED vars
  BY <1>6 DEF NextMonth, vars, dbVars, pushVars
<1>7. QED
  BY <1>1, <1>2, <1>3, <1>4, <1>5, <1>6 DEF Next, Step, Served

LEMMA PushFlow ==
  ASSUME SafeInv, [Next]_vars
  PROVE  NumbersFlow
<1>0. TypeOK /\ seq \in Nat
  BY DEF SafeInv, TypeOK, DbTypeOK
<1>1. seq <= seq'
  BY <1>0, Drawn
<1>2. ASSUME NEW s \in Sessions, NEW i \in Ids, pending'[s][i] # NULL
      PROVE  pending'[s][i].seq \in OpenNumbers \/ pending'[s][i].seq > seq
  <2>1. CASE pending'[s][i] = pending[s][i]
    BY <1>2, <2>1, OpenNumberFacts
  <2>2. CASE pending'[s][i] # pending[s][i]
    <3>1. s \in Handlers /\ i = Record(s).id /\ (InsertRow(s) \/ UpdateRow(s))
      BY <1>0, <1>2, <2>2, OnlyUpsertsPropose
    <3>2. CASE InsertRow(s)
      <4>1. pc[s] = "conflict" /\ pending'[s][i].seq = stamp[s]
        BY <1>0, <3>1, <3>2
           DEF InsertRow, NextRecord, Goto, WriteRow, TypeOK, DbTypeOK
      <4>2. QED
        BY <3>1, <4>1, OpenNumberFacts
    <3>3. CASE UpdateRow(s)
      <4>1. rows[i] \in Row /\ seq' = seq + 1
        BY <1>0, <3>1, <3>3 DEF UpdateRow, SetServerSeq, TypeOK, DbTypeOK
      <4>2. pending'[s][i].seq = seq'
        BY <1>0, <3>1, <3>3, <4>1 DEF UpdateRow, WriteRow, TypeOK, DbTypeOK, Row
      <4>3. QED
        BY <1>0, <4>1, <4>2
    <3>4. QED
      BY <3>1, <3>2, <3>3
  <2>3. QED
    BY <2>1, <2>2
<1>3. ASSUME NEW n \in OpenNumbers' PROVE n \in OpenNumbers \/ n > seq
  <2>1. \/ \E s \in Sessions, i \in Ids : pending'[s][i] # NULL /\ n = pending'[s][i].seq
        \/ \E h \in Handlers : pc'[h] = "conflict" /\ n = stamp'[h]
    BY <1>3, OpenNumbersNext
  <2>2. ASSUME NEW h \in Handlers, pc'[h] = "conflict", n = stamp'[h]
        PROVE  n \in OpenNumbers \/ n > seq
    BY <1>0, <2>2, Drawn, OpenNumberFacts
  <2>3. QED
    BY <1>2, <2>1, <2>2
<1>4. ASSUME NEW i \in Ids, rows'[i] # rows[i]
      PROVE  /\ rows'[i] # NULL /\ rows'[i].seq \in OpenNumbers
             /\ rows[i] # NULL =>
                  rows'[i].seq > rows[i].seq /\ rows'[i].user = rows[i].user
  <2>1. PICK h \in Handlers : Commit(h)
    BY <1>4, OnlyCommitWrites DEF vars, dbVars
  <2>2. /\ rows'[i] = pending[h][i] /\ rows'[i] # NULL
        /\ rows[i] # NULL => Replaces(rows'[i], rows[i])
    BY <1>4, <2>1, CommitReplaces
  <2>3. rows'[i].seq \in OpenNumbers
    BY <2>2, OpenNumberFacts, PushAssumption
  <2>4. QED
    BY <2>2, <2>3 DEF Replaces
<1>5. QED
  BY <1>1, <1>3, <1>4 DEF NumbersFlow

LEMMA TaskFlow ==
  ASSUME SafeInv, NEW s, TaskMoves(s)
  PROVE  NumbersFlow
<1>0. seq \in Nat /\ s \in Sessions
  BY DEF SafeInv, TypeOK, DbTypeOK, TaskMoves
<1>1. /\ seq' \in {seq, seq + 1}
      /\ \A t \in Sessions, i \in Ids : pending'[t][i] # NULL =>
           pending'[t][i] = pending[t][i] \/ pending'[t][i].seq = seq + 1
  <2>1. CASE WritesOne(s)
    <3>1. PICK j \in Ids, new \in Row :
            /\ seq' = seq + 1 /\ new.seq = seq + 1
            /\ pending' = [pending EXCEPT ![s][j] = new]
      BY <1>0, <2>1, WritesOneFacts
    <3>2. QED
      BY <3>1 DEF SafeInv, TypeOK, DbTypeOK
  <2>2. CASE LocksOne(s)
    BY <2>2 DEF LocksOne
  <2>3. CASE CommitTransaction(s) \/ Rollback(s)
    <3>1. seq' = seq /\ pending' = [pending EXCEPT ![s] = NoWrites]
      BY <2>3 DEF CommitTransaction, Rollback, EndTransaction
    <3>2. \A i \in Ids : NoWrites[i] = NULL
      BY DEF NoWrites
    <3>3. pending \in [Sessions -> [Ids -> Row \cup {NULL}]]
      BY DEF SafeInv, TypeOK, DbTypeOK
    <3>4. QED
      BY <3>1, <3>2, <3>3
  <2>4. QED
    BY <2>1, <2>2, <2>3 DEF TaskMoves, TaskEffect
<1>2. ASSUME NEW n \in OpenNumbers' PROVE n \in OpenNumbers \/ n > seq
  <2>1. \/ \E t \in Sessions, i \in Ids : pending'[t][i] # NULL /\ n = pending'[t][i].seq
        \/ \E h \in Handlers : pc'[h] = "conflict" /\ n = stamp'[h]
    BY <1>2, OpenNumbersNext
  <2>2. ASSUME NEW h \in Handlers, pc'[h] = "conflict", n = stamp'[h]
        PROVE  n \in OpenNumbers
    BY <2>2, OpenNumberFacts DEF TaskMoves, pushVars
  <2>3. ASSUME NEW t \in Sessions, NEW i \in Ids, pending'[t][i] # NULL,
               n = pending'[t][i].seq
        PROVE  n \in OpenNumbers \/ n > seq
    <3>1. CASE pending'[t][i] = pending[t][i]
      BY <2>3, <3>1, OpenNumberFacts
    <3>2. CASE pending'[t][i].seq = seq + 1
      BY <1>0, <2>3, <3>2
    <3>3. QED
      BY <1>1, <2>3, <3>1, <3>2
  <2>4. QED
    BY <2>1, <2>2, <2>3
<1>3. ASSUME NEW i \in Ids, rows'[i] # rows[i]
      PROVE  /\ rows'[i] # NULL /\ rows'[i].seq \in OpenNumbers
             /\ rows[i] # NULL =>
                  rows'[i].seq > rows[i].seq /\ rows'[i].user = rows[i].user
  <2>1. /\ rows'[i] # NULL /\ rows'[i] = pending[s][i]
        /\ Restamps(rows'[i], rows[i])
    BY <1>3, TaskRows DEF TaskMoves
  <2>2. QED
    BY <1>0, <2>1, OpenNumberFacts DEF Restamps
<1>4. QED
  BY <1>0, <1>1, <1>2, <1>3 DEF NumbersFlow

-----------------------------------------------------------------------------
(* What a client can rely on.  A number at or below its cursor that no     *)
(* committed version on the client carries belongs to `overlap`, and so    *)
(* does every such number of a transaction that is still open.  A page     *)
(* under way promises the same of its next_cursor.                         *)

(* The version of i on the client once the page has arrived. *)
Arriving(c, i) ==
  IF i \in DOMAIN page[c].records THEN page[c].records[i] ELSE replica[c][i]

CursorInv(c) ==
  /\ cursor[c] <= seq
  /\ \A i \in Ids : replica[c][i] # NULL => replica[c][i].seq <= cursor[c]
  /\ \A n \in OpenNumbers : n <= cursor[c] => n \in overlap[c]
  /\ \A i \in RowsOf(ClientUser[c]) :
       rows[i].seq <= cursor[c] => UpToDate(c, i) \/ rows[i].seq \in overlap[c]

PageInv(c) ==
  page[c] # NULL =>
    /\ cursor[c] <= page[c].next_cursor
    /\ page[c].next_cursor <= seq
    /\ \A i \in DOMAIN page[c].records :
         /\ rows[i] # NULL
         /\ page[c].records[i].seq <= rows[i].seq
         /\ cursor[c] < page[c].records[i].seq
         /\ page[c].records[i].seq <= page[c].next_cursor
    /\ \A n \in OpenNumbers :
         n <= page[c].next_cursor => n \in overlap[c] \cup page[c].open
    /\ \A i \in RowsOf(ClientUser[c]) :
         rows[i].seq <= page[c].next_cursor =>
           Arriving(c, i) = rows[i] \/ rows[i].seq \in overlap[c] \cup page[c].open

PullInv ==
  /\ PullTypeOK
  /\ page = [c \in Clients |-> page[c]]
  /\ \A c \in Clients : CursorInv(c) /\ PageInv(c)

LEMMA PullInvInit == SystemInit => PullInv
<1> SUFFICES ASSUME SystemInit PROVE PullInv
  OBVIOUS
<1>1. Init /\ PullInit
  BY DEF SystemInit
<1>2. rows = [i \in Ids |-> NULL] /\ seq = 0
  BY <1>1 DEF Init, DbInit
<1>3. OpenNumbers = {}
  BY <1>1 DEF Init, DbInit, NoWrites, OpenNumbers
<1>4. PullTypeOK /\ page = [c \in Clients |-> page[c]]
  BY <1>1 DEF PullInit, PullTypeOK
<1>5. ASSUME NEW c \in Clients PROVE CursorInv(c) /\ PageInv(c)
  BY <1>1, <1>2, <1>3 DEF PullInit, CursorInv, PageInv, RowsOf
<1>6. QED
  BY <1>4, <1>5 DEF PullInv

(* Writers that draw new numbers and commit open ones do not disturb it.   *)
LEMMA FlowKeepsPull ==
  ASSUME SafeInv, SafeInv', PullInv, NumbersFlow, UNCHANGED pullVars
  PROVE  PullInv'
<1>0. /\ \A c \in Clients : cursor[c] \in Nat
      /\ seq \in Nat /\ seq' \in Nat
      /\ \A i \in Ids : /\ rows[i] # NULL => rows[i].seq \in Nat
                        /\ rows'[i] # NULL => rows'[i].seq \in Nat
  BY DEF SafeInv, TypeOK, DbTypeOK, PullInv, PullTypeOK, Row
<1>n. \A n \in OpenNumbers' : n \in Nat
  <2>1. /\ pending' \in [Sessions -> [Ids -> Row \cup {NULL}]]
        /\ stamp' \in [Handlers -> Nat]
    BY DEF SafeInv, TypeOK, DbTypeOK
  <2>2. \A s \in Sessions, i \in Ids : pending'[s][i] # NULL => pending'[s][i].seq \in Nat
    BY <2>1 DEF Row
  <2>3. QED
    BY <2>1, <2>2, OpenNumbersNext
<1>1. PullTypeOK' /\ (page = [c \in Clients |-> page[c]])'
  BY DEF PullInv, PullTypeOK, pullVars
<1>2. UNCHANGED <<cursor, replica, page, overlap>>
  BY DEF pullVars
<1>3. ASSUME NEW c \in Clients PROVE CursorInv(c)'
  <2>1. CursorInv(c) /\ cursor[c] <= seq'
    BY <1>0 DEF PullInv, CursorInv, NumbersFlow
  <2>2. ASSUME NEW n \in OpenNumbers', n <= cursor[c] PROVE n \in overlap[c]
    BY <1>0, <1>n, <2>1, <2>2 DEF CursorInv, NumbersFlow
  <2>3. ASSUME NEW i \in Ids, rows'[i] # NULL, rows'[i].user = ClientUser[c],
               rows'[i].seq <= cursor[c]
        PROVE  replica[c][i] = rows'[i] \/ rows'[i].seq \in overlap[c]
    <3>1. CASE rows'[i] = rows[i]
      BY <2>1, <2>3, <3>1 DEF CursorInv, RowsOf, UpToDate
    <3>2. CASE rows'[i] # rows[i]
      BY <2>1, <2>3, <3>2 DEF CursorInv, NumbersFlow
    <3>3. QED
      BY <3>1, <3>2
  <2>4. QED
    BY <1>2, <2>1, <2>2, <2>3 DEF CursorInv, RowsOf, UpToDate
<1>4. ASSUME NEW c \in Clients, page[c] # NULL PROVE PageInv(c)'
  <2> DEFINE p == page[c]
  <2>1. /\ p.next_cursor \in Nat /\ DOMAIN p.records \subseteq Ids
        /\ \A i \in DOMAIN p.records : p.records[i].seq \in Nat
    BY <1>4 DEF PullInv, PullTypeOK, Row
  <2>2. /\ cursor[c] <= p.next_cursor /\ p.next_cursor <= seq
        /\ \A i \in DOMAIN p.records :
             /\ rows[i] # NULL /\ p.records[i].seq <= rows[i].seq
             /\ cursor[c] < p.records[i].seq /\ p.records[i].seq <= p.next_cursor
        /\ \A n \in OpenNumbers : n <= p.next_cursor => n \in overlap[c] \cup p.open
        /\ \A i \in RowsOf(ClientUser[c]) :
             rows[i].seq <= p.next_cursor =>
               Arriving(c, i) = rows[i] \/ rows[i].seq \in overlap[c] \cup p.open
    BY <1>4 DEF PullInv, PageInv
  <2> HIDE DEF p
  <2>3. p.next_cursor <= seq'
    BY <1>0, <2>1, <2>2 DEF NumbersFlow
  <2>4. ASSUME NEW i \in DOMAIN p.records
        PROVE  rows'[i] # NULL /\ p.records[i].seq <= rows'[i].seq
    <3>1. i \in Ids /\ rows[i] # NULL /\ p.records[i].seq <= rows[i].seq
      BY <2>1, <2>2
    <3>2. CASE rows'[i] = rows[i]
      BY <3>1, <3>2
    <3>3. CASE rows'[i] # rows[i]
      BY <1>0, <2>1, <3>1, <3>3 DEF NumbersFlow
    <3>4. QED
      BY <3>2, <3>3
  <2>5. ASSUME NEW n \in OpenNumbers', n <= p.next_cursor
        PROVE  n \in overlap[c] \cup p.open
    BY <1>0, <1>n, <2>1, <2>2, <2>5 DEF NumbersFlow
  <2>6. ASSUME NEW i \in Ids, rows'[i] # NULL, rows'[i].user = ClientUser[c],
               rows'[i].seq <= p.next_cursor
        PROVE  Arriving(c, i) = rows'[i] \/ rows'[i].seq \in overlap[c] \cup p.open
    <3>1. CASE rows'[i] = rows[i]
      BY <2>2, <2>6, <3>1 DEF RowsOf
    <3>2. CASE rows'[i] # rows[i]
      BY <2>2, <2>6, <3>2 DEF NumbersFlow
    <3>3. QED
      BY <3>1, <3>2
  <2>7. \A i \in Ids : Arriving(c, i)' = Arriving(c, i)
    BY <1>2 DEF Arriving
  <2>8. /\ \A n \in OpenNumbers' : n <= p.next_cursor => n \in overlap[c] \cup p.open
        /\ \A i \in RowsOf(ClientUser[c])' :
             rows'[i].seq <= p.next_cursor =>
               Arriving(c, i)' = rows'[i] \/ rows'[i].seq \in overlap[c] \cup p.open
    BY <2>5, <2>6, <2>7 DEF RowsOf
  <2>9. p = page[c] /\ p = page'[c] /\ cursor'[c] = cursor[c] /\ overlap'[c] = overlap[c]
    BY <1>2 DEF p
  <2>10. QED
    BY <2>2, <2>3, <2>4, <2>8, <2>9 DEF PageInv
<1>5. ASSUME NEW c \in Clients, page[c] = NULL PROVE PageInv(c)'
  BY <1>2, <1>5 DEF PageInv
<1>6. QED
  BY <1>1, <1>3, <1>4, <1>5 DEF PullInv

(* The first PullLimit changes are all the changes up to the last of them. *)
LEMMA PageFacts ==
  ASSUME SafeInv, NEW u, NEW since \in Nat, since <= seq
  PROVE  /\ PageOf(u, since) \subseteq Ids
         /\ \A i \in PageOf(u, since) :
              /\ rows[i] # NULL /\ rows[i] \in Row
              /\ since < rows[i].seq
              /\ rows[i].seq <= NextCursor(PageOf(u, since), since)
         /\ NextCursor(PageOf(u, since), since) \in Nat
         /\ since <= NextCursor(PageOf(u, since), since)
         /\ NextCursor(PageOf(u, since), since) <= seq
         /\ \A i \in RowsOf(u) :
              since < rows[i].seq /\ rows[i].seq <= NextCursor(PageOf(u, since), since)
                => i \in PageOf(u, since)
<1> DEFINE sent == PageOf(u, since)
<1> DEFINE D == ChangedSince(u, since)
<1> DEFINE Before(i) == {j \in D : rows[j].seq < rows[i].seq}
<1>1. /\ D \subseteq Ids
      /\ \A i \in D : /\ rows[i] # NULL /\ rows[i] \in Row /\ rows[i].seq \in Nat
                      /\ since < rows[i].seq /\ rows[i].seq <= seq
  BY DEF ChangedSince, RowsOf, SafeInv, TypeOK, DbTypeOK, SeqBounds, Row
<1>2. sent = {i \in D : Cardinality(Before(i)) < PullLimit}
  BY DEF PageOf
<1>3. \A i \in RowsOf(u) : since < rows[i].seq => i \in D
  BY DEF ChangedSince, RowsOf, SafeInv, TypeOK, DbTypeOK, Row
<1>4. seq \in Nat /\ PullLimit \in Nat /\ IsFiniteSet(D)
  <2>1. IsFiniteSet(D)
    BY <1>1, PushAssumption, FS_Subset
  <2>2. QED
    BY <2>1, PullAssumption DEF SafeInv, TypeOK, DbTypeOK
<1>m. sent \subseteq D
  BY <1>2
<1> HIDE DEF sent, D
<1>5. ASSUME NEW i \in sent, NEW j \in D, rows[j].seq <= rows[i].seq
      PROVE  j \in sent
  <2>1. i \in D /\ Cardinality(Before(i)) < PullLimit
    BY <1>2
  <2>2. Before(j) \in SUBSET Before(i) /\ Before(i) \in SUBSET D
    BY <1>1, <1>5, <2>1
  <2>3. IsFiniteSet(Before(i)) /\ IsFiniteSet(Before(j))
    BY <1>4, <2>2, FS_Subset
  <2>4. Cardinality(Before(j)) <= Cardinality(Before(i))
    BY <2>2, <2>3, FS_Subset
  <2>5. Cardinality(Before(i)) \in Nat /\ Cardinality(Before(j)) \in Nat
    BY <2>3, FS_CardinalityType
  <2>6. Cardinality(Before(j)) < PullLimit
    BY <1>4, <2>1, <2>4, <2>5
  <2>7. QED
    BY <1>2, <2>6
<1>6. CASE sent = {}
  <2>1. NextCursor(sent, since) = since
    BY <1>6 DEF NextCursor
  <2>2. \A i \in RowsOf(u) : ~(since < rows[i].seq /\ rows[i].seq <= since)
    BY <1>1, <1>3
  <2>3. QED
    BY <1>4, <1>6, <2>1, <2>2 DEF sent
<1>7. CASE sent # {}
  <2> DEFINE S == {rows[i].seq : i \in sent}
  <2> DEFINE last == CHOOSE i \in sent : \A j \in sent : rows[j].seq <= rows[i].seq
  <2>1. S \in SUBSET (0 .. seq) /\ S # {}
    BY <1>1, <1>m, <1>4, <1>7
  <2>2. \E n \in S : \A m \in S : m <= n
    BY <1>4, <2>1, Largest
  <2>3. \E i \in sent : \A j \in sent : rows[j].seq <= rows[i].seq
    BY <2>2
  <2>4. last \in sent /\ \A j \in sent : rows[j].seq <= rows[last].seq
    BY <2>3
  <2>5. NextCursor(sent, since) = rows[last].seq
    BY <1>7 DEF NextCursor
  <2> HIDE DEF last, S
  <2>6. ASSUME NEW i \in RowsOf(u), since < rows[i].seq, rows[i].seq <= rows[last].seq
        PROVE  i \in sent
    BY <1>3, <1>5, <2>4, <2>6
  <2>7. /\ sent \subseteq Ids
        /\ \A i \in sent : /\ rows[i] # NULL /\ rows[i] \in Row
                           /\ since < rows[i].seq /\ rows[i].seq <= rows[last].seq
    BY <1>1, <1>m, <2>4
  <2>8. rows[last].seq \in Nat /\ since <= rows[last].seq /\ rows[last].seq <= seq
    BY <1>1, <1>m, <2>4
  <2>9. QED
    BY <2>5, <2>6, <2>7, <2>8 DEF sent
<1>8. QED
  BY <1>6, <1>7

(* A step of another client, or none. *)
LEMMA OtherClients ==
  ASSUME PullInv, UNCHANGED vars, NEW d \in Clients,
         cursor'[d] = cursor[d], replica'[d] = replica[d],
         page'[d] = page[d], overlap'[d] = overlap[d]
  PROVE  CursorInv(d)' /\ PageInv(d)'
<1>1. CursorInv(d) /\ PageInv(d)
  BY DEF PullInv
<1>2. UNCHANGED <<rows, seq>> /\ OpenNumbers' = OpenNumbers
  BY DEF vars, dbVars, pushVars, OpenNumbers
<1>3. RowsOf(ClientUser[d])' = RowsOf(ClientUser[d])
  BY <1>2 DEF RowsOf
<1>4. \A i \in Ids : Arriving(d, i)' = Arriving(d, i) /\ UpToDate(d, i)' = UpToDate(d, i)
  BY <1>2 DEF Arriving, UpToDate
<1>5. CursorInv(d)'
  BY <1>1, <1>2, <1>3, <1>4 DEF CursorInv, RowsOf
<1>6. PageInv(d)'
  BY <1>1, <1>2, <1>3, <1>4 DEF PageInv, RowsOf
<1>7. QED
  BY <1>5, <1>6

LEMMA PullKeeps ==
  ASSUME SafeInv, PullInv, NEW c \in Clients, Pull(c, OpenNumbers), UNCHANGED vars
  PROVE  PullInv'
<1> DEFINE u == ClientUser[c]
<1> DEFINE sent == PageOf(u, cursor[c])
<1> DEFINE next == NextCursor(sent, cursor[c])
<1> DEFINE p == [records     |-> [i \in sent |-> rows[i]],
                 next_cursor |-> next,
                 has_more    |-> Cardinality(sent) = PullLimit,
                 open        |-> {n \in OpenNumbers : n <= next}]
<1>1. /\ page' = [page EXCEPT ![c] = p]
      /\ UNCHANGED <<rows, seq, cursor, replica, overlap>>
  BY DEF Pull, dbVars
<1>2. /\ CursorInv(c) /\ cursor[c] \in Nat /\ cursor[c] <= seq
      /\ page = [d \in Clients |-> page[d]]
  BY DEF PullInv, PullTypeOK, CursorInv
<1>3. /\ sent \subseteq Ids
      /\ \A i \in sent : /\ rows[i] # NULL /\ rows[i] \in Row
                         /\ cursor[c] < rows[i].seq /\ rows[i].seq <= next
      /\ next \in Nat /\ cursor[c] <= next /\ next <= seq
      /\ \A i \in RowsOf(u) : cursor[c] < rows[i].seq /\ rows[i].seq <= next
                                => i \in sent
  BY <1>2, PageFacts
<1>4. /\ DOMAIN p.records = sent /\ \A i \in sent : p.records[i] = rows[i]
      /\ p.next_cursor = next /\ p.has_more \in BOOLEAN
      /\ p.open = {n \in OpenNumbers : n <= next}
  OBVIOUS
<1> HIDE DEF sent, next, p
<1>5. page'[c] = p /\ \A d \in Clients : d # c => page'[d] = page[d]
  BY <1>1, <1>2
<1>6. (page = [d \in Clients |-> page[d]])'
  BY <1>1, <1>2
<1>7. PullTypeOK'
  <2>1. ASSUME NEW d \in Clients, page'[d] # NULL
        PROVE  /\ DOMAIN page'[d].records \subseteq Ids
               /\ \A i \in DOMAIN page'[d].records : page'[d].records[i] \in Row
               /\ page'[d].next_cursor \in Nat
               /\ page'[d].has_more \in BOOLEAN
               /\ page'[d].open \subseteq Nat
    <3>1. CASE d = c
      BY <1>3, <1>4, <1>5, <3>1, OpenNumbersTyped
    <3>2. CASE d # c
      BY <1>5, <2>1, <3>2 DEF PullInv, PullTypeOK
    <3>3. QED
      BY <3>1, <3>2
  <2>2. QED
    BY <1>1, <2>1 DEF PullInv, PullTypeOK
<1>8. ASSUME NEW d \in Clients, d # c PROVE CursorInv(d)' /\ PageInv(d)'
  BY <1>1, <1>5, <1>8, OtherClients
<1>9. UNCHANGED OpenNumbers
  BY DEF vars, dbVars, pushVars, OpenNumbers
<1>10. CursorInv(c)'
  BY <1>1, <1>2, <1>9 DEF CursorInv, RowsOf, UpToDate
<1>11. PageInv(c)'
  <2>1. ASSUME NEW i \in RowsOf(u), rows[i].seq <= next
        PROVE  Arriving(c, i)' = rows[i] \/ rows[i].seq \in overlap[c]
    <3>1. CASE i \in sent
      BY <1>4, <1>5, <3>1 DEF Arriving
    <3>2. CASE i \notin sent
      <4>1. rows[i].seq \in Nat
        BY DEF RowsOf, SafeInv, TypeOK, DbTypeOK, Row
      <4>2. rows[i].seq <= cursor[c]
        BY <1>2, <1>3, <2>1, <3>2, <4>1
      <4>3. Arriving(c, i)' = replica[c][i]
        BY <1>1, <1>4, <1>5, <3>2 DEF Arriving
      <4>4. QED
        BY <1>2, <4>2, <4>3 DEF CursorInv, UpToDate
    <3>3. QED
      BY <3>1, <3>2
  <2>2. /\ \A i \in DOMAIN p.records :
             /\ rows[i] # NULL /\ p.records[i].seq <= rows[i].seq
             /\ cursor[c] < p.records[i].seq /\ p.records[i].seq <= p.next_cursor
        /\ \A n \in OpenNumbers : n <= p.next_cursor => n \in overlap[c] \cup p.open
        /\ cursor[c] <= p.next_cursor /\ p.next_cursor <= seq
    <3>1. \A i \in sent : rows[i].seq \in Nat
      BY <1>3 DEF Row
    <3>2. QED
      BY <1>3, <1>4, <3>1
  <2>3. RowsOf(ClientUser[c])' = RowsOf(u)
    BY <1>1 DEF RowsOf, u
  <2>4. \A i \in RowsOf(u) :
          rows[i].seq <= p.next_cursor =>
            Arriving(c, i)' = rows[i] \/ rows[i].seq \in overlap[c] \cup p.open
    BY <1>4, <2>1
  <2>5. QED
    BY <1>1, <1>5, <1>9, <2>2, <2>3, <2>4 DEF PageInv
<1>12. QED
  BY <1>6, <1>7, <1>8, <1>10, <1>11 DEF PullInv

LEMMA ReceiveKeeps ==
  ASSUME SafeInv, PullInv, NEW c \in Clients, Receive(c), UNCHANGED vars
  PROVE  PullInv'
<1> DEFINE p == page[c]
<1>1. /\ p # NULL
      /\ replica' = [replica EXCEPT ![c] =
                       [i \in Ids |-> IF i \in DOMAIN p.records
                                      THEN p.records[i] ELSE @[i]]]
      /\ cursor' = [cursor EXCEPT ![c] = p.next_cursor]
      /\ overlap' = [overlap EXCEPT ![c] = @ \cup p.open]
      /\ page' = [page EXCEPT ![c] = NULL]
      /\ UNCHANGED <<rows, seq>>
  BY DEF Receive, dbVars
<1>2. /\ CursorInv(c)
      /\ page = [d \in Clients |-> page[d]]
      /\ cursor \in [Clients -> Nat]
      /\ replica \in [Clients -> [Ids -> Row \cup {NULL}]]
      /\ overlap \in [Clients -> SUBSET Nat]
  BY DEF PullInv, PullTypeOK
<1>3. /\ DOMAIN p.records \subseteq Ids
      /\ \A i \in DOMAIN p.records : p.records[i] \in Row /\ p.records[i].seq \in Nat
      /\ p.next_cursor \in Nat /\ p.open \subseteq Nat
  BY <1>1 DEF PullInv, PullTypeOK, Row
<1>4. /\ cursor[c] <= p.next_cursor /\ p.next_cursor <= seq
      /\ \A i \in DOMAIN p.records : p.records[i].seq <= p.next_cursor
      /\ \A n \in OpenNumbers : n <= p.next_cursor => n \in overlap[c] \cup p.open
      /\ \A i \in RowsOf(ClientUser[c]) :
           rows[i].seq <= p.next_cursor =>
             Arriving(c, i) = rows[i] \/ rows[i].seq \in overlap[c] \cup p.open
  BY <1>1 DEF PullInv, PageInv
<1>5. \A i \in Ids : Arriving(c, i) =
        IF i \in DOMAIN p.records THEN p.records[i] ELSE replica[c][i]
  BY DEF Arriving
<1> HIDE DEF p
<1>6. /\ cursor'[c] = p.next_cursor /\ page'[c] = NULL
      /\ overlap'[c] = overlap[c] \cup p.open
      /\ \A i \in Ids : replica'[c][i] = Arriving(c, i)
      /\ \A d \in Clients : d # c =>
           /\ cursor'[d] = cursor[d] /\ replica'[d] = replica[d]
           /\ page'[d] = page[d] /\ overlap'[d] = overlap[d]
  BY <1>1, <1>2, <1>5
<1>7. (page = [d \in Clients |-> page[d]])'
  BY <1>1, <1>2
<1>8. PullTypeOK'
  <2>1. cursor' \in [Clients -> Nat] /\ overlap' \in [Clients -> SUBSET Nat]
    BY <1>1, <1>2, <1>3
  <2>2. replica' \in [Clients -> [Ids -> Row \cup {NULL}]]
    <3>1. [i \in Ids |-> IF i \in DOMAIN p.records
                         THEN p.records[i] ELSE replica[c][i]]
            \in [Ids -> Row \cup {NULL}]
      BY <1>2, <1>3
    <3>2. QED
      BY <1>1, <1>2, <3>1
  <2>3. ASSUME NEW d \in Clients, page'[d] # NULL
        PROVE  /\ DOMAIN page'[d].records \subseteq Ids
               /\ \A i \in DOMAIN page'[d].records : page'[d].records[i] \in Row
               /\ page'[d].next_cursor \in Nat
               /\ page'[d].has_more \in BOOLEAN
               /\ page'[d].open \subseteq Nat
    BY <1>6, <2>3 DEF PullInv, PullTypeOK
  <2>4. QED
    BY <2>1, <2>2, <2>3 DEF PullTypeOK
<1>9. ASSUME NEW d \in Clients, d # c PROVE CursorInv(d)' /\ PageInv(d)'
  BY <1>6, <1>9, OtherClients
<1>10. OpenNumbers' = OpenNumbers
  BY DEF vars, dbVars, pushVars, OpenNumbers
<1>11. CursorInv(c)'
  <2>1. ASSUME NEW i \in Ids, Arriving(c, i) # NULL
        PROVE  Arriving(c, i).seq <= p.next_cursor
    <3>1. CASE i \in DOMAIN p.records
      BY <1>4, <1>5, <3>1
    <3>2. CASE i \notin DOMAIN p.records
      <4>1. replica[c][i] # NULL /\ replica[c][i] \in Row
        BY <1>2, <1>5, <2>1, <3>2
      <4>2. replica[c][i].seq <= cursor[c] /\ replica[c][i].seq \in Nat
        BY <1>2, <4>1 DEF CursorInv, Row
      <4>3. QED
        BY <1>2, <1>3, <1>4, <1>5, <3>2, <4>2
    <3>3. QED
      BY <3>1, <3>2
  <2>2. RowsOf(ClientUser[c])' = RowsOf(ClientUser[c])
    BY <1>1 DEF RowsOf
  <2>3. QED
    BY <1>1, <1>4, <1>6, <1>10, <2>1, <2>2 DEF CursorInv, UpToDate, RowsOf
<1>12. PageInv(c)'
  BY <1>6 DEF PageInv
<1>13. QED
  BY <1>7, <1>8, <1>9, <1>11, <1>12 DEF PullInv

LEMMA LosePageKeeps ==
  ASSUME SafeInv, PullInv, NEW c \in Clients, LosePage(c), UNCHANGED vars
  PROVE  PullInv'
<1>1. /\ page' = [page EXCEPT ![c] = NULL]
      /\ UNCHANGED <<rows, seq, cursor, replica, overlap>>
      /\ page = [d \in Clients |-> page[d]]
  BY DEF LosePage, dbVars, PullInv
<1>2. page'[c] = NULL /\ \A d \in Clients : d # c => page'[d] = page[d]
  BY <1>1
<1>3. (page = [d \in Clients |-> page[d]])'
  BY <1>1
<1>4. PullTypeOK'
  BY <1>1, <1>2 DEF PullInv, PullTypeOK
<1>5. ASSUME NEW d \in Clients, d # c PROVE CursorInv(d)' /\ PageInv(d)'
  BY <1>1, <1>2, <1>5, OtherClients
<1>6. OpenNumbers' = OpenNumbers
  BY DEF vars, dbVars, pushVars, OpenNumbers
<1>7. CursorInv(c)'
  BY <1>1, <1>6 DEF PullInv, CursorInv, RowsOf, UpToDate
<1>8. PageInv(c)'
  BY <1>2 DEF PageInv
<1>9. QED
  BY <1>3, <1>4, <1>5, <1>7, <1>8 DEF PullInv

LEMMA PullInvStep == SystemInv /\ SystemInv' /\ PullInv /\ [SystemNext]_systemVars => PullInv'
<1> SUFFICES ASSUME SystemInv, SystemInv', PullInv, [SystemNext]_systemVars
             PROVE  PullInv'
  OBVIOUS
<1>0. SafeInv /\ SafeInv'
  BY DEF SystemInv, PushInv
<1>1. CASE PushStep
  BY <1>0, <1>1, PushFlow, FlowKeepsPull DEF PushStep
<1>2. CASE PullStep
  BY <1>0, <1>2, PullKeeps, ReceiveKeeps, LosePageKeeps DEF PullStep
<1>3. CASE TaskStep
  <2>1. CASE UNCHANGED vars
    BY <1>0, <1>3, <2>1, PushFlow, FlowKeepsPull DEF TaskStep
  <2>2. CASE \E s \in Tasks : TaskMoves(s)
    BY <1>0, <1>3, <2>2, TaskFlow, FlowKeepsPull DEF TaskStep
  <2>3. QED
    BY <1>3, <2>1, <2>2, TaskStepCases
<1>4. QED
  BY <1>1, <1>2, <1>3, StepKinds

LEMMA PullInvariant == SystemSpec => []PullInv
  BY PullInvInit, PullInvStep, SystemInvariant, PTL DEF SystemSpec

-----------------------------------------------------------------------------
(* The results.                                                            *)

LEMMA CutOffsBounded == SystemSpec => [](cutOffs \in 0 .. MaxCutOffs)
<1>1. SystemInit => cutOffs \in 0 .. MaxCutOffs
  BY SystemAssumption DEF SystemInit
<1>2. cutOffs \in 0 .. MaxCutOffs /\ [SystemNext]_systemVars
        => (cutOffs \in 0 .. MaxCutOffs)'
  BY SystemAssumption
     DEF SystemNext, Quiet, CutOff, PushNext, PullNext, TaskNext, systemVars
<1>3. QED
  BY <1>1, <1>2, PTL DEF SystemSpec

(* The variables of the composed system keep their types.                  *)
THEOREM SystemTypeCorrect == SystemSpec => []SystemTypeOK
<1>1. SystemInv /\ PullInv /\ cutOffs \in 0 .. MaxCutOffs => SystemTypeOK
  BY DEF SystemInv, PushInv, SafeInv, TasksTyped, PullInv, SystemTypeOK
<1>2. QED
  BY <1>1, SystemInvariant, PullInvariant, CutOffsBounded, PTL

(* GET /sync misses a committed row only when the row's number was already *)
(* drawn, and its transaction still open, when the client pulled past it:  *)
(* losing responses, paging by any limit and the worker's updates cannot   *)
(* make a client miss anything else.                                       *)
THEOREM OnlyOverlapsAreMissed == SystemSpec => []MissedOnlyByOverlap
<1>1. PullInv => MissedOnlyByOverlap
  BY DEF PullInv, CursorInv, MissedOnlyByOverlap
<1>2. QED
  BY <1>1, PullInvariant, PTL

(* A client never shows a version that the service has not committed, and  *)
(* never goes back to an older one.                                        *)
THEOREM ReplicasFollow == SystemSpec => ReplicaFollows
<1> DEFINE Follows == \A c \in Clients, i \in Ids : replica'[c][i] # replica[c][i] =>
             /\ rows[i] # NULL
             /\ replica'[c][i].seq <= rows[i].seq
             /\ replica[c][i] # NULL => replica[c][i].seq < replica'[c][i].seq
<1>1. PullInv /\ [SystemNext]_systemVars => [Follows]_replica
  <2> SUFFICES ASSUME PullInv, [SystemNext]_systemVars, replica' # replica
               PROVE  Follows
    OBVIOUS
  <2>1. PICK c \in Clients : Receive(c)
    BY StepKinds DEF PushStep, PullStep, TaskStep, Pull, LosePage, pullVars
  <2>2. SUFFICES ASSUME NEW d \in Clients, NEW i \in Ids,
                        replica'[d][i] # replica[d][i]
                 PROVE  /\ rows[i] # NULL
                        /\ replica'[d][i].seq <= rows[i].seq
                        /\ replica[d][i] # NULL =>
                             replica[d][i].seq < replica'[d][i].seq
    OBVIOUS
  <2>3. /\ page[c] # NULL /\ replica \in [Clients -> [Ids -> Row \cup {NULL}]]
        /\ replica' = [replica EXCEPT ![c] =
                         [j \in Ids |-> IF j \in DOMAIN page[c].records
                                        THEN page[c].records[j] ELSE @[j]]]
    BY <2>1 DEF Receive, PullInv, PullTypeOK
  <2>4. d = c /\ i \in DOMAIN page[c].records /\ replica'[c][i] = page[c].records[i]
    BY <2>2, <2>3
  <2>5. /\ rows[i] # NULL /\ page[c].records[i].seq <= rows[i].seq
        /\ cursor[c] < page[c].records[i].seq
    BY <2>3, <2>4 DEF PullInv, PageInv
  <2>6. page[c].records[i].seq \in Nat /\ cursor[c] \in Nat
    BY <2>3, <2>4 DEF PullInv, PullTypeOK, Row
  <2>7. replica[c][i] # NULL => replica[c][i].seq \in Nat /\ replica[c][i].seq <= cursor[c]
    BY <2>3 DEF PullInv, CursorInv, Row
  <2>8. QED
    BY <2>4, <2>5, <2>6, <2>7
<1>2. QED
  BY <1>1, PullInvariant, PTL DEF SystemSpec, ReplicaFollows

(* Whoever writes a row, a new version has a later server_seq, and a push  *)
(* that changes a row's inputs leaves it without an amount in the base     *)
(* currency.                                                               *)
THEOREM WritesRestamp == SystemSpec => EveryWriteRestamps
<1> DEFINE Restamped == \A i \in Ids : rows'[i] # rows[i] /\ rows[i] # NULL =>
             /\ rows'[i].seq > rows[i].seq
             /\ rows'[i].inputs # rows[i].inputs => rows'[i].base = NULL
<1>1. SystemInv /\ [SystemNext]_systemVars => [Restamped]_rows
  <2> SUFFICES ASSUME SystemInv, [SystemNext]_systemVars,
                      NEW i \in Ids, rows'[i] # rows[i], rows[i] # NULL
               PROVE  /\ rows'[i].seq > rows[i].seq
                      /\ rows'[i].inputs # rows[i].inputs => rows'[i].base = NULL
    OBVIOUS
  <2>0. SafeInv /\ EditsClearBase
    BY DEF SystemInv, PushInv
  <2>1. CASE PushStep
    <3>1. PICK h \in Handlers : Commit(h)
      BY <2>1, OnlyCommitWrites DEF PushStep, vars, dbVars
    <3>2. rows'[i] = pending[h][i] /\ rows'[i] # NULL /\ Replaces(rows'[i], rows[i])
      BY <2>0, <3>1, CommitReplaces
    <3>3. QED
      BY <2>0, <3>2 DEF EditsClearBase, Replaces
  <2>2. CASE PullStep
    BY <2>2 DEF PullStep, vars, dbVars
  <2>3. CASE TaskStep
    <3>1. PICK s \in Tasks : TaskMoves(s)
      BY <2>3, TaskStepCases DEF vars, dbVars
    <3>2. Restamps(rows'[i], rows[i])
      BY <2>0, <3>1, TaskRows DEF TaskMoves
    <3>3. QED
      BY <3>2 DEF Restamps
  <2>4. QED
    BY <2>1, <2>2, <2>3, StepKinds
<1>2. QED
  BY <1>1, SystemInvariant, PTL DEF SystemSpec, EveryWriteRestamps

(* Beside the worker's tasks too, the statements that upsert take effect   *)
(* as if they ran one after the other on the committed rows.               *)
THEOREM SystemUpsertsSerialize == SystemSpec => []UpsertSerializable
<1>1. SystemInv => UpsertSerializable
  BY DEF SystemInv, PushInv, AllProgress, Progress, UpsertSerializable
<1>2. QED
  BY <1>1, SystemInvariant, PTL

(* Beside the worker's tasks too, usage counts the created rows exactly.   *)
THEOREM SystemMeterIsExact == SystemSpec => []MeteringExact
<1>1. SystemInv => MeteringExact
  BY DEF SystemInv, PushInv
<1>2. QED
  BY <1>1, SystemInvariant, PTL

(* Pushes, pulls and the worker's tasks together are still the last-writer-*)
(* wins store: enrichment is invisible in it, and disturbs neither what a  *)
(* push was accepted with nor what it merges.                              *)
THEOREM SystemImplementsStore == SystemSpec => ImplementsLwwStore
<1>1. SystemInv /\ [SystemNext]_systemVars
        => [Store!Next]_<<[i \in Ids |-> Version(rows[i])], usage,
                          [h \in Handlers |-> Accepted(h)]>>
  <2> SUFFICES ASSUME SystemInv, [SystemNext]_systemVars
               PROVE  [Store!Next]_<<[i \in Ids |-> Version(rows[i])], usage,
                                     [h \in Handlers |-> Accepted(h)]>>
    OBVIOUS
  <2>0. SafeInv /\ AllProgress /\ PeriodChosen
    BY DEF SystemInv, PushInv
  <2>1. CASE [Next]_vars
    BY <2>0, <2>1, PushesImplementStore
  <2>2. CASE \E s \in Tasks : TaskMoves(s)
    BY <2>0, <2>2, TaskKeepsStore
  <2>3. CASE UNCHANGED vars
    BY <2>0, <2>3, PushesImplementStore
  <2>4. QED
    BY <2>1, <2>2, <2>3, StepKinds, TaskStepCases DEF PushStep, PullStep
<1>2. SystemInit => Store!Init
  BY StoreInit DEF SystemInit
<1>3. QED
  BY <1>1, <1>2, SystemInvariant, PTL DEF SystemSpec, ImplementsLwwStore, Store!Spec
=============================================================================
