----------------------------- MODULE ExpenseDb -----------------------------
(***************************************************************************)
(* The `expenses` table as the sessions of the service see it: committed   *)
(* rows, row locks, the uncommitted versions of the open transactions, and *)
(* the sequence behind `server_seq`.                                       *)
(*                                                                         *)
(* PostgreSQL itself is external; it is modelled from how the code uses it *)
(* (READ COMMITTED, one transaction per request or task).  The trigger that*)
(* stamps `server_seq` belongs to the repository (its second migration).   *)
(***************************************************************************)
EXTENDS Expenses, FiniteSets

CONSTANT Sessions  \* database sessions: request handlers and worker tasks

(* NULL is not a session: a lock that holds NULL is free. *)
ASSUME SessionAssumption == NULL \notin Sessions

VARIABLES
  rows,     \* committed version of each row, NULL when there is none
  seq,      \* last value of expenses_sync_seq; nextval is not transactional
  lock,     \* session that holds the row's lock (or its uncommitted insert)
  pending   \* uncommitted versions written by each session

dbVars == <<rows, seq, lock, pending>>

DbTypeOK ==
  /\ rows \in [Ids -> Row \cup {NULL}]
  /\ seq \in Nat
  /\ lock \in [Ids -> Sessions \cup {NULL}]
  /\ pending \in [Sessions -> [Ids -> Row \cup {NULL}]]

NoWrites == [i \in Ids |-> NULL]

DbInit ==
  /\ rows = [i \in Ids |-> NULL]
  /\ seq = 0
  /\ lock = [i \in Ids |-> NULL]
  /\ pending = [s \in Sessions |-> NoWrites]

(* Variant of the trigger with a bug: rows are numbered by the largest     *)
(* committed server_seq.                                                   *)
SeqFromTable ==
  LET seqs == {rows[i].seq : i \in {j \in Ids : rows[j] # NULL}} \cup {0}
  IN  seq' = 1 + CHOOSE n \in seqs : \A m \in seqs : m <= n

(* The BEFORE INSERT OR UPDATE trigger: every row version takes nextval,   *)
(* at the moment the row is written and not when it commits.               *)
SetServerSeq == seq' = seq + 1

(* Variant with a bug: the writer does not wait for the lock. *)
TakeRow(s, i) == lock' = [lock EXCEPT ![i] = s]

(* A row lock is granted when nobody holds it and is kept to the end of    *)
(* the transaction.                                                        *)
LockRow(s, i) ==
  /\ lock[i] = NULL
  /\ lock' = [lock EXCEPT ![i] = s]

WriteRow(s, i, version) == pending' = [pending EXCEPT ![s][i] = version]

(* Variant with a bug: rows that were locked but not written stay locked.  *)
ReleaseWritten(s) ==
  /\ lock' = [i \in Ids |-> IF lock[i] = s /\ pending[s][i] # NULL
                            THEN NULL ELSE lock[i]]
  /\ pending' = [pending EXCEPT ![s] = NoWrites]

EndTransaction(s) ==
  /\ lock' = [i \in Ids |-> IF lock[i] = s THEN NULL ELSE lock[i]]
  /\ pending' = [pending EXCEPT ![s] = NoWrites]

Committed(s) == [i \in Ids |-> IF pending[s][i] = NULL THEN rows[i]
                                                       ELSE pending[s][i]]

Rollback(s) == EndTransaction(s) /\ UNCHANGED <<rows, seq>>

CommitTransaction(s) == rows' = Committed(s) /\ EndTransaction(s) /\ UNCHANGED seq

(* PostgreSQL's deadlock detector: s waits in a cycle.  waitsFor[t] is the *)
(* session t waits for, or NULL.                                           *)
Deadlocked(s, waitsFor) ==
  \E S \in SUBSET Sessions : s \in S /\ {waitsFor[t] : t \in S} = S

(* The rows of user u, and the largest sequence number among them.         *)
RowsOf(u) == {i \in Ids : rows[i] # NULL /\ rows[i].user = u}

HighWater(u) ==
  LET seqs == {rows[i].seq : i \in RowsOf(u)} \cup {0}
  IN  CHOOSE n \in seqs : \A m \in seqs : m <= n
=============================================================================
