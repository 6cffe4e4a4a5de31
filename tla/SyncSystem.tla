----------------------------- MODULE SyncSystem -----------------------------
(***************************************************************************)
(* The parts that meet on the expenses table, together: the push handlers, *)
(* the pull handlers with the clients' cursors, and the worker's tasks.    *)
(* They share the rows, their locks and the sequence; a deadlock can form  *)
(* between any of the writers.                                             *)
(***************************************************************************)
EXTENDS SyncPush, SyncPull, Recompute

CONSTANT MaxCutOffs  \* bounds the requests that crash and the tasks that are
                     \* cut off, by a crash or as the victim of a deadlock

ASSUME SystemAssumption ==
  /\ Handlers \cap Tasks = {}
  /\ Sweepers \cap Rearmers = {}
  /\ MaxCutOffs \in Nat

VARIABLE cutOffs

systemVars == <<vars, pullVars, recomputeVars, cutOffs>>

SystemTypeOK == TypeOK /\ PullTypeOK /\ RecomputeTypeOK /\ cutOffs \in 0 .. MaxCutOffs

SystemInit == Init /\ PullInit /\ RecomputeInit /\ cutOffs = 0

WaitsFor ==
  [s \in Sessions |-> IF s \in Tasks THEN TaskWaitsFor(s) ELSE PushWaitsFor[s]]

(* Sequence numbers taken by transactions that are still open. *)
OpenNumbers ==
  {pending[x[1]][x[2]].seq : x \in {y \in Sessions \X Ids : pending[y[1]][y[2]] # NULL}}
    \cup {stamp[h] : h \in {g \in Handlers : pc[g] = "conflict"}}

CutOff ==
  /\ cutOffs < MaxCutOffs
  /\ cutOffs' = cutOffs + 1
  /\ \/ \E h \in Handlers : Abort(h) /\ UNCHANGED <<pullVars, recomputeVars>>
     \/ \E s \in Tasks : AbortTask(s) /\ UNCHANGED <<pushVars, pullVars>>

PushNext ==
  /\ \/ \E h \in Handlers : Begin(h) \/ Step(h) \/ CancelDeadlocked(h, WaitsFor)
     \/ NextMonth
  /\ UNCHANGED <<pullVars, recomputeVars, cutOffs>>

PullNext ==
  /\ \E c \in Clients : Pull(c, OpenNumbers) \/ Receive(c) \/ LosePage(c)
  /\ UNCHANGED <<pushVars, recomputeVars, cutOffs>>

TaskNext ==
  /\ \/ \E s \in Sweepers : \/ \E u \in Users \cup {NULL} : StartSweep(s, u)
                         \/ SweepStep(s)
     \/ \E s \in Rearmers : StartRearm(s) \/ RearmStep(s)
     \/ IngestSucceeds
     \/ RatesArrive
     \/ \E u \in Users : ChangeBaseCurrency(u)
  /\ UNCHANGED <<pushVars, pullVars, cutOffs>>

(* Nothing is under way. *)
Quiet ==
  /\ \A h \in Handlers : pc[h] = "idle"
  /\ \A s \in Tasks : task[s] = "idle"
  /\ UNCHANGED systemVars

SystemNext == Quiet \/ CutOff \/ PushNext \/ PullNext \/ TaskNext

SystemSpec == SystemInit /\ [][SystemNext]_systemVars

(* Requests, tasks and deadlock detection go on as in SyncPush, an idle    *)
(* worker does not pass over the sweeps in the queue for ever, and a client*)
(* keeps asking until a response arrives.  That an ingest succeeds, and so *)
(* that a sweep is enqueued, is not assumed.                               *)
SystemFairness ==
  /\ \A h \in Handlers :
       /\ WF_systemVars(PushNext /\ Step(h))
       /\ WF_systemVars(PushNext /\ CancelDeadlocked(h, WaitsFor))
  /\ \A s \in Sweepers :
       /\ SF_systemVars(TaskNext /\ StartSweep(s, NULL))
       /\ WF_systemVars(TaskNext /\ SweepStep(s))
  /\ \A s \in Rearmers : WF_systemVars(TaskNext /\ (StartRearm(s) \/ RearmStep(s)))
  /\ \A c \in Clients :
       /\ WF_systemVars(PullNext /\ Pull(c, OpenNumbers))
       /\ SF_systemVars(PullNext /\ Receive(c))

FairSystemSpec == SystemSpec /\ SystemFairness

-----------------------------------------------------------------------------
(* Whoever writes a row, a new version has a later server_seq, and a push  *)
(* that changes the inputs of a row leaves it without an amount in the     *)
(* base currency: enrichment reaches the devices, and is asked for again.  *)
EveryWriteRestamps ==
  [][\A i \in Ids : rows'[i] # rows[i] /\ rows[i] # NULL =>
       /\ rows'[i].seq > rows[i].seq
       /\ rows'[i].inputs # rows[i].inputs => rows'[i].base = NULL]_rows

(* Every committed version that a device did not miss for good arrives     *)
(* there, or is replaced by a later one.                                   *)
ChangesArrive ==
  \A c \in Clients : \A i \in Ids :
    []<>(rows[i] # NULL /\ rows[i].user = ClientUser[c] =>
           UpToDate(c, i) \/ rows[i].seq \in overlap[c])

(* A row whose rates are known, and whose inputs convert, gets its amount  *)
(* in the base currency, or is edited or deleted first (the promise of     *)
(* recompute_amount_base).  Two things must hold: ingests go on succeeding,*)
(* for only they enqueue sweeps of all rows; and no row whose conversion or*)
(* UPDATE raises stays in the table, for it ends every sweep it is in.     *)
(* What this leaves is that the rows without an amount fit in one sweep,   *)
(* which the runs differ in.                                               *)
Enrichable(i) == NeedsBase(i) /\ rows[i].inputs \in rated \ Failing

Poisoned(i) == NeedsBase(i) /\ rows[i].inputs \in rated \cap Failing

IngestsGoOn == []<>(NULL \in sweeps)

EventuallyEnriched ==
  IngestsGoOn /\ <>[](\A i \in Ids : ~Poisoned(i)) =>
    \A i \in Ids : Enrichable(i) ~> ~Enrichable(i)

(* Pushes and tasks that compete for the same rows all come to an end.     *)
EverySessionEnds ==
  /\ \A h \in Handlers : pc[h] # "idle" ~> pc[h] = "idle"
  /\ \A s \in Tasks : task[s] # "idle" ~> task[s] = "idle"
=============================================================================
