------------------------------ MODULE LwwStore ------------------------------
(***************************************************************************)
(* What POST /api/v1/sync promises, without row locks, triggers, sequence  *)
(* numbers or the order of a batch: a last-writer-wins store with a usage  *)
(* meter.  A push is two atomic steps and not one:                         *)
(*   Accept  a user's records are let in if their devices are the user's   *)
(*           and nobody else owns a row of their ids at that moment;       *)
(*   Merge   all of them meet the rows there are by then: a record creates *)
(*           its row or, with a higher client revision, replaces its       *)
(*           contents, and the counter grows by the number of new rows.    *)
(* Merge does not ask for the owner again.  The row that another user      *)
(* created between the two steps is overwritten and keeps its owner, which *)
(* no serial execution of the pushes would do.                             *)
(***************************************************************************)
EXTENDS Integers, FiniteSets

CONSTANTS Users, Devices, DeviceOwner, Ids, Inputs, Periods, Handlers, NULL

Version == [user : Users, device : Devices, rev : Nat, inputs : Inputs,
            deleted : BOOLEAN]

Record == [id : Ids, device : Devices, rev : Nat, inputs : Inputs,
           deleted : BOOLEAN]

Claim == [user : Users, records : SUBSET Record]

VARIABLES
  store,  \* the version of each row, NULL if there is none
  usage,  \* the counters
  claims  \* what each push has been let in with, NULL if it has not

TypeOK ==
  /\ store \in [Ids -> Version \cup {NULL}]
  /\ usage \in [Users -> [Periods -> Nat]]
  /\ claims \in [Handlers -> Claim \cup {NULL}]

Init ==
  /\ store = [i \in Ids |-> NULL]
  /\ usage = [u \in Users |-> [p \in Periods |-> 0]]
  /\ claims = [h \in Handlers |-> NULL]

MayWrite(u, r) ==
  /\ DeviceOwner[r.device] = u
  /\ store[r.id] # NULL => store[r.id].user = u

Accept(h) ==
  /\ claims[h] = NULL
  /\ claims'[h] \in Claim
  /\ claims' = [claims EXCEPT ![h] = claims'[h]]
  /\ \A r \in claims'[h].records : MayWrite(claims'[h].user, r)
  /\ \A r, s \in claims'[h].records : r.id = s.id => r = s
  /\ UNCHANGED <<store, usage>>

Wins(r) == store[r.id] = NULL \/ store[r.id].rev < r.rev

(* The row that record r of user u leaves where it wins: a row that exists *)
(* keeps its owner and its device.                                         *)
Written(u, r) ==
  LET old == store[r.id]
  IN  [user    |-> IF old = NULL THEN u ELSE old.user,
       device  |-> IF old = NULL THEN r.device ELSE old.device,
       rev     |-> r.rev,
       inputs  |-> r.inputs,
       deleted |-> r.deleted]

Created == {i \in Ids : store[i] = NULL /\ store'[i] # NULL}

Merge(h, p) ==
  /\ claims[h] # NULL
  /\ DOMAIN store' = Ids
  /\ \A r \in claims[h].records :
       store'[r.id] = IF Wins(r) THEN Written(claims[h].user, r) ELSE store[r.id]
  /\ \A i \in Ids :
       store'[i] # store[i] => \E r \in claims[h].records : r.id = i
  /\ usage' = [usage EXCEPT ![claims[h].user][p] = @ + Cardinality(Created)]
  /\ claims' = [claims EXCEPT ![h] = NULL]

(* The push fails or is cut off. *)
Drop(h) ==
  /\ claims[h] # NULL
  /\ claims' = [claims EXCEPT ![h] = NULL]
  /\ UNCHANGED <<store, usage>>

Next == \E h \in Handlers : \/ Accept(h)
                            \/ \E p \in Periods : Merge(h, p)
                            \/ Drop(h)

Spec == Init /\ [][Next]_<<store, usage, claims>>
=============================================================================
