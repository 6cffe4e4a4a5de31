--------------------------- MODULE PushValidation ---------------------------
(***************************************************************************)
(* The validation loop of `push_sync`: one pass over the raw records that  *)
(* fills `parsed`, `rejects` and `order`.  The loop decides record by      *)
(* record from what it has kept so far; the properties say what that comes *)
(* to for the batch as a whole, in the terms of PushBatch.                 *)
(***************************************************************************)
EXTENDS PushBatch

CONSTANT Batches  \* the batches a client may send

ASSUME BatchesAssumption == Batches \subseteq Seq(RawRecord)

VARIABLES
  batch,    \* payload.records
  next,     \* position of the next record
  parsed,   \* positions whose records were kept, at most one per id
  rejects,  \* ids that have a rejection reason
  order     \* ids in the order their results are reported

vars == <<batch, next, parsed, rejects, order>>

ParsedIds == {batch[k].id : k \in parsed}

TypeOK ==
  /\ batch \in Batches
  /\ next \in 1 .. Len(batch) + 1
  /\ parsed \subseteq 1 .. next - 1
  /\ rejects \subseteq Ids
  /\ order \in Seq(Ids)

Init ==
  /\ batch \in Batches
  /\ next = 1
  /\ parsed = {}
  /\ rejects = {}
  /\ order = <<>>

Advance ==
  /\ next <= Len(batch)
  /\ next' = next + 1
  /\ UNCHANGED batch

(* It does not validate and there is no id to report a result on. *)
SkipUnusable ==
  /\ Advance
  /\ batch[next].kind = "no_id"
  /\ UNCHANGED <<parsed, rejects, order>>

(* Variant with a bug: an id that was parsed is reported again. *)
RejectMalformedAgain ==
  LET r == batch[next]
  IN  /\ Advance
      /\ r.kind = "malformed"
      /\ IF r.id \notin rejects
         THEN rejects' = rejects \cup {r.id} /\ order' = Append(order, r.id)
         ELSE UNCHANGED <<rejects, order>>
      /\ UNCHANGED parsed

(* It does not validate: the first record of its id rejects the id, a      *)
(* later one is passed over.                                               *)
RejectMalformed ==
  LET r == batch[next]
  IN  /\ Advance
      /\ r.kind = "malformed"
      /\ IF r.id \notin rejects /\ r.id \notin ParsedIds
         THEN rejects' = rejects \cup {r.id} /\ order' = Append(order, r.id)
         ELSE UNCHANGED <<rejects, order>>
      /\ UNCHANGED parsed

(* Variant with a bug: a repeated id is dropped without a rejection. *)
DropDuplicate ==
  /\ Advance
  /\ WellFormed(batch[next])
  /\ batch[next].id \in ParsedIds \cup rejects
  /\ UNCHANGED <<parsed, rejects, order>>

(* It validates, but its id was seen: rejected as "duplicate id in batch"  *)
(* while the record parsed first, if there is one, stays in `parsed`.      *)
RejectDuplicate ==
  LET r == batch[next]
  IN  /\ Advance
      /\ WellFormed(r)
      /\ r.id \in ParsedIds \/ r.id \in rejects
      /\ rejects' = rejects \cup {r.id}
      /\ UNCHANGED <<parsed, order>>

(* Variants with a bug: the ids parsed before are not looked at; the       *)
(* position is taken after the loop has moved on.                          *)
KeepEvery ==
  LET r == batch[next]
  IN  /\ Advance
      /\ WellFormed(r)
      /\ r.id \notin rejects
      /\ parsed' = parsed \cup {next}
      /\ order' = Append(order, r.id)
      /\ UNCHANGED rejects

KeepNext ==
  LET r == batch[next]
  IN  /\ Advance
      /\ WellFormed(r)
      /\ r.id \notin ParsedIds \cup rejects
      /\ parsed' = parsed \cup {next'}
      /\ order' = Append(order, r.id)
      /\ UNCHANGED rejects

Keep ==
  LET r == batch[next]
  IN  /\ Advance
      /\ WellFormed(r)
      /\ r.id \notin ParsedIds
      /\ r.id \notin rejects
      /\ parsed' = parsed \cup {next}
      /\ order' = Append(order, r.id)
      /\ UNCHANGED rejects

(* The loop is over; push_sync goes on with what it kept. *)
Done == next = Len(batch) + 1 /\ UNCHANGED vars

Next == SkipUnusable \/ RejectMalformed \/ RejectDuplicate \/ Keep \/ Done

Spec == Init /\ [][Next]_vars

-----------------------------------------------------------------------------
Seen == SubSeq(batch, 1, next - 1)

(* After any number of records the loop has kept, and has rejected, what   *)
(* PushBatch says of the part of the batch read so far: SyncPush may use   *)
(* those definitions in the loop's place.                                  *)
LoopMeetsDefinition ==
  /\ parsed = Parsed(Seen)
  /\ rejects = RejectedOnSight(Seen)

(* Every usable id of the batch is reported once, in the order of first    *)
(* appearance: no record is left without an answer, none has two.          *)
OneResultPerId ==
  /\ {order[n] : n \in DOMAIN order} = Reported(Seen)
  /\ \A m, n \in DOMAIN order : m # n => order[m] # order[n]

(* No id is sent to the upsert twice: ON CONFLICT DO UPDATE fails the      *)
(* whole statement when a row is proposed for update a second time.        *)
ParsedIdsDistinct ==
  \A j, k \in parsed : batch[j].id = batch[k].id => j = k
=============================================================================
