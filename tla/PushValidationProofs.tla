------------------------ MODULE PushValidationProofs ------------------------
(***************************************************************************)
(* Proofs about PushValidation, for batches of every length over every set *)
(* of ids.  The invariant says of the prefix that has been read what the   *)
(* properties say of `Seen`.                                               *)
(***************************************************************************)
EXTENDS PushValidation, SequenceTheorems, TLAPS

(* The positions that have been read, and those among them that name an id.*)
Read == 1 .. next - 1
IdsOf(S) == {batch[k].id : k \in S}
Named == {k \in Read : Identified(batch[k])}

(* What is known of an id: that it was parsed or rejected. *)
Known == ParsedIds \cup rejects

Fresh(k) == WellFormed(batch[k]) /\ FirstOfItsId(batch, k)
Refused(k) == IF FirstOfItsId(batch, k) THEN ~WellFormed(batch[k])
                                        ELSE WellFormed(batch[k])

(* The inductive invariant. *)
PrefixInv ==
  /\ TypeOK
  /\ parsed = {k \in Read : Fresh(k)}
  /\ rejects = IdsOf({k \in Read : Refused(k)})
  /\ Known = IdsOf(Named)
  /\ {order[n] : n \in DOMAIN order} = Known
  /\ \A m, n \in DOMAIN order : m # n => order[m] # order[n]

-----------------------------------------------------------------------------
LEMMA BatchFacts ==
  ASSUME TypeOK
  PROVE  /\ batch \in Seq(RawRecord)
         /\ Len(batch) \in Nat
         /\ DOMAIN batch = 1 .. Len(batch)
         /\ \A k \in 1 .. Len(batch) : batch[k] \in RawRecord
         /\ next \in Nat
         /\ Read \subseteq 1 .. Len(batch)
<1>1. batch \in Seq(RawRecord)
  BY BatchesAssumption DEF TypeOK
<1>2. Len(batch) \in Nat /\ DOMAIN batch = 1 .. Len(batch)
  BY <1>1
<1>3. \A k \in 1 .. Len(batch) : batch[k] \in RawRecord
  BY <1>1
<1>4. next \in Nat /\ Read \subseteq 1 .. Len(batch)
  BY <1>2 DEF TypeOK, Read
<1>5. QED
  BY <1>1, <1>2, <1>3, <1>4

(* The next record is the first of its id exactly if the id is not known. *)
LEMMA NextIsFirst ==
  ASSUME PrefixInv, next <= Len(batch)
  PROVE  FirstOfItsId(batch, next) <=>
           Identified(batch[next]) /\ batch[next].id \notin Known
BY DEF PrefixInv, FirstOfItsId, IdsOf, Named, Read

(* What the step from one prefix to the next adds to each set. *)
LEMMA PrefixGrows ==
  ASSUME PrefixInv, Advance
  PROVE  /\ batch' = batch
         /\ next \in Nat
         /\ batch[next] \in RawRecord
         /\ Read' = Read \cup {next}
         /\ next \notin Read
         /\ \A k : Fresh(k)' <=> Fresh(k)
         /\ \A k : Refused(k)' <=> Refused(k)
         /\ Named' = IF Identified(batch[next]) THEN Named \cup {next} ELSE Named
<1>1. /\ batch' = batch /\ next' = next + 1 /\ next \in 1 .. Len(batch)
      /\ batch[next] \in RawRecord /\ next \in Nat
  BY BatchFacts DEF Advance, PrefixInv, TypeOK
<1>2. Read' = Read \cup {next} /\ next \notin Read
  BY <1>1 DEF Read
<1>3. \A k : (Fresh(k)' <=> Fresh(k)) /\ (Refused(k)' <=> Refused(k))
  BY <1>1 DEF Fresh, Refused, FirstOfItsId
<1>4. Named' = IF Identified(batch[next]) THEN Named \cup {next} ELSE Named
  BY <1>1, <1>2 DEF Named
<1>5. QED
  BY <1>1, <1>2, <1>3, <1>4

LEMMA PrefixInit == Init => PrefixInv
<1> SUFFICES ASSUME Init PROVE PrefixInv
  OBVIOUS
<1>1. batch \in Seq(RawRecord) /\ Len(batch) \in Nat
  BY BatchesAssumption DEF Init
<1>2. Read = {}
  BY DEF Init, Read
<1>3. TypeOK
  BY <1>1 DEF Init, TypeOK
<1>4. QED
  BY <1>2, <1>3 DEF Init, PrefixInv, IdsOf, Named, Known, ParsedIds

(* A record whose id is reported: order and the known ids grow by it. *)
LEMMA OrderGrows ==
  ASSUME PrefixInv, NEW x \in Ids, x \notin Known, order' = Append(order, x)
  PROVE  /\ order' \in Seq(Ids)
         /\ {order'[n] : n \in DOMAIN order'} = Known \cup {x}
         /\ \A m, n \in DOMAIN order' : m # n => order'[m] # order'[n]
<1>1. order \in Seq(Ids) /\ Len(order) \in Nat /\ DOMAIN order = 1 .. Len(order)
  BY DEF PrefixInv, TypeOK
<1>2. /\ order' \in Seq(Ids)
      /\ Len(order') = Len(order) + 1
      /\ \A n \in 1 .. Len(order) : order'[n] = order[n]
      /\ order'[Len(order) + 1] = x
  BY <1>1, AppendProperties
<1>3. DOMAIN order' = DOMAIN order \cup {Len(order) + 1}
  BY <1>1, <1>2
<1>4. \A n \in DOMAIN order : order[n] \in Known /\ order[n] # x
  BY DEF PrefixInv
<1>5. {order'[n] : n \in DOMAIN order'} = Known \cup {x}
  BY <1>1, <1>2, <1>3 DEF PrefixInv
<1>6. \A m, n \in DOMAIN order' : m # n => order'[m] # order'[n]
  BY <1>1, <1>2, <1>3, <1>4 DEF PrefixInv
<1>7. QED
  BY <1>2, <1>5, <1>6

(* A record that is neither kept nor the first to reject its id. *)
LEMMA RepeatedKeeps ==
  ASSUME PrefixInv, Advance, UNCHANGED <<parsed, order>>,
         ~Fresh(next),
         Identified(batch[next]) => batch[next].id \in Known,
         rejects' = rejects \cup {batch[k].id : k \in {n \in {next} : Refused(n)}}
  PROVE  PrefixInv'
<1>1. parsed' = {k \in Read' : Fresh(k)'}
  BY PrefixGrows DEF PrefixInv
<1>2. rejects' = IdsOf({k \in Read : Refused(k)})'
  BY PrefixGrows DEF PrefixInv, IdsOf
<1>3. Refused(next) => Identified(batch[next])
  BY DEF Refused, FirstOfItsId, WellFormed, Identified
<1>4. Known' = Known
  BY <1>3, PrefixGrows DEF Known, ParsedIds
<1>5. IdsOf(Named)' = IdsOf(Named)
  BY PrefixGrows DEF PrefixInv, IdsOf
<1>6. TypeOK'
  BY PrefixGrows, BatchFacts, <1>2, <1>3
  DEF PrefixInv, TypeOK, Advance, IdsOf, RawRecord
<1>7. QED
  BY <1>1, <1>2, <1>4, <1>5, <1>6 DEF PrefixInv

(* A record whose id is new: it is kept, or it rejects its id. *)
LEMMA NewIdKeeps ==
  ASSUME PrefixInv, Advance,
         Identified(batch[next]), batch[next].id \notin Known,
         order' = Append(order, batch[next].id),
         parsed' = parsed \cup {k \in {next} : Fresh(k)},
         rejects' = rejects \cup {batch[k].id : k \in {n \in {next} : Refused(n)}},
         Fresh(next) <=> ~Refused(next)
  PROVE  PrefixInv'
<1>1. parsed' = {k \in Read' : Fresh(k)'}
  BY PrefixGrows DEF PrefixInv
<1>2. rejects' = IdsOf({k \in Read : Refused(k)})'
  BY PrefixGrows DEF PrefixInv, IdsOf
<1>3. batch[next].id \in Ids
  BY PrefixGrows DEF RawRecord
<1>4. Known' = Known \cup {batch[next].id}
  BY PrefixGrows DEF Known, ParsedIds
<1>5. IdsOf(Named)' = IdsOf(Named) \cup {batch[next].id}
  BY PrefixGrows DEF PrefixInv, IdsOf
<1>6. /\ order' \in Seq(Ids)
      /\ {order'[n] : n \in DOMAIN order'} = Known'
      /\ \A m, n \in DOMAIN order' : m # n => order'[m] # order'[n]
  BY OrderGrows, <1>3, <1>4
<1>7. TypeOK'
  <2>1. parsed' \subseteq 1 .. next' - 1
    BY <1>1 DEF Read
  <2>2. rejects' \subseteq Ids
    BY <1>3 DEF PrefixInv, TypeOK
  <2>3. batch' \in Batches /\ next' \in 1 .. Len(batch') + 1
    BY BatchFacts DEF PrefixInv, TypeOK, Advance
  <2>4. QED
    BY <1>6, <2>1, <2>2, <2>3 DEF TypeOK
<1>8. IdsOf(Named)' = Known'
  BY <1>4, <1>5 DEF PrefixInv
<1>9. QED
  BY <1>1, <1>2, <1>6, <1>7, <1>8 DEF PrefixInv

LEMMA PrefixStep == PrefixInv /\ [Next]_vars => PrefixInv'
<1> SUFFICES ASSUME PrefixInv, [Next]_vars PROVE PrefixInv'
  OBVIOUS
<1>first. Advance => /\ next <= Len(batch)
                     /\ FirstOfItsId(batch, next) <=>
                          Identified(batch[next]) /\ batch[next].id \notin Known
  BY NextIsFirst DEF Advance
<1>kind. ASSUME Advance
         PROVE  /\ WellFormed(batch[next]) => Identified(batch[next])
                /\ batch[next].kind = "malformed" =>
                     Identified(batch[next]) /\ ~WellFormed(batch[next])
                /\ ~WellFormed(batch[next]) =>
                     batch[next].kind \in {"malformed", "no_id"}
  BY <1>kind, PrefixGrows DEF WellFormed, Identified, RawRecord, Kinds
<1>1. CASE SkipUnusable
  <2>1. Advance /\ ~Identified(batch[next]) /\ ~WellFormed(batch[next])
    BY <1>1 DEF SkipUnusable, Identified, WellFormed
  <2>2. ~Fresh(next) /\ ~Refused(next)
    BY <1>first, <2>1 DEF Fresh, Refused
  <2>3. UNCHANGED <<parsed, rejects, order>>
    BY <1>1 DEF SkipUnusable
  <2>4. rejects' = rejects \cup {batch[k].id : k \in {n \in {next} : Refused(n)}}
    BY <2>2, <2>3
  <2>5. QED
    BY <2>1, <2>2, <2>3, <2>4, RepeatedKeeps
<1>2. CASE RejectMalformed
  <2>1. /\ Advance /\ Identified(batch[next]) /\ ~WellFormed(batch[next])
        /\ UNCHANGED parsed
    BY <1>2, <1>kind DEF RejectMalformed
  <2>2. CASE batch[next].id \notin Known
    <3>1. FirstOfItsId(batch, next)
      BY <1>first, <2>1, <2>2
    <3>2. ~Fresh(next) /\ Refused(next)
      BY <2>1, <3>1 DEF Fresh, Refused
    <3>3. /\ rejects' = rejects \cup {batch[next].id}
          /\ order' = Append(order, batch[next].id)
      BY <1>2, <2>2 DEF RejectMalformed, Known
    <3>4. /\ rejects' = rejects \cup {batch[k].id : k \in {n \in {next} : Refused(n)}}
          /\ parsed' = parsed \cup {k \in {next} : Fresh(k)}
      BY <2>1, <3>2, <3>3
    <3>5. QED
      BY <2>1, <2>2, <3>2, <3>3, <3>4, NewIdKeeps
  <2>3. CASE batch[next].id \in Known
    <3>1. ~FirstOfItsId(batch, next)
      BY <1>first, <2>1, <2>3
    <3>2. ~Fresh(next) /\ ~Refused(next)
      BY <2>1, <3>1 DEF Fresh, Refused
    <3>3. UNCHANGED <<rejects, order>>
      BY <1>2, <2>3 DEF RejectMalformed, Known
    <3>4. rejects' = rejects \cup {batch[k].id : k \in {n \in {next} : Refused(n)}}
      BY <3>2, <3>3
    <3>5. QED
      BY <2>1, <2>3, <3>2, <3>3, <3>4, RepeatedKeeps
  <2>4. QED
    BY <2>2, <2>3
<1>3. CASE RejectDuplicate
  <2>1. /\ Advance /\ Identified(batch[next]) /\ WellFormed(batch[next])
        /\ batch[next].id \in Known
        /\ rejects' = rejects \cup {batch[next].id}
        /\ UNCHANGED <<parsed, order>>
    BY <1>3, <1>kind DEF RejectDuplicate, Known
  <2>2. ~FirstOfItsId(batch, next)
    BY <1>first, <2>1
  <2>3. ~Fresh(next) /\ Refused(next)
    BY <2>1, <2>2 DEF Fresh, Refused
  <2>4. rejects' = rejects \cup {batch[k].id : k \in {n \in {next} : Refused(n)}}
    BY <2>1, <2>3
  <2>5. QED
    BY <2>1, <2>3, <2>4, RepeatedKeeps
<1>4. CASE Keep
  <2>1. /\ Advance /\ Identified(batch[next]) /\ WellFormed(batch[next])
        /\ batch[next].id \notin Known
        /\ parsed' = parsed \cup {next}
        /\ order' = Append(order, batch[next].id)
        /\ UNCHANGED rejects
    BY <1>4, <1>kind DEF Keep, Known
  <2>2. FirstOfItsId(batch, next)
    BY <1>first, <2>1
  <2>3. Fresh(next) /\ ~Refused(next)
    BY <2>1, <2>2 DEF Fresh, Refused
  <2>4. /\ rejects' = rejects \cup {batch[k].id : k \in {n \in {next} : Refused(n)}}
        /\ parsed' = parsed \cup {k \in {next} : Fresh(k)}
    BY <2>1, <2>3
  <2>5. QED
    BY <2>1, <2>3, <2>4, NewIdKeeps
<1>5. CASE Done \/ UNCHANGED vars
  <2>1. UNCHANGED <<batch, next, parsed, rejects, order>>
    BY <1>5 DEF Done, vars
  <2>2. TypeOK'
    BY <2>1 DEF PrefixInv, TypeOK
  <2>3. /\ Known' = Known /\ Read' = Read
        /\ \A k : (Fresh(k)' <=> Fresh(k)) /\ (Refused(k)' <=> Refused(k))
    BY <2>1 DEF Known, ParsedIds, Read, Fresh, Refused, FirstOfItsId
  <2>4. QED
    BY <2>1, <2>2, <2>3 DEF PrefixInv, IdsOf, Named
<1>6. QED
  BY <1>1, <1>2, <1>3, <1>4, <1>5 DEF Next

LEMMA PrefixInvariant == Spec => []PrefixInv
BY PrefixInit, PrefixStep, PTL DEF Spec

-----------------------------------------------------------------------------
LEMMA PrefixProperties ==
  ASSUME NEW S, NEW s, NEW n \in Int, \A i \in 1 .. n : s[i] \in S
  PROVE  /\ SubSeq(s, 1, n) \in Seq(S)
         /\ Len(SubSeq(s, 1, n)) = IF 1 <= n THEN n ELSE 0
         /\ \A i \in 1 .. n : SubSeq(s, 1, n)[i] = s[i]
<1>1. /\ SubSeq(s, 1, n) \in Seq(S)
      /\ Len(SubSeq(s, 1, n)) = IF 1 <= n THEN n - 1 + 1 ELSE 0
      /\ \A i \in 1 .. n - 1 + 1 : SubSeq(s, 1, n)[i] = s[1 + i - 1]
  BY SubSeqProperties
<1>2. QED
  BY <1>1

(* The part of the batch that has been read, as a sequence. *)
LEMMA SeenIsRead ==
  ASSUME TypeOK
  PROVE  /\ DOMAIN Seen = Read
         /\ \A k \in Read : Seen[k] = batch[k]
<1>1. /\ next \in Nat /\ next - 1 \in Int
      /\ \A k \in 1 .. next - 1 : batch[k] \in RawRecord
  BY BatchFacts DEF Read
<1>2. /\ Seen \in Seq(RawRecord)
      /\ Len(Seen) = IF 1 <= next - 1 THEN next - 1 ELSE 0
      /\ \A k \in 1 .. next - 1 : Seen[k] = batch[k]
  BY <1>1, PrefixProperties DEF Seen
<1>3. DOMAIN Seen = 1 .. Len(Seen)
  BY <1>2
<1>4. next >= 1
  BY DEF TypeOK
<1>5. QED
  BY <1>1, <1>2, <1>3, <1>4 DEF Read

LEMMA SeenIsFirst ==
  ASSUME TypeOK, NEW k \in Read
  PROVE  FirstOfItsId(Seen, k) <=> FirstOfItsId(batch, k)
<1>1. 1 .. k - 1 \subseteq Read
  BY DEF Read, TypeOK
<1>2. QED
  BY <1>1, SeenIsRead DEF FirstOfItsId

(* PrefixInv says of the positions read what the properties say of Seen. *)
LEMMA PrefixImplies ==
  ASSUME PrefixInv
  PROVE  LoopMeetsDefinition /\ OneResultPerId /\ ParsedIdsDistinct
<1>0. TypeOK
  BY DEF PrefixInv
<1>1. parsed = Parsed(Seen)
  BY <1>0, SeenIsRead, SeenIsFirst DEF PrefixInv, Parsed, Fresh
<1>2. rejects = RejectedOnSight(Seen)
  BY <1>0, SeenIsRead, SeenIsFirst DEF PrefixInv, RejectedOnSight, IdsOf, Refused
<1>3. {order[n] : n \in DOMAIN order} = Reported(Seen)
  BY <1>0, SeenIsRead DEF PrefixInv, Reported, IdsOf, Named
<1>4. ASSUME NEW j \in parsed, NEW k \in parsed, batch[j].id = batch[k].id, j < k
      PROVE  FALSE
  <2>1. j \in 1 .. k - 1
    BY <1>0, <1>4 DEF TypeOK
  <2>2. Fresh(j) /\ Fresh(k)
    BY DEF PrefixInv
  <2>3. QED
    BY <1>4, <2>1, <2>2 DEF Fresh, FirstOfItsId
<1>5. ParsedIdsDistinct
  <2> SUFFICES ASSUME NEW j \in parsed, NEW k \in parsed, batch[j].id = batch[k].id
               PROVE  j = k
    BY DEF ParsedIdsDistinct
  <2>1. j \in Int /\ k \in Int
    BY <1>0 DEF TypeOK
  <2>2. ~(j < k) /\ ~(k < j)
    BY <1>4
  <2>3. QED
    BY <2>1, <2>2
<1>6. QED
  BY <1>1, <1>2, <1>3, <1>5 DEF LoopMeetsDefinition, OneResultPerId, PrefixInv

-----------------------------------------------------------------------------
(* The loop of push_sync keeps its variables in shape: positions that have *)
(* been read, ids that a batch may name.                                   *)
THEOREM TypeCorrect == Spec => []TypeOK
<1>1. PrefixInv => TypeOK
  BY DEF PrefixInv
<1>2. QED
  BY <1>1, PrefixInvariant, PTL

(* For a batch of any length the validation loop keeps and rejects what    *)
(* PushBatch says, so that SyncPush may use those definitions in its place.*)
THEOREM LoopIsItsDefinition == Spec => []LoopMeetsDefinition
<1>1. PrefixInv => LoopMeetsDefinition
  BY PrefixImplies
<1>2. QED
  BY <1>1, PrefixInvariant, PTL

(* Every usable id of a batch is answered, and answered once: `order`      *)
(* lists the ids of the batch without repetition.                          *)
THEOREM EveryIdAnswered == Spec => []OneResultPerId
<1>1. PrefixInv => OneResultPerId
  BY PrefixImplies
<1>2. QED
  BY <1>1, PrefixInvariant, PTL

(* No id reaches the upsert twice, where PostgreSQL would fail the whole   *)
(* statement.                                                              *)
THEOREM NoIdTwice == Spec => []ParsedIdsDistinct
<1>1. PrefixInv => ParsedIdsDistinct
  BY PrefixImplies
<1>2. QED
  BY <1>1, PrefixInvariant, PTL
=============================================================================
