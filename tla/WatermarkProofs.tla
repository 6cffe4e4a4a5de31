-------------------------- MODULE WatermarkProofs --------------------------
(***************************************************************************)
(* More about Webhook, on top of WebhookProofs: the comparison of          *)
(* timestamps without a lock keeps the newest event in force for every     *)
(* user of whom no two transitions overlapped.                             *)
(***************************************************************************)
EXTENDS WebhookProofs

AppliedTo(u) == {e \in applied : e.user = u}

(* The transition of handler h was compared and is not committed yet. *)
Underway(h) == pc[h] = "upsert" \/ proposed[h] # NULL

(* The inductive invariant: the row of a user shows the newest event, and  *)
(* a transition that is underway is still not older than the row.          *)
ForceInv ==
  /\ \A u \in Users \ raced : ShowsNewest(ent[u], AppliedTo(u))
  /\ \A h \in Handlers :
       Underway(h) /\ event[h].user \notin raced =>
         ~ Stale(event[h], ent[event[h].user])

-----------------------------------------------------------------------------
(* What is merged into the row is then the newest event of its user.       *)

LEMMA LastIsNewest ==
  ASSUME NEW A, NEW e, e.ts \in Nat, \A f \in A : f.ts <= e.ts
  PROVE  e \in Newest(A \cup {e})
BY DEF Newest

(* What ShowsNewest says of each optional column. *)
ProductShown(value, A) ==
  LatestKnown(value, {f \in A : f.product # NULL}, LAMBDA f : f.product)

StoreShown(value, A) ==
  LatestKnown(value, {f \in A : ResolveStore(f.store) # NULL},
              LAMBDA f : ResolveStore(f.store))

PeriodShown(value, A) ==
  LatestKnown(value, {f \in A : f.expiration # NULL}, LAMBDA f : f.expiration)

(* The optional columns, one by one: a value the event carries is the      *)
(* newest one, and if it carries none the column and the events that       *)
(* carried a value stay as they are.                                       *)
LEMMA ProductShowsNewest ==
  ASSUME NEW A, NEW e, e.ts \in Nat, \A f \in A : f.ts <= e.ts,
         NEW old, ProductShown(old, A),
         NEW new, new = IF e.product = NULL THEN old ELSE e.product
  PROVE  ProductShown(new, A \cup {e})
<1> DEFINE C == {f \in A : f.product # NULL}
           D == {f \in A \cup {e} : f.product # NULL}
<1>1. CASE e.product = NULL
  <2>1. D = C /\ new = old
    BY <1>1
  <2>2. QED
    BY <2>1 DEF ProductShown, LatestKnown
<1>2. CASE e.product # NULL
  <2>1. D = C \cup {e} /\ new = e.product
    BY <1>2
  <2>2. e \in Newest(D)
    BY <2>1, LastIsNewest
  <2>3. QED
    BY <2>1, <2>2 DEF ProductShown, LatestKnown
<1>3. QED
  BY <1>1, <1>2

LEMMA StoreShowsNewest ==
  ASSUME NEW A, NEW e, e.ts \in Nat, \A f \in A : f.ts <= e.ts,
         NEW old, StoreShown(old, A),
         NEW new, new = IF ResolveStore(e.store) = NULL THEN old ELSE ResolveStore(e.store)
  PROVE  StoreShown(new, A \cup {e})
<1> DEFINE C == {f \in A : ResolveStore(f.store) # NULL}
           D == {f \in A \cup {e} : ResolveStore(f.store) # NULL}
<1>1. CASE ResolveStore(e.store) = NULL
  <2>1. D = C /\ new = old
    BY <1>1
  <2>2. QED
    BY <2>1 DEF StoreShown, LatestKnown
<1>2. CASE ResolveStore(e.store) # NULL
  <2>1. D = C \cup {e} /\ new = ResolveStore(e.store)
    BY <1>2
  <2>2. e \in Newest(D)
    BY <2>1, LastIsNewest
  <2>3. QED
    BY <2>1, <2>2 DEF StoreShown, LatestKnown
<1>3. QED
  BY <1>1, <1>2

LEMMA PeriodShowsNewest ==
  ASSUME NEW A, NEW e, e.ts \in Nat, \A f \in A : f.ts <= e.ts,
         NEW old, PeriodShown(old, A),
         NEW new, new = IF e.expiration = NULL THEN old ELSE e.expiration
  PROVE  PeriodShown(new, A \cup {e})
<1> DEFINE C == {f \in A : f.expiration # NULL}
           D == {f \in A \cup {e} : f.expiration # NULL}
<1>1. CASE e.expiration = NULL
  <2>1. D = C /\ new = old
    BY <1>1
  <2>2. QED
    BY <2>1 DEF PeriodShown, LatestKnown
<1>2. CASE e.expiration # NULL
  <2>1. D = C \cup {e} /\ new = e.expiration
    BY <1>2
  <2>2. e \in Newest(D)
    BY <2>1, LastIsNewest
  <2>3. QED
    BY <2>1, <2>2 DEF PeriodShown, LatestKnown
<1>3. QED
  BY <1>1, <1>2

(* The row shows no event older than the newest applied one.               *)
LEMMA RowBoundsApplied ==
  ASSUME NEW A, NEW row, ShowsNewest(row, A), row # NULL
  PROVE  \A f \in A : f.ts <= row.ts
BY DEF ShowsNewest, Newest

LEMMA MergeShowsNewest ==
  ASSUME NEW A \in SUBSET Event, NEW old \in Row \cup {NULL}, ShowsNewest(old, A),
         NEW e \in Event, Handled(e), ~ Stale(e, old)
  PROVE  ShowsNewest(Merged(old, e), A \cup {e})
<1> DEFINE new == Merged(old, e)
           B == A \cup {e}
<1>1. e.ts \in Nat /\ new # NULL /\ new.ts = e.ts
  BY MergedType DEF Event
<1>2. CASE old = NULL
  <2>1. A = {} /\ B = {e}
    BY <1>2 DEF ShowsNewest
  <2>2. /\ new.tier = Proposed(e).tier /\ new.status = Proposed(e).status
        /\ new.product = e.product
        /\ new.store = ResolveStore(e.store)
        /\ new.periodEnd = e.expiration
    BY <1>2 DEF Merged, Proposed
  <2>3. e \in Newest(B)
    BY <1>1, <2>1 DEF Newest
  <2>4. \E f \in Newest(B) : new.ts = f.ts /\ new.tier = Proposed(f).tier
                                           /\ new.status = Proposed(f).status
    BY <1>1, <2>2, <2>3
  <2>5. /\ ProductShown(NULL, {})
        /\ StoreShown(NULL, {})
        /\ PeriodShown(NULL, {})
    BY DEF ProductShown, StoreShown, PeriodShown, LatestKnown
  <2>6. \A f \in A : f.ts <= e.ts
    BY <2>1
  <2>7. ProductShown(new.product, B)
    BY <1>1, <2>1, <2>2, <2>5, <2>6, ProductShowsNewest
  <2>8. StoreShown(new.store, B)
    BY <1>1, <2>1, <2>2, <2>5, <2>6, StoreShowsNewest
  <2>9. PeriodShown(new.periodEnd, B)
    BY <1>1, <2>1, <2>2, <2>5, <2>6, PeriodShowsNewest
  <2>10. QED
    BY <1>1, <2>1, <2>4, <2>7, <2>8, <2>9
    DEF ShowsNewest, ProductShown, StoreShown, PeriodShown
<1>3. CASE old # NULL
  <2>1. old \in Row /\ old.ts \in Nat /\ old.ts <= e.ts
    BY <1>1, <1>3, EntitlementAssumption DEF Stale, Row
  <2>2. \A f \in A : f.ts <= e.ts
    <3>1. \A f \in A : f.ts <= old.ts
      BY <1>3, RowBoundsApplied
    <3>2. QED
      BY <1>1, <2>1, <3>1 DEF Event
  <2>3. /\ new.tier = Proposed(e).tier /\ new.status = Proposed(e).status
        /\ new.product = IF e.product = NULL THEN old.product ELSE e.product
        /\ new.store = IF ResolveStore(e.store) = NULL THEN old.store
                       ELSE ResolveStore(e.store)
        /\ new.periodEnd = IF e.expiration = NULL THEN old.periodEnd ELSE e.expiration
    BY <1>3 DEF Merged, Proposed
  <2>4. e \in Newest(B)
    BY <1>1, <2>2, LastIsNewest
  <2>5. \E f \in Newest(B) : new.ts = f.ts /\ new.tier = Proposed(f).tier
                                           /\ new.status = Proposed(f).status
    BY <1>1, <2>3, <2>4
  <2>6. /\ ProductShown(old.product, A)
        /\ StoreShown(old.store, A)
        /\ PeriodShown(old.periodEnd, A)
    BY <1>3 DEF ShowsNewest, ProductShown, StoreShown, PeriodShown
  <2>7. ProductShown(new.product, B)
    BY <1>1, <2>2, <2>3, <2>6, ProductShowsNewest
  <2>8. StoreShown(new.store, B)
    BY <1>1, <2>2, <2>3, <2>6, StoreShowsNewest
  <2>9. PeriodShown(new.periodEnd, B)
    BY <1>1, <2>2, <2>3, <2>6, PeriodShowsNewest
  <2>10. QED
    BY <1>1, <2>5, <2>7, <2>8, <2>9
    DEF ShowsNewest, ProductShown, StoreShown, PeriodShown
<1>4. QED
  BY <1>2, <1>3
-----------------------------------------------------------------------------
(* The invariant holds. *)

LEMMA ForceInit == Init => ForceInv
<1> SUFFICES ASSUME Init PROVE ForceInv
  OBVIOUS
<1>1. \A u \in Users : ShowsNewest(ent[u], AppliedTo(u))
  BY DEF Init, ShowsNewest, AppliedTo
<1>2. \A h \in Handlers : ~ Underway(h)
  BY DEF Init, Underway
<1>3. QED
  BY <1>1, <1>2 DEF ForceInv

(* A step that commits no transition: only the comparison puts one under   *)
(* way, and it has found the event no older than the row.                  *)
LEMMA ForceKept ==
  ASSUME ForceInv, UNCHANGED <<ent, applied, raced>>,
         \A h \in Handlers :
           Underway(h)' => \/ Underway(h) /\ event'[h] = event[h]
                           \/ ~ Stale(event[h], ent[event[h].user])
                              /\ event'[h] = event[h]
  PROVE  ForceInv'
<1>1. \A u \in Users \ raced' : ShowsNewest(ent'[u], AppliedTo(u)')
  BY DEF ForceInv, AppliedTo
<1>2. ASSUME NEW h \in Handlers, Underway(h)', event'[h].user \notin raced'
      PROVE  ~ Stale(event'[h], ent'[event'[h].user])
  BY <1>2 DEF ForceInv
<1>3. QED
  BY <1>1, <1>2 DEF ForceInv

(* A handler keeps its transition under way only by going on.              *)
LEMMA EndRequestForce ==
  ASSUME TypeOK, ForceInv, NEW h \in Handlers, EndRequest(h)
  PROVE  ForceInv'
<1>1. UNCHANGED <<ent, applied, raced>>
  BY DEF EndRequest, storeVars, historyVars
<1>2. \A g \in Handlers : Underway(g)' => Underway(g) /\ event'[g] = event[g]
  BY DEF EndRequest, Underway, TypeOK
<1>3. QED
  BY <1>1, <1>2, ForceKept

LEMMA CommitForce ==
  ASSUME SafeInv, ForceInv, NEW h \in Handlers, Commit(h)
  PROVE  ForceInv'
<1> DEFINE e == event[h]
           u == e.user
<1> USE OutcomesAreNoNull
<1>1. TypeOK /\ TypeInv /\ pc[h] = "commit"
  BY DEF SafeInv, TypeInv, Commit, Goto
<1>2. /\ \A g \in Handlers \ {h} : (Underway(g)' <=> Underway(g)) /\ event'[g] = event[g]
      /\ ~ Underway(h)'
  BY <1>1 DEF Commit, Goto, Underway, TypeOK
<1>3. CASE outcome[h] # "applied"
  <2>1. UNCHANGED <<ent, applied, raced>>
    BY <1>3 DEF Commit
  <2>2. QED
    BY <1>2, <2>1, ForceKept
<1>4. CASE outcome[h] = "applied"
  <2>1. /\ e \in Event /\ Handled(e)
        /\ u \in Users
        /\ ent[u] \in Row \cup {NULL}
    BY <1>1, <1>4, WebhookAssumption DEF TypeInv, TypeOK, Progressing
  <2>2. proposed[h] = Merged(ent[u], e) /\ proposed[h] # NULL
    BY <1>1, <1>4, <2>1, MergedType DEF SafeInv, Proposals
  <2>3. /\ ent' = [ent EXCEPT ![u] = Merged(ent[u], e)]
        /\ applied' = applied \cup {e}
        /\ raced' = raced \cup (IF Overlapped(h) THEN {u} ELSE {})
    BY <1>4, <2>2 DEF Commit
  <2>4. \A v \in Users : ent'[v] = IF v = u THEN Merged(ent[u], e) ELSE ent[v]
    BY <1>1, <2>3 DEF TypeOK
  <2>5. ASSUME NEW v \in Users, v \notin raced'
        PROVE  ShowsNewest(ent'[v], AppliedTo(v)')
    <3>1. v \notin raced /\ ShowsNewest(ent[v], AppliedTo(v))
      BY <2>3, <2>5 DEF ForceInv
    <3>2. CASE v # u
      <4>1. AppliedTo(v)' = AppliedTo(v) /\ ent'[v] = ent[v]
        BY <2>3, <2>4, <3>2 DEF AppliedTo
      <4>2. QED
        BY <3>1, <4>1
    <3>3. CASE v = u
      <4>1. AppliedTo(v)' = AppliedTo(v) \cup {e}
        BY <2>3, <3>3 DEF AppliedTo
      <4>2. ~ Stale(e, ent[u])
        BY <2>2, <3>1, <3>3 DEF ForceInv, Underway
      <4>3. AppliedTo(v) \in SUBSET Event
        BY <1>1, WebhookAssumption DEF TypeOK, AppliedTo
      <4>4. ShowsNewest(Merged(ent[u], e), AppliedTo(v) \cup {e})
        BY <2>1, <3>1, <3>3, <4>2, <4>3, MergeShowsNewest
      <4>5. QED
        BY <2>4, <3>3, <4>1, <4>4
    <3>4. QED
      BY <3>2, <3>3
  <2>6. ASSUME NEW g \in Handlers, Underway(g)', event'[g].user \notin raced'
        PROVE  ~ Stale(event'[g], ent'[event'[g].user])
    <3>1. g # h /\ Underway(g) /\ event'[g] = event[g]
      BY <1>2, <2>6
    <3>2. event[g] # NULL /\ event[g].user \in Users
      BY <1>1, <3>1 DEF TypeInv, TypeOK, Progressing, Underway
    <3>3. event[g].user # u
      <4> SUFFICES ASSUME event[g].user = u PROVE FALSE
        OBVIOUS
      <4>1. Overlapped(h)
        BY <3>1, <3>2 DEF Overlapped, Underway
      <4>2. QED
        BY <2>3, <2>6, <3>1, <4>1
    <3>4. ~ Stale(event[g], ent[event[g].user])
      BY <2>3, <2>6, <3>1 DEF ForceInv
    <3>5. QED
      BY <2>4, <3>1, <3>2, <3>3, <3>4
  <2>7. QED
    BY <2>5, <2>6 DEF ForceInv
<1>5. QED
  BY <1>3, <1>4

LEMMA ForceStep ==
  ASSUME SafeInv, ForceInv, [Next]_vars
  PROVE  ForceInv'
<1>0. TypeOK
  BY DEF SafeInv, TypeInv
<1> USE OutcomesAreNoNull
<1>1. ASSUME NEW u \in Users, Register(u)
      PROVE  ForceInv'
  BY <1>1, ForceKept DEF Register, handlerVars, historyVars, Underway
<1>2. CASE ConfigureSecret
  BY <1>2, ForceKept DEF ConfigureSecret, handlerVars, storeVars, historyVars,
                         Underway
<1>3. ASSUME NEW h \in Handlers, NEW e \in Events, Deliver(h, e)
      PROVE  ForceInv'
  <2>1. \A g \in Handlers : Underway(g)' => Underway(g) /\ event'[g] = event[g]
    BY <1>0, <1>3 DEF Deliver, Goto, TypeOK, Underway
  <2>2. QED
    BY <1>3, <2>1, ForceKept DEF Deliver, storeVars, historyVars
<1>4. ASSUME NEW h \in Handlers, RecordEvent(h)
      PROVE  ForceInv'
  <2>1. \A g \in Handlers : Underway(g)' => Underway(g) /\ event'[g] = event[g]
    BY <1>0, <1>4 DEF RecordEvent, Decide, Goto, TypeOK, Underway
  <2>2. QED
    BY <1>4, <2>1, ForceKept DEF RecordEvent, storeVars, historyVars
<1>5. ASSUME NEW h \in Handlers, FindUser(h)
      PROVE  ForceInv'
  <2>1. \A g \in Handlers : Underway(g)' => Underway(g) /\ event'[g] = event[g]
    BY <1>0, <1>5 DEF FindUser, Decide, Goto, TypeOK, Underway
  <2>2. QED
    BY <1>5, <2>1, ForceKept DEF FindUser, storeVars
<1>6. ASSUME NEW h \in Handlers, CompareWatermark(h)
      PROVE  ForceInv'
  <2>1. \A g \in Handlers \ {h} : Underway(g)' => Underway(g) /\ event'[g] = event[g]
    BY <1>0, <1>6 DEF CompareWatermark, Decide, Goto, TypeOK, Underway
  <2>2. event'[h] = event[h]
    BY <1>6 DEF CompareWatermark
  <2>3. Underway(h)' => ~ Stale(event[h], ent[event[h].user])
    BY <1>0, <1>6 DEF CompareWatermark, Decide, Goto, TypeOK, Underway
  <2>4. QED
    BY <1>6, <2>1, <2>2, <2>3, ForceKept DEF CompareWatermark, storeVars, historyVars
<1>7. ASSUME NEW h \in Handlers, ApplyTransition(h)
      PROVE  ForceInv'
  <2>1. \A g \in Handlers : Underway(g)' => Underway(g) /\ event'[g] = event[g]
    BY <1>0, <1>7 DEF ApplyTransition, Decide, Goto, TypeOK, Underway
  <2>2. QED
    BY <1>7, <2>1, ForceKept DEF ApplyTransition, storeVars, historyVars
<1>8. ASSUME NEW h \in Handlers, Commit(h)
      PROVE  ForceInv'
  BY <1>8, CommitForce
<1>9. ASSUME NEW h \in Handlers, Respond(h) \/ Refuse(h) \/ Abort(h)
      PROVE  ForceInv'
  BY <1>0, <1>9, EndRequestForce DEF Respond, Refuse, Abort
<1>10. CASE UNCHANGED vars
  BY <1>10, ForceKept DEF vars, handlerVars, storeVars, historyVars, Underway
<1>11. QED
  BY <1>1, <1>2, <1>3, <1>4, <1>5, <1>6, <1>7, <1>8, <1>9, <1>10
  DEF Next, Step, Settled

(* What was recorded and is not shown was found older than the row, had no *)
(* user or has no transition: it bounds nothing the row does not bound.    *)
LEMMA ForceSuffices ==
  ASSUME SafeInv, ForceInv
  PROVE  NewestInForceUnlessRaced
<1> SUFFICES ASSUME NEW u \in Users \ raced
             PROVE  /\ ShowsNewest(ent[u], AppliedTo(u))
                    /\ \A e \in Events \ early :
                         e.id \in processed /\ e.user = u /\ Handled(e) =>
                           e.ts <= ent[u].ts
  BY DEF NewestInForceUnlessRaced, AppliedTo
<1>1. ShowsNewest(ent[u], AppliedTo(u))
  BY DEF ForceInv
<1>2. ASSUME NEW e \in Events \ early, e.id \in processed, e.user = u, Handled(e)
      PROVE  e.ts <= ent[u].ts
  <2>1. \E f \in AppliedTo(u) : e.ts <= f.ts
    <3>1. e \in applied \/ Overtaken(e)
      BY <1>2 DEF SafeInv, Accounted
    <3>2. e \in Event /\ applied \subseteq Event
      BY WebhookAssumption DEF SafeInv, TypeInv, TypeOK
    <3>3. QED
      BY <1>2, <3>1, <3>2 DEF AppliedTo, Overtaken, Event
  <2>2. PICK f \in AppliedTo(u) : e.ts <= f.ts
    BY <2>1
  <2>3. ent[u] # NULL
    BY <1>1, <2>2 DEF ShowsNewest
  <2>4. f.ts <= ent[u].ts
    BY <1>1, <2>2, <2>3, RowBoundsApplied
  <2>5. e.ts \in Nat /\ f.ts \in Nat /\ ent[u].ts \in Nat
    BY <2>2, <2>3, WebhookAssumption
    DEF SafeInv, TypeInv, TypeOK, AppliedTo, Event, Row
  <2>6. QED
    BY <2>2, <2>4, <2>5
<1>3. QED
  BY <1>1, <1>2

(* Events may come late, twice and out of order, and are compared without  *)
(* a lock: unless two transitions of a user overlapped, the row shows the  *)
(* newest event recorded for the user, in every optional column the value  *)
(* of the newest applied event that carried one.                           *)
THEOREM NewestInForce == Spec => []NewestInForceUnlessRaced
<1>1. SafeInv /\ ForceInv /\ [Next]_vars => ForceInv'
  BY ForceStep
<1>2. SafeInv /\ ForceInv => NewestInForceUnlessRaced
  BY ForceSuffices
<1>3. QED
  BY SafeInvariant, ForceInit, <1>1, <1>2, PTL DEF Spec
=============================================================================
