--------------------------- MODULE WebhookProofs ---------------------------
(***************************************************************************)
(* Proofs about Webhook for every number of handlers, users and events and *)
(* any number of crashes.                                                  *)
(***************************************************************************)
EXTENDS Webhook, TLAPS

-----------------------------------------------------------------------------
(* The merge of an event into a row. *)

LEMMA EventStateType ==
  ASSUME NEW e \in Event, Handled(e)
  PROVE  /\ EventState[e.type].tier \in Tiers
         /\ EventState[e.type].status \in Statuses
<1>1. e.type \in {"INITIAL_PURCHASE", "RENEWAL", "PRODUCT_CHANGE",
                  "UNCANCELLATION", "CANCELLATION", "BILLING_ISSUE",
                  "EXPIRATION"}
  BY DEF Handled, EventState
<1>2. QED
  BY <1>1 DEF EventState, Tiers, Statuses

LEMMA StoreType ==
  ASSUME NEW raw \in RawStores \cup {NULL}
  PROVE  ResolveStore(raw) \in Stores \cup {NULL}
<1>1. DOMAIN StoreMap = {"APP_STORE", "MAC_APP_STORE", "PLAY_STORE", "STRIPE"}
  BY DEF StoreMap
<1>2. QED
  BY <1>1 DEF ResolveStore, Upper, StoreMap, Stores

LEMMA MergedType ==
  ASSUME NEW old \in Row \cup {NULL}, NEW e \in Event, Handled(e)
  PROVE  /\ Merged(old, e) \in Row
         /\ Merged(old, e) # NULL
         /\ Merged(old, e).ts = e.ts
<1>1. Proposed(e) \in Row /\ Proposed(e).ts = e.ts
  BY EventStateType, StoreType DEF Proposed, Row, Event
<1>2. Merged(old, e) \in Row /\ Merged(old, e).ts = e.ts
  BY <1>1 DEF Merged, Row
<1>3. QED
  BY <1>2, EntitlementAssumption

-----------------------------------------------------------------------------
(* Type correctness.  The upsert needs a user and a transition, which the  *)
(* handler has found on its way.                                           *)

Progressing ==
  \A h \in Handlers :
    /\ pc[h] \in {"compare", "upsert"} \/ outcome[h] = "applied"
         => event[h].user \in users
    /\ pc[h] = "upsert" \/ outcome[h] = "applied" => Handled(event[h])

TypeInv == TypeOK /\ Progressing

LEMMA OutcomesAreNoNull ==
  /\ "duplicate" # NULL /\ "unmatched" # NULL /\ "stale" # NULL
  /\ "unhandled" # NULL /\ "applied" # NULL
BY WebhookAssumption DEF Outcomes

LEMMA TypeInit == Init => TypeInv
BY OutcomesAreNoNull, WebhookAssumption
DEF Init, TypeInv, TypeOK, Progressing, Outcomes

LEMMA EndRequestType ==
  ASSUME TypeInv, NEW h \in Handlers, EndRequest(h),
         cutOffs' \in 0 .. MaxCutOffs, acked' \subseteq Events
  PROVE  TypeInv'
BY OutcomesAreNoNull, WebhookAssumption
DEF TypeInv, TypeOK, Progressing, Outcomes, EndRequest, storeVars, historyVars

LEMMA TypeStep ==
  ASSUME TypeInv, [Next]_vars
  PROVE  TypeInv'
<1> USE OutcomesAreNoNull, WebhookAssumption DEF TypeInv, Outcomes
<1>1. ASSUME NEW u \in Users, Register(u)
      PROVE  TypeInv'
  BY <1>1 DEF Register, TypeOK, Progressing, handlerVars, historyVars
<1>2. CASE ConfigureSecret
  BY <1>2 DEF ConfigureSecret, TypeOK, Progressing, handlerVars, storeVars,
              historyVars
<1>3. ASSUME NEW h \in Handlers, NEW e \in Events, Deliver(h, e)
      PROVE  TypeInv'
  BY <1>3 DEF Deliver, Goto, TypeOK, Progressing, storeVars, historyVars
<1>4. ASSUME NEW h \in Handlers, RecordEvent(h)
      PROVE  TypeInv'
  <2>1. CASE event[h].id \in processed
    BY <1>4, <2>1 DEF RecordEvent, Decide, Goto, TypeOK, Progressing, storeVars,
                      historyVars
  <2>2. CASE event[h].id \notin processed
    BY <1>4, <2>2 DEF RecordEvent, Decide, Goto, TypeOK, Progressing, storeVars,
                      historyVars
  <2>3. QED
    BY <2>1, <2>2
<1>5. ASSUME NEW h \in Handlers, FindUser(h)
      PROVE  TypeInv'
  <2>1. event[h] \in Events
    BY <1>5 DEF FindUser, TypeOK
  <2>2. CASE event[h].user \in users
    BY <1>5, <2>2 DEF FindUser, Goto, TypeOK, Progressing, storeVars
  <2>3. CASE event[h].user \notin users
    BY <1>5, <2>1, <2>3 DEF FindUser, Decide, Goto, TypeOK, Progressing, storeVars
  <2>4. QED
    BY <2>2, <2>3
<1>6. ASSUME NEW h \in Handlers, CompareWatermark(h)
      PROVE  TypeInv'
  <2>1. CASE Stale(event[h], ent[event[h].user])
    BY <1>6, <2>1 DEF CompareWatermark, Decide, Goto, TypeOK, Progressing,
                      storeVars, historyVars
  <2>2. CASE ~Stale(event[h], ent[event[h].user]) /\ ~Handled(event[h])
    BY <1>6, <2>2 DEF CompareWatermark, Decide, Goto, TypeOK, Progressing,
                      storeVars, historyVars
  <2>3. CASE ~Stale(event[h], ent[event[h].user]) /\ Handled(event[h])
    BY <1>6, <2>3 DEF CompareWatermark, Decide, Goto, TypeOK, Progressing,
                      storeVars, historyVars
  <2>4. QED
    BY <2>1, <2>2, <2>3
<1>7. ASSUME NEW h \in Handlers, ApplyTransition(h)
      PROVE  TypeInv'
  <2>1. /\ event[h] \in Event
        /\ event[h].user \in Users
        /\ Handled(event[h])
        /\ ent[event[h].user] \in Row \cup {NULL}
    BY <1>7 DEF ApplyTransition, Decide, Goto, TypeOK, Progressing
  <2>2. Merged(ent[event[h].user], event[h]) \in Row
    BY <2>1, MergedType
  <2>3. QED
    BY <1>7, <2>2 DEF ApplyTransition, Decide, Goto, TypeOK, Progressing,
                      storeVars, historyVars
<1>8. ASSUME NEW h \in Handlers, Commit(h)
      PROVE  TypeInv'
  <2>1. event[h] \in Events /\ event[h] \in Event
    BY <1>8 DEF Commit, Goto, TypeOK
  <2>2. event[h].id \in EventIds
    BY <2>1 DEF Event
  <2>3. CASE outcome[h] = "applied"
    <3>1. event[h].user \in Users
      BY <2>3 DEF TypeOK, Progressing
    <3>2. QED
      BY <1>8, <2>1, <2>2, <2>3, <3>1 DEF Commit, Goto, TypeOK, Progressing
  <2>4. CASE outcome[h] # "applied"
    BY <1>8, <2>1, <2>2, <2>4 DEF Commit, Goto, TypeOK, Progressing
  <2>5. QED
    BY <2>3, <2>4
<1>9. ASSUME NEW h \in Handlers, Respond(h)
      PROVE  TypeInv'
  <2>1. cutOffs' \in 0 .. MaxCutOffs /\ acked' \subseteq Events
    BY <1>9 DEF Respond, TypeOK
  <2>2. QED
    BY <1>9, <2>1, EndRequestType DEF Respond
<1>10. ASSUME NEW h \in Handlers, Refuse(h)
       PROVE  TypeInv'
  BY <1>10, EndRequestType DEF Refuse, TypeOK
<1>11. ASSUME NEW h \in Handlers, Abort(h)
       PROVE  TypeInv'
  <2>1. cutOffs' \in 0 .. MaxCutOffs /\ acked' \subseteq Events
    BY <1>11 DEF Abort, TypeOK
  <2>2. QED
    BY <1>11, <2>1, EndRequestType DEF Abort
<1>12. CASE UNCHANGED vars
  BY <1>12 DEF vars, handlerVars, storeVars, historyVars, TypeOK, Progressing
<1>13. QED
  BY <1>1, <1>2, <1>3, <1>4, <1>5, <1>6, <1>7, <1>8, <1>9, <1>10, <1>11, <1>12
  DEF Next, Step, Settled

LEMMA TypeInvariant == Spec => []TypeInv
<1>1. TypeInv /\ [Next]_vars => TypeInv'
  BY TypeStep
<1>2. QED
  BY TypeInit, <1>1, PTL DEF Spec

(* Every reachable state is well-typed, a free handler holds no event, and *)
(* an uncommitted row exists only between its upsert and its commit.       *)
THEOREM TypeCorrect == Spec => []TypeOK
<1>1. TypeInv => TypeOK
  BY DEF TypeInv
<1>2. QED
  BY TypeInvariant, <1>1, PTL

-----------------------------------------------------------------------------
(* The safety invariant.  Between its INSERT and its COMMIT a handler has  *)
(* the event to itself (Exclusive), an uncommitted row is the merge of its *)
(* event into the committed row (Proposals), the watermark is the time of  *)
(* an event that was applied (Watermark), and what a handler has decided   *)
(* remains true until it commits (Explained).                              *)

Open(h) == Holds(h, event[h])

Exclusive ==
  \A h \in Handlers :
    Open(h) => /\ event[h].id \notin processed
               /\ \A g \in Handlers \ {h} : Open(g) => event[g] # event[h]

Proposals ==
  /\ \A h \in Handlers :
       pc[h] = "commit" /\ outcome[h] = "applied" =>
         proposed[h] = Merged(ent[event[h].user], event[h])
  /\ \A g, h \in Handlers :
       g # h /\ proposed[g] # NULL /\ proposed[h] # NULL =>
         event[g].user # event[h].user

Watermark ==
  \A u \in Users :
    ent[u] # NULL => \E f \in applied : f.user = u /\ f.ts = ent[u].ts

Overtaken(e) == \E f \in applied : f.user = e.user /\ f.ts > e.ts

Explained ==
  \A h \in Handlers :
    /\ outcome[h] = "duplicate" => event[h].id \in processed
    /\ outcome[h] = "unmatched" => event[h] \in early
    /\ outcome[h] = "stale" => Overtaken(event[h])
    /\ outcome[h] = "unhandled" => ~Handled(event[h])
    /\ pc[h] = "respond" => event[h].id \in processed

Accounted ==
  \A e \in Events :
    e.id \in processed => e \in applied \/ e \in early \/ ~Handled(e) \/ Overtaken(e)

AckedRecorded == \A e \in acked : e.id \in processed

SafeInv ==
  /\ TypeInv
  /\ Exclusive
  /\ Proposals
  /\ Watermark
  /\ Explained
  /\ Accounted
  /\ AckedRecorded

LEMMA SafeInit == Init => SafeInv
<1> SUFFICES ASSUME Init PROVE SafeInv
  OBVIOUS
<1>1. TypeInv
  BY TypeInit
<1>2. Exclusive /\ Proposals /\ Explained
  BY OutcomesAreNoNull DEF Init, Exclusive, Proposals, Explained, Open, Holds
<1>3. Watermark /\ Accounted /\ AckedRecorded
  BY DEF Init, Watermark, Accounted, AckedRecorded
<1>4. QED
  BY <1>1, <1>2, <1>3 DEF SafeInv

(* Every other handler goes on as it was.                                  *)
Others(h) ==
  \A g \in Handlers \ {h} : /\ pc'[g] = pc[g]
                            /\ event'[g] = event[g]
                            /\ outcome'[g] = outcome[g]
                            /\ proposed'[g] = proposed[g]

(* A step of a handler that commits nothing keeps the tables, and what     *)
(* they say of the other handlers.                                         *)
Uncommitting(h) ==
  /\ Others(h)
  /\ UNCHANGED <<processed, ent, applied>>
  /\ early \subseteq early'

(* The conjuncts about one handler. *)
Own(h) ==
  /\ Open(h) => /\ event[h].id \notin processed
                /\ \A g \in Handlers \ {h} : Open(g) => event[g] # event[h]
  /\ pc[h] = "commit" /\ outcome[h] = "applied" =>
       proposed[h] = Merged(ent[event[h].user], event[h])
  /\ \A g \in Handlers \ {h} :
       proposed[g] # NULL /\ proposed[h] # NULL => event[g].user # event[h].user
  /\ outcome[h] = "duplicate" => event[h].id \in processed
  /\ outcome[h] = "unmatched" => event[h] \in early
  /\ outcome[h] = "stale" => Overtaken(event[h])
  /\ outcome[h] = "unhandled" => ~Handled(event[h])
  /\ pc[h] = "respond" => event[h].id \in processed

LEMMA UncommittingStep ==
  ASSUME SafeInv, TypeInv', NEW h \in Handlers, Uncommitting(h), Own(h)',
         \A e \in acked' : e.id \in processed
  PROVE  SafeInv'
<1> USE DEF SafeInv, Uncommitting, Others
<1>1. Exclusive'
  BY DEF Exclusive, Own, Open, Holds
<1>2. Proposals'
  BY DEF Proposals, Own
<1>3. Watermark'
  BY DEF Watermark
<1>4. Explained'
  BY DEF Explained, Own, Overtaken
<1>5. Accounted'
  BY DEF Accounted, Overtaken
<1>6. AckedRecorded'
  BY DEF AckedRecorded
<1>7. QED
  BY <1>1, <1>2, <1>3, <1>4, <1>5, <1>6

LEMMA EndRequestSafe ==
  ASSUME SafeInv, TypeInv', NEW h \in Handlers, EndRequest(h),
         \A e \in acked' : e.id \in processed
  PROVE  SafeInv'
<1> USE OutcomesAreNoNull DEF EndRequest, storeVars, historyVars
<1>1. Uncommitting(h)
  BY DEF Uncommitting, Others, SafeInv, TypeInv, TypeOK
<1>2. Own(h)'
  BY DEF Own, Open, Holds, SafeInv, TypeInv, TypeOK
<1>3. QED
  BY <1>1, <1>2, UncommittingStep

(* The commit: the tables change, for its own event only. *)
LEMMA CommitSafe ==
  ASSUME SafeInv, TypeInv', NEW h \in Handlers, Commit(h)
  PROVE  SafeInv'
<1> DEFINE e == event[h]
<1> USE OutcomesAreNoNull DEF SafeInv, Commit, Goto
<1>1. /\ e \in Events /\ e \in Event
      /\ pc[h] = "commit"
      /\ TypeOK
  BY WebhookAssumption DEF TypeInv, TypeOK
<1>2. /\ Others(h)
      /\ pc'[h] = "respond" /\ event' = event /\ outcome' = outcome
      /\ proposed'[h] = NULL
  BY <1>1 DEF Others, TypeOK
<1>3. /\ processed' = processed \cup {e.id}
      /\ applied \subseteq applied'
      /\ early' = early
  OBVIOUS
<1>4. outcome[h] = "applied" =>
        /\ e.user \in Users
        /\ proposed[h] = Merged(ent[e.user], e)
        /\ proposed[h].ts = e.ts
  <2> SUFFICES ASSUME outcome[h] = "applied"
               PROVE  /\ e.user \in Users
                      /\ proposed[h] = Merged(ent[e.user], e)
                      /\ proposed[h].ts = e.ts
    OBVIOUS
  <2>1. e.user \in Users /\ Handled(e)
    BY <1>1 DEF TypeInv, Progressing, TypeOK
  <2>2. proposed[h] = Merged(ent[e.user], e)
    BY <1>1 DEF Proposals
  <2>3. ent[e.user] \in Row \cup {NULL}
    BY <1>1, <2>1 DEF TypeOK
  <2>4. QED
    BY <1>1, <2>1, <2>2, <2>3, MergedType
<1>5. Exclusive'
  <2> SUFFICES ASSUME NEW k \in Handlers, Open(k)'
               PROVE  /\ event[k].id \notin processed'
                      /\ \A g \in Handlers \ {k} : Open(g)' => event[g] # event[k]
    BY <1>2 DEF Exclusive
  <2>1. k # h
    BY <1>2 DEF Open, Holds
  <2>2. \A g \in Handlers : Open(g)' => g # h /\ Open(g)
    BY <1>2 DEF Open, Holds, Others
  <2>3. event[k].id \notin processed
    BY <2>2 DEF Exclusive
  <2>4. event[k] \in Events
    BY <2>2, <1>1 DEF Open, Holds, TypeOK
  <2>5. event[k].id # e.id
    <3>1. CASE outcome[h] = "duplicate"
      BY <2>3, <3>1 DEF Explained
    <3>2. CASE outcome[h] # "duplicate"
      <4>1. Open(h)
        BY <1>1, <3>2 DEF Open, Holds
      <4>2. event[k] # e
        BY <2>1, <2>2, <4>1 DEF Exclusive
      <4>3. QED
        BY <1>1, <2>4, <4>2, WebhookAssumption
    <3>3. QED
      BY <3>1, <3>2
  <2>6. QED
    BY <1>3, <2>2, <2>3, <2>5 DEF Exclusive
<1>6. Proposals'
  <2>1. ASSUME NEW k \in Handlers, pc'[k] = "commit", outcome'[k] = "applied"
        PROVE  proposed'[k] = Merged(ent'[event'[k].user], event'[k])
    <3>1. k # h /\ pc[k] = "commit" /\ outcome[k] = "applied" /\ proposed'[k] = proposed[k]
      BY <2>1, <1>2 DEF Others
    <3>2. proposed[k] = Merged(ent[event[k].user], event[k])
      BY <3>1 DEF Proposals
    <3>3. /\ event[k] \in Event /\ event[k].user \in Users /\ Handled(event[k])
          /\ ent[event[k].user] \in Row \cup {NULL}
      BY <1>1, <3>1, WebhookAssumption DEF TypeInv, TypeOK, Progressing
    <3>4. proposed[k] # NULL
      BY <3>2, <3>3, MergedType
    <3>5. outcome[h] = "applied" => event[k].user # e.user
      <4> SUFFICES ASSUME outcome[h] = "applied" PROVE event[k].user # e.user
        OBVIOUS
      <4>1. Handled(e) /\ e.user \in Users /\ ent[e.user] \in Row \cup {NULL}
        BY <1>1, <1>4 DEF TypeInv, TypeOK, Progressing
      <4>2. proposed[h] # NULL
        BY <1>1, <1>4, <4>1, MergedType
      <4>3. QED
        BY <3>1, <3>4, <4>2 DEF Proposals
    <3>6. ent'[event[k].user] = ent[event[k].user]
      BY <1>1, <3>3, <3>5 DEF TypeOK
    <3>7. QED
      BY <1>2, <3>1, <3>2, <3>6
  <2>2. \A g, k \in Handlers :
          g # k /\ proposed'[g] # NULL /\ proposed'[k] # NULL =>
            event'[g].user # event'[k].user
    BY <1>2 DEF Others, Proposals
  <2>3. QED
    BY <2>1, <2>2 DEF Proposals
<1>7. Watermark'
  <2> SUFFICES ASSUME NEW u \in Users, ent'[u] # NULL
               PROVE  \E f \in applied' : f.user = u /\ f.ts = ent'[u].ts
    BY DEF Watermark
  <2>1. CASE outcome[h] = "applied" /\ u = e.user
    BY <1>1, <1>4, <2>1 DEF TypeOK
  <2>2. CASE ~(outcome[h] = "applied" /\ u = e.user)
    <3>1. ent'[u] = ent[u]
      BY <1>1, <2>2 DEF TypeOK
    <3>2. QED
      BY <1>3, <3>1 DEF Watermark
  <2>3. QED
    BY <2>1, <2>2
<1>8. Explained'
  BY <1>1, <1>2, <1>3 DEF Explained, Overtaken, Others
<1>9. Accounted'
  <2> SUFFICES ASSUME NEW f \in Events, f.id \in processed'
               PROVE  f \in applied' \/ f \in early' \/ ~Handled(f) \/ Overtaken(f)'
    BY DEF Accounted
  <2>1. CASE f.id \in processed
    BY <1>3, <2>1 DEF Accounted, Overtaken
  <2>2. CASE f.id \notin processed
    <3>1. f = e
      BY <1>1, <1>3, <2>2, WebhookAssumption
    <3>2. outcome[h] \in Outcomes
      BY <1>1 DEF TypeOK
    <3>3. outcome[h] = "stale" => Overtaken(e)'
      BY <1>3 DEF Explained, Overtaken
    <3>4. QED
      BY <1>3, <2>2, <3>1, <3>2, <3>3 DEF Explained, Outcomes
  <2>3. QED
    BY <2>1, <2>2
<1>10. AckedRecorded'
  BY <1>3 DEF AckedRecorded
<1>11. QED
  BY <1>5, <1>6, <1>7, <1>8, <1>9, <1>10

LEMMA SafeStep ==
  ASSUME SafeInv, [Next]_vars
  PROVE  SafeInv'
<1>0. TypeInv' /\ TypeInv /\ TypeOK
  BY TypeStep DEF SafeInv, TypeInv
<1>a. \A e \in acked : e.id \in processed
  BY DEF SafeInv, AckedRecorded
<1> USE OutcomesAreNoNull
<1>1. ASSUME NEW u \in Users, Register(u)
      PROVE  SafeInv'
  BY <1>0, <1>1 DEF Register, handlerVars, historyVars, SafeInv, Exclusive, Proposals,
     Watermark, Explained, Accounted, AckedRecorded, Open, Holds, Overtaken
<1>2. CASE ConfigureSecret
  BY <1>0, <1>2 DEF ConfigureSecret, handlerVars, storeVars, historyVars, SafeInv,
     Exclusive, Proposals, Watermark, Explained, Accounted, AckedRecorded, Open, Holds,
     Overtaken
<1>3. ASSUME NEW h \in Handlers, NEW e \in Events, Deliver(h, e)
      PROVE  SafeInv'
  <2>1. Uncommitting(h)
    BY <1>0, <1>3 DEF Deliver, Goto, Uncommitting, Others, TypeOK, storeVars, historyVars
  <2>2. Own(h)'
    BY <1>0, <1>3 DEF Deliver, Goto, Own, Open, Holds, TypeOK, storeVars, historyVars
  <2>3. acked' = acked /\ processed' = processed
    BY <1>3 DEF Deliver, storeVars
  <2>4. QED
    BY <1>0, <1>a, <2>1, <2>2, <2>3, UncommittingStep
<1>4. ASSUME NEW h \in Handlers, RecordEvent(h)
      PROVE  SafeInv'
  <2>1. Uncommitting(h)
    BY <1>0, <1>4 DEF RecordEvent, Decide, Goto, Uncommitting, Others, TypeOK,
                      storeVars, historyVars
  <2>2. Own(h)'
    <3>1. CASE event[h].id \in processed
      BY <1>0, <1>4, <3>1 DEF RecordEvent, Decide, Goto, Own, Open, Holds, TypeOK,
                              storeVars, historyVars
    <3>2. CASE event[h].id \notin processed
      <4>1. \A g \in Handlers \ {h} : Open(g) => event[g] # event[h]
        BY <1>4 DEF RecordEvent, Open, Holds
      <4>2. \A g \in Handlers \ {h} : Open(g)' = Open(g)
        BY <2>1, <1>4 DEF Uncommitting, Others, Open, Holds
      <4>3. QED
        BY <1>0, <1>4, <3>2, <4>1, <4>2 DEF RecordEvent, Decide, Goto, Own, TypeOK,
                              storeVars, historyVars
    <3>3. QED
      BY <3>1, <3>2
  <2>3. acked' = acked /\ processed' = processed
    BY <1>4 DEF RecordEvent, storeVars
  <2>4. QED
    BY <1>0, <1>a, <2>1, <2>2, <2>3, UncommittingStep
<1>5. ASSUME NEW h \in Handlers, FindUser(h)
      PROVE  SafeInv'
  <2>1. Uncommitting(h)
    BY <1>0, <1>5 DEF FindUser, Decide, Goto, Uncommitting, Others, TypeOK, storeVars
  <2>2. Own(h)'
    <3>1. Open(h) /\ Own(h)
      BY <1>5, <1>0 DEF FindUser, Open, Holds, Own, SafeInv, Exclusive, Proposals, Explained,
                  Goto, Decide, TypeOK
    <3>2. \A g \in Handlers \ {h} : Open(g)' = Open(g)
      BY <2>1, <1>5 DEF Uncommitting, Others, Open, Holds
    <3>3. QED
      BY <1>0, <1>5, <3>1, <3>2 DEF FindUser, Decide, Goto, Own, TypeOK, storeVars
  <2>3. acked' = acked /\ processed' = processed
    BY <1>5 DEF FindUser, storeVars
  <2>4. QED
    BY <1>0, <1>a, <2>1, <2>2, <2>3, UncommittingStep
<1>6. ASSUME NEW h \in Handlers, CompareWatermark(h)
      PROVE  SafeInv'
  <2>1. Uncommitting(h)
    BY <1>0, <1>6 DEF CompareWatermark, Decide, Goto, Uncommitting, Others, TypeOK,
                      storeVars, historyVars
  <2>2. Own(h)'
    <3>1. Open(h) /\ Own(h)
      BY <1>6, <1>0 DEF CompareWatermark, Open, Holds, Own, SafeInv, Exclusive, Proposals,
                  Explained, TypeOK
    <3>2. \A g \in Handlers \ {h} : Open(g)' = Open(g)
      BY <2>1, <1>6 DEF Uncommitting, Others, Open, Holds
    <3>3. Stale(event[h], ent[event[h].user]) => Overtaken(event[h])
      <4>1. event[h].user \in Users /\ event[h].ts \in Nat
        BY <1>0, <1>6, WebhookAssumption
        DEF CompareWatermark, TypeInv, TypeOK, Progressing, Event
      <4>2. QED
        BY <4>1 DEF Stale, Overtaken, SafeInv, Watermark
    <3>4. CASE Stale(event[h], ent[event[h].user])
      BY <1>0, <1>6, <3>1, <3>2, <3>3, <3>4
      DEF CompareWatermark, Decide, Goto, Own, Overtaken, TypeOK, storeVars, historyVars
    <3>5. CASE ~Stale(event[h], ent[event[h].user])
      BY <1>0, <1>6, <3>1, <3>2, <3>5
      DEF CompareWatermark, Decide, Goto, Own, Overtaken, TypeOK, storeVars, historyVars
    <3>6. QED
      BY <3>4, <3>5
  <2>3. acked' = acked /\ processed' = processed
    BY <1>6 DEF CompareWatermark, storeVars
  <2>4. QED
    BY <1>0, <1>a, <2>1, <2>2, <2>3, UncommittingStep
<1>7. ASSUME NEW h \in Handlers, ApplyTransition(h)
      PROVE  SafeInv'
  <2>1. Uncommitting(h)
    BY <1>0, <1>7 DEF ApplyTransition, Decide, Goto, Uncommitting, Others, TypeOK,
                      storeVars, historyVars
  <2>2. Own(h)'
    <3>1. Open(h) /\ Own(h)
      BY <1>7, <1>0 DEF ApplyTransition, Decide, Goto, Open, Holds, Own, SafeInv,
                  Exclusive, Proposals, Explained, TypeOK
    <3>2. \A g \in Handlers \ {h} : Open(g)' = Open(g)
      BY <2>1, <1>7 DEF Uncommitting, Others, Open, Holds
    <3>3. QED
      BY <1>0, <1>7, <3>1, <3>2 DEF ApplyTransition, Decide, Goto, Own, TypeOK,
                      storeVars, historyVars
  <2>3. acked' = acked /\ processed' = processed
    BY <1>7 DEF ApplyTransition, storeVars
  <2>4. QED
    BY <1>0, <1>a, <2>1, <2>2, <2>3, UncommittingStep
<1>8. ASSUME NEW h \in Handlers, Commit(h)
      PROVE  SafeInv'
  BY <1>0, <1>8, CommitSafe
<1>9. ASSUME NEW h \in Handlers, Respond(h)
      PROVE  SafeInv'
  <2>1. \A e \in acked' : e.id \in processed
    BY <1>9, <1>a DEF Respond, SafeInv, Explained
  <2>2. QED
    BY <1>0, <1>9, <2>1, EndRequestSafe DEF Respond
<1>10. ASSUME NEW h \in Handlers, Refuse(h)
       PROVE  SafeInv'
  BY <1>0, <1>10, <1>a, EndRequestSafe DEF Refuse
<1>11. ASSUME NEW h \in Handlers, Abort(h)
       PROVE  SafeInv'
  BY <1>0, <1>11, <1>a, EndRequestSafe DEF Abort
<1>12. CASE UNCHANGED vars
  BY <1>0, <1>12 DEF vars, handlerVars, storeVars, historyVars, SafeInv,
     Exclusive, Proposals, Watermark, Explained, Accounted, AckedRecorded, Open, Holds,
     Overtaken
<1>13. QED
  BY <1>1, <1>2, <1>3, <1>4, <1>5, <1>6, <1>7, <1>8, <1>9, <1>10, <1>11, <1>12
  DEF Next, Step, Settled

LEMMA SafeInvariant == Spec => []SafeInv
<1>1. SafeInv /\ [Next]_vars => SafeInv'
  BY SafeStep
<1>2. QED
  BY SafeInit, <1>1, PTL DEF Spec

(* An event RevenueCat has a 200 for is recorded, and changed the row or   *)
(* was skipped for a reason that still holds.                              *)
THEOREM AcknowledgedStands == Spec => []AcknowledgedIsSettled
<1>1. SafeInv => AcknowledgedIsSettled
  BY DEF SafeInv, TypeInv, TypeOK, AckedRecorded, Accounted, Overtaken,
         AcknowledgedIsSettled
<1>2. QED
  BY SafeInvariant, <1>1, PTL

-----------------------------------------------------------------------------
(* The webhook implements the ledger.  The commit of a handler is the step *)
(* that records its event, the SELECT that finds no user is LookInVain,    *)
(* and every other step of a handler leaves the ledger alone.              *)

LEMMA SameMerge ==
  /\ \A e : Ledger!Handled(e) <=> Handled(e)
  /\ \A row, e : Ledger!Merged(row, e) = Merged(row, e)
<1>1. Ledger!EventState = EventState
  BY DEF Ledger!EventState, EventState
<1>2. Ledger!StoreMap = StoreMap
  BY DEF Ledger!StoreMap, StoreMap
<1>3. \A raw : Ledger!ResolveStore(raw) = ResolveStore(raw)
  BY <1>2 DEF Ledger!ResolveStore, ResolveStore, Ledger!Upper, Upper
<1>4. \A e : Ledger!Proposed(e) = Proposed(e)
  BY <1>1, <1>3 DEF Ledger!Proposed, Proposed
<1>5. \A e : Ledger!Handled(e) <=> Handled(e)
  BY <1>1 DEF Ledger!Handled, Handled
<1>6. \A row, e : Ledger!Merged(row, e) = Merged(row, e)
  BY <1>4, Zenon DEF Ledger!Merged, Merged
<1>7. QED
  BY <1>5, <1>6

LEMMA LedgerInit == Init => Ledger!Init
BY DEF Init, Ledger!Init

LEMMA LedgerCommit ==
  ASSUME SafeInv, NEW h \in Handlers, Commit(h)
  PROVE  \/ Ledger!Apply(event[h])
         \/ Ledger!Skip(event[h])
         \/ UNCHANGED Ledger!ledger
<1> DEFINE e == event[h]
<1> USE OutcomesAreNoNull
<1>1. /\ TypeOK /\ TypeInv
      /\ pc[h] = "commit"
      /\ users' = users /\ early' = early
      /\ processed' = processed \cup {e.id}
  BY DEF SafeInv, TypeInv, Commit, Goto
<1>2. CASE outcome[h] = "duplicate"
  <2>1. processed' = processed
    BY <1>1, <1>2 DEF SafeInv, Explained
  <2>2. UNCHANGED <<ent, applied>>
    BY <1>2 DEF Commit
  <2>3. QED
    BY <1>1, <2>1, <2>2 DEF Ledger!ledger
<1>3. CASE outcome[h] # "duplicate"
  <2>1. e.id \notin processed
    BY <1>1, <1>3 DEF SafeInv, Exclusive, Open, Holds
  <2>2. Ledger!Record(e)
    BY <1>1, <2>1 DEF Ledger!Record
  <2>3. CASE outcome[h] = "applied"
    <3>1. e.user \in users /\ Handled(e)
      BY <1>1, <2>3 DEF TypeInv, Progressing
    <3>2. proposed[h] = Merged(ent[e.user], e)
      BY <1>1, <2>3 DEF SafeInv, Proposals
    <3>3. /\ ent' = [ent EXCEPT ![e.user] = proposed[h]]
          /\ applied' = applied \cup {e}
      BY <2>3 DEF Commit
    <3>4. Ledger!Apply(e)
      BY <2>2, <3>1, <3>2, <3>3, SameMerge DEF Ledger!Apply
    <3>5. QED
      BY <3>4
  <2>4. CASE outcome[h] # "applied"
    <3>1. UNCHANGED <<applied, ent>>
      BY <2>4 DEF Commit
    <3>2. outcome[h] \in {"unmatched", "stale", "unhandled"}
      BY <1>1, <1>3, <2>4 DEF TypeOK, Outcomes
    <3>3. e \in early \/ Overtaken(e) \/ ~Handled(e)
      BY <3>2 DEF SafeInv, Explained
    <3>4. Ledger!Skip(e)
      BY <2>2, <3>1, <3>3, SameMerge DEF Ledger!Skip, Ledger!Overtaken, Overtaken
    <3>5. QED
      BY <3>4
  <2>5. QED
    BY <2>3, <2>4
<1>4. QED
  BY <1>2, <1>3

LEMMA LedgerStep ==
  ASSUME SafeInv, [Next]_vars
  PROVE  [Ledger!Next]_(Ledger!ledger)
<1>0. TypeOK
  BY DEF SafeInv, TypeInv
<1>1. ASSUME NEW u \in Users, Register(u)
      PROVE  Ledger!Next
  BY <1>1 DEF Register, historyVars, Ledger!Next, Ledger!Register
<1>2. CASE ConfigureSecret
  BY <1>2 DEF ConfigureSecret, storeVars, historyVars, Ledger!ledger
<1>3. ASSUME NEW h \in Handlers, NEW e \in Events, Deliver(h, e)
      PROVE  UNCHANGED Ledger!ledger
  BY <1>3 DEF Deliver, storeVars, historyVars, Ledger!ledger
<1>4. ASSUME NEW h \in Handlers, RecordEvent(h)
      PROVE  UNCHANGED Ledger!ledger
  BY <1>4 DEF RecordEvent, storeVars, historyVars, Ledger!ledger
<1>5. ASSUME NEW h \in Handlers, FindUser(h)
      PROVE  [Ledger!Next]_(Ledger!ledger)
  <2>1. CASE event[h].user \in users
    BY <1>5, <2>1 DEF FindUser, storeVars, Ledger!ledger
  <2>2. CASE event[h].user \notin users
    <3>1. event[h] \in Events
      BY <1>0, <1>5 DEF FindUser, TypeOK
    <3>2. Ledger!LookInVain(event[h])
      BY <1>5, <2>2 DEF FindUser, storeVars, Ledger!LookInVain
    <3>3. QED
      BY <3>1, <3>2 DEF Ledger!Next
  <2>3. QED
    BY <2>1, <2>2
<1>6. ASSUME NEW h \in Handlers, CompareWatermark(h)
      PROVE  UNCHANGED Ledger!ledger
  BY <1>6 DEF CompareWatermark, storeVars, historyVars, Ledger!ledger
<1>7. ASSUME NEW h \in Handlers, ApplyTransition(h)
      PROVE  UNCHANGED Ledger!ledger
  BY <1>7 DEF ApplyTransition, storeVars, historyVars, Ledger!ledger
<1>8. ASSUME NEW h \in Handlers, Commit(h)
      PROVE  [Ledger!Next]_(Ledger!ledger)
  <2>1. event[h] \in Events
    BY <1>0, <1>8 DEF Commit, Goto, TypeOK
  <2>2. QED
    BY <1>8, <2>1, LedgerCommit DEF Ledger!Next
<1>9. ASSUME NEW h \in Handlers, Respond(h) \/ Refuse(h) \/ Abort(h)
      PROVE  UNCHANGED Ledger!ledger
  BY <1>9 DEF Respond, Refuse, Abort, EndRequest, storeVars, historyVars,
              Ledger!ledger
<1>10. CASE UNCHANGED vars
  BY <1>10 DEF vars, storeVars, historyVars, Ledger!ledger
<1>11. QED
  BY <1>1, <1>2, <1>3, <1>4, <1>5, <1>6, <1>7, <1>8, <1>9, <1>10
  DEF Next, Step, Settled

(* However often, however late and however concurrently RevenueCat         *)
(* delivers its events, and wherever handlers are cut off, each event is   *)
(* recorded once, in one step with its merge into the row or with a reason *)
(* to leave the row alone.                                                 *)
THEOREM ImplementsLedger == Spec => ImplementsBillingLedger
<1>1. SafeInv /\ [Next]_vars => [Ledger!Next]_(Ledger!ledger)
  BY LedgerStep
<1>2. QED
  BY LedgerInit, SafeInvariant, <1>1, PTL
  DEF Spec, ImplementsBillingLedger, Ledger!Spec
=============================================================================
