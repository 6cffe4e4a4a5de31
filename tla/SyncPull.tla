------------------------------ MODULE SyncPull ------------------------------
(***************************************************************************)
(* GET /api/v1/sync: one SELECT of the rows changed after a cursor, and the*)
(* client that keeps the cursor.  The client is not in the repository; it  *)
(* is modelled from the contract of the response: it sends the cursor it   *)
(* has, stores the records it receives and continues from `next_cursor`.   *)
(* A response can be lost; the client then asks again with the old cursor. *)
(***************************************************************************)
EXTENDS ExpenseDb

CONSTANTS
  Clients,     \* installations that pull
  ClientUser,  \* the user each is signed in as
  PullLimit    \* `limit`

ASSUME PullAssumption ==
  /\ ClientUser \in [Clients -> Users]
  /\ PullLimit \in Nat \ {0}

VARIABLES
  cursor,   \* `since` of each client's next pull
  replica,  \* the client's copy of its user's rows
  page,     \* the response under way to it, NULL if none
  overlap   \* history: sequence numbers already given to transactions that
            \* were still open when the client pulled past them

pullVars == <<cursor, replica, page, overlap>>

PullTypeOK ==
  /\ cursor \in [Clients -> Nat]
  /\ replica \in [Clients -> [Ids -> Row \cup {NULL}]]
  /\ overlap \in [Clients -> SUBSET Nat]
  /\ \A c \in Clients : page[c] # NULL =>
       /\ DOMAIN page[c].records \subseteq Ids
       /\ \A i \in DOMAIN page[c].records : page[c].records[i] \in Row
       /\ page[c].next_cursor \in Nat
       /\ page[c].has_more \in BOOLEAN
       /\ page[c].open \subseteq Nat

PullInit ==
  /\ cursor = [c \in Clients |-> 0]
  /\ replica = [c \in Clients |-> [i \in Ids |-> NULL]]
  /\ page = [c \in Clients |-> NULL]
  /\ overlap = [c \in Clients |-> {}]

(* The first PullLimit rows of u after `since`, in the order of server_seq. *)
ChangedSince(u, since) == {i \in RowsOf(u) : rows[i].seq > since}

(* Variant with a bug: the newest rows first. *)
PageOfNewest(u, since) ==
  {i \in ChangedSince(u, since) :
     Cardinality({j \in ChangedSince(u, since) : rows[j].seq > rows[i].seq})
       < PullLimit}

PageOf(u, since) ==
  {i \in ChangedSince(u, since) :
     Cardinality({j \in ChangedSince(u, since) : rows[j].seq < rows[i].seq})
       < PullLimit}

(* Variants with a bug: the cursor does not advance; an empty page has none.*)
SameCursor(sent, since) == since

NoCursorIfEmpty(sent, since) ==
  IF sent = {} THEN NULL
  ELSE rows[CHOOSE i \in sent : \A j \in sent : rows[j].seq <= rows[i].seq].seq

NextCursor(sent, since) ==
  IF sent = {} THEN since
  ELSE rows[CHOOSE i \in sent : \A j \in sent : rows[j].seq <= rows[i].seq].seq

(* The handler.  `open` are the sequence numbers of the versions that are  *)
(* not committed yet; the SELECT does not see those versions.              *)
Pull(c, open) ==
  LET sent == PageOf(ClientUser[c], cursor[c])
      next == NextCursor(sent, cursor[c])
  IN  /\ page[c] = NULL
      /\ page' = [page EXCEPT ![c] =
                    [records     |-> [i \in sent |-> rows[i]],
                     next_cursor |-> next,
                     has_more    |-> Cardinality(sent) = PullLimit,
                     open        |-> {n \in open : n <= next}]]
      /\ UNCHANGED <<dbVars, cursor, replica, overlap>>

Receive(c) ==
  /\ page[c] # NULL
  /\ replica' = [replica EXCEPT ![c] =
                   [i \in Ids |-> IF i \in DOMAIN page[c].records
                                  THEN page[c].records[i] ELSE @[i]]]
  /\ cursor' = [cursor EXCEPT ![c] = page[c].next_cursor]
  /\ overlap' = [overlap EXCEPT ![c] = @ \cup page[c].open]
  /\ page' = [page EXCEPT ![c] = NULL]
  /\ UNCHANGED dbVars

LosePage(c) ==
  /\ page[c] # NULL
  /\ page' = [page EXCEPT ![c] = NULL]
  /\ UNCHANGED <<dbVars, cursor, replica, overlap>>

-----------------------------------------------------------------------------
UpToDate(c, i) == replica[c][i] = rows[i]

(* A row the cursor has passed is on the device as it is committed, with   *)
(* one exception, which is exactly this: its version took its number       *)
(* before the pull and committed after it.                                 *)
MissedOnlyByOverlap ==
  \A c \in Clients : \A i \in RowsOf(ClientUser[c]) :
    rows[i].seq <= cursor[c] => UpToDate(c, i) \/ rows[i].seq \in overlap[c]

(* A device never shows a version the service has not committed, and never *)
(* goes back to an older one.                                              *)
ReplicaFollows ==
  [][\A c \in Clients, i \in Ids : replica'[c][i] # replica[c][i] =>
       /\ rows[i] # NULL
       /\ replica'[c][i].seq <= rows[i].seq
       /\ replica[c][i] # NULL => replica[c][i].seq < replica'[c][i].seq]_replica

(* "is pulled by every device on its next /api/v1/sync" (README, recompute *)
(* docstring, migration): a device whose cursor has passed a row has it.   *)
PulledByEveryDevice ==
  \A c \in Clients : \A i \in RowsOf(ClientUser[c]) :
    rows[i].seq <= cursor[c] => UpToDate(c, i)
=============================================================================
