------------------------------ MODULE Accounts ------------------------------
(***************************************************************************)
(* The users table as api/deps.py uses it: the row of a verified identity, *)
(* created on first sight.  Identity and email are unique columns.         *)
(***************************************************************************)
EXTENDS Domain, Integers, FiniteSets

CONSTANTS
  Identities,  \* the `sub` of verified tokens
  Emails,
  DefaultBase  \* base_currency of a new row: USD

ASSUME AccountAssumption ==
  /\ IsFiniteSet(Users)
  /\ Users = 1 .. Cardinality(Users)  \* in the order of the inserts
  /\ DefaultBase \in Currencies

VARIABLE accounts  \* committed rows

Account == [user : Users, identity : Identities, email : Emails \cup {NULL},
            base : Currencies]

ASSUME RowAssumption == NULL \notin Account

AccountsTypeOK == accounts \subseteq Account

(* The unique columns; a missing email is not one. *)
UniqueRows(table) ==
  \A a, b \in table :
    a # b => /\ a.user # b.user
             /\ a.identity # b.identity
             /\ a.email = b.email => a.email = NULL

(* SELECT ... WHERE auth_provider_id = : the row, if there is one. *)
AccountsOf(identity) == {a \in accounts : a.identity = identity}

Clashes(identity, email) ==
  \E a \in accounts : \/ a.identity = identity
                      \/ a.email = email /\ email # NULL

NewAccount(identity, email) ==
  [user |-> Cardinality(accounts) + 1, identity |-> identity, email |-> email,
   base |-> DefaultBase]

(* Variant with a bug: only the email is unique. *)
InsertUniqueEmail(identity, email) ==
  /\ ~ \E a \in accounts : a.email = email /\ email # NULL
  /\ Cardinality(accounts) + 1 \in Users
  /\ accounts' = accounts \cup {NewAccount(identity, email)}

(* INSERT and COMMIT.  It waits for a concurrent insert of the same        *)
(* identity or email to end, so the two are one step.                      *)
InsertAccount(identity, email) ==
  /\ ~Clashes(identity, email)
  /\ Cardinality(accounts) + 1 \in Users
  /\ accounts' = accounts \cup {NewAccount(identity, email)}
=============================================================================
