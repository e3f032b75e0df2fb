------------------------------ MODULE Accounts ------------------------------
(***************************************************************************)
(* The users and gateway_keys tables of the SQLite store, and the store    *)
(* operations with which administrators change them.                       *)
(*                                                                         *)
(* An administrator is a CLI process or a TUI session: several of them     *)
(* work on the same database file.  A store operation is a Go function     *)
(* that runs one SQL statement after another WITHOUT a transaction; every  *)
(* statement is a step of its own here, so the statements of two           *)
(* operations interleave.  An operation that returns an error before it    *)
(* writes changes nothing and simply ends.                                 *)
(***************************************************************************)
EXTENDS Naturals, FiniteSets

CONSTANTS
  Actors,        \* administrators: CLI processes and TUI sessions
  Names,         \* usernames (already lower-cased and validated)
  Fingerprints,  \* SSH public keys, by fingerprint
  MaxId,         \* bound: row ids that are modelled
  None           \* the SQL NULL / "no argument" marker

ASSUME FingerprintsFinite == IsFiniteSet(Fingerprints)
ASSUME MaxIdNat           == MaxId \in Nat \ {0}
ASSUME NoneIsNoName       == None \notin Names \cup Fingerprints

Ids   == 1 .. MaxId
Roles == {"admin", "member"}

\* The protected and unprotected operations of store.go that name one user.
Commands == {"enable", "disable", "promote", "demote", "delete",
             "addKey", "removeKey"}

VARIABLES
  users,     \* ids of the rows of the users table
  username,  \* column username, None where there is no row
  role,      \* column role
  enabled,   \* column enabled
  keys,      \* gateway_keys: the fingerprints of every user id
  op,        \* the operation every actor is executing
  stale,     \* history: actors whose read was overtaken by a commit
  raced      \* history: some actor committed on an overtaken read

db   == <<users, username, role, enabled, keys>>
vars == <<users, username, role, enabled, keys, op, stale, raced>>

-----------------------------------------------------------------------------
(* What the SQL statements read.                                           *)

\* An administrator who can log in: enabled and with at least one key.
UsableAdmins == {i \in users : role[i] = "admin" /\ enabled[i] /\ keys[i] # {}}

\* Mutant: the join with gateway_keys is forgotten.
OtherAdminAnyKey(id) ==
  \E i \in users \ {id} : role[i] = "admin" /\ enabled[i]
\* SELECT count(DISTINCT u.id) ... WHERE role='admin' AND enabled=1 AND id<>?
OtherUsableAdmin(id) == UsableAdmins \ {id} # {}

\* SQLite gives an INTEGER PRIMARY KEY the value max(rowid) + 1, so the id
\* of a deleted last row is handed out again.
NextId(id) == /\ id \in Ids \ users
              /\ \A j \in users : j < id
              /\ \A j \in Ids : j < id => \E k \in users : j <= k

\* No operation in progress.
Idle == [pc |-> "idle", cmd |-> None, name |-> None, fp |-> None,
         id |-> 0, role |-> "member", enabled |-> FALSE]

InFlight == {a \in Actors : op[a].pc # "idle"}

\* The operations that call ensureOtherUsableAdmin when the row that was
\* READ is an administrator (RemoveGatewayKey decides after the count).
Protected(cmd, readRole) ==
  cmd \in {"disable", "demote", "delete"} /\ readRole = "admin"

-----------------------------------------------------------------------------
Init ==
  \E n \in Names, f \in Fingerprints :
    /\ users    = {1}
    /\ username = [i \in Ids |-> IF i = 1 THEN n ELSE None]
    /\ role     = [i \in Ids |-> IF i = 1 THEN "admin" ELSE "member"]
    /\ enabled  = [i \in Ids |-> i = 1]
    /\ keys     = [i \in Ids |-> IF i = 1 THEN {f} ELSE {}]
    /\ op       = [a \in Actors |-> Idle]
    /\ stale    = {}
    /\ raced    = FALSE

\* History bookkeeping of a statement of actor a that changed rows.
Committed(a) == /\ stale' = (stale \cup InFlight) \ {a}
                /\ raced' = (raced \/ a \in stale)

\* The operation of a returns without having changed a row.
Return(a) == /\ op'    = [op EXCEPT ![a] = Idle]
             /\ stale' = stale \ {a}
             /\ UNCHANGED <<db, raced>>

-----------------------------------------------------------------------------
(* Statement 1 of every operation: UserByName.                             *)

FirstStatementAfter(cmd, readRole) ==
  CASE cmd = "removeKey"        -> "count"
    [] cmd = "addKey"           -> "exists"
    [] Protected(cmd, readRole) -> "ensure"
    [] OTHER                    -> "write"

\* Mutant: the row is not looked up by the name.
UserByAnyName(a, cmd, n, f) ==
  /\ op[a].pc = "idle"
  /\ \E id \in users :
       op' = [op EXCEPT ![a] =
                [pc |-> FirstStatementAfter(cmd, role[id]), cmd |-> cmd,
                 name |-> n, fp |-> f, id |-> id,
                 role |-> role[id], enabled |-> enabled[id]]]
  /\ UNCHANGED <<db, stale, raced>>
\* UserByName of an operation; a missing user ends it with sql.ErrNoRows.
UserByName(a, cmd, n, f) ==
  /\ op[a].pc = "idle"
  /\ \E id \in users :
       /\ username[id] = n
       /\ op' = [op EXCEPT ![a] =
                  [pc |-> FirstStatementAfter(cmd, role[id]), cmd |-> cmd,
                   name |-> n, fp |-> f, id |-> id,
                   role |-> role[id], enabled |-> enabled[id]]]
  /\ UNCHANGED <<db, stale, raced>>

(* The checks between the read and the write.                              *)

\* ensureOtherUsableAdmin: refuse, or go on to the write.
EnsureOtherUsableAdmin(a) ==
  /\ op[a].pc = "ensure"
  /\ \/ /\ OtherUsableAdmin(op[a].id)
        /\ op' = [op EXCEPT ![a].pc = "write"]
        /\ UNCHANGED <<db, stale, raced>>
     \/ /\ ~OtherUsableAdmin(op[a].id)
        /\ Return(a)

\* Mutant: off by one in the count.
NoKeyOfAdmin(o) ==
  o.role = "admin" /\ o.enabled /\ Cardinality(keys[o.id]) < 1
\* Is this the last key of an enabled administrator, as far as was read?
LastKeyOfAdmin(o) ==
  o.role = "admin" /\ o.enabled /\ Cardinality(keys[o.id]) <= 1

\* RemoveGatewayKey: SELECT count(*) FROM gateway_keys WHERE user_id=?
CountKeys(a) ==
  /\ op[a].pc = "count"
  /\ op' = [op EXCEPT ![a].pc =
              IF LastKeyOfAdmin(op[a]) THEN "ensure" ELSE "write"]
  /\ UNCHANGED <<db, stale, raced>>

\* AddGatewayKey: SELECT EXISTS(... user_id=? AND fingerprint=?)
KeyExists(a) ==
  /\ op[a].pc = "exists"
  /\ \/ /\ op[a].fp \notin keys[op[a].id]
        /\ op' = [op EXCEPT ![a].pc = "write"]
        /\ UNCHANGED <<db, stale, raced>>
     \/ /\ op[a].fp \in keys[op[a].id]
        /\ Return(a)

-----------------------------------------------------------------------------
(* The writes.  All of them address the row by the id that was read; no    *)
(* row changed is sql.ErrNoRows, a violated constraint is an error too.    *)

Writing(a, cmds) == op[a].pc = "write" /\ op[a].cmd \in cmds

SetUserEnabled(a) ==
  /\ Writing(a, {"enable", "disable"})
  /\ op[a].id \in users
  /\ enabled' = [enabled EXCEPT ![op[a].id] = (op[a].cmd = "enable")]
  /\ op' = [op EXCEPT ![a] = Idle]
  /\ Committed(a)
  /\ UNCHANGED <<users, username, role, keys>>

SetUserRole(a) ==
  /\ Writing(a, {"promote", "demote"})
  /\ op[a].id \in users
  /\ role' = [role EXCEPT ![op[a].id] =
                IF op[a].cmd = "promote" THEN "admin" ELSE "member"]
  /\ op' = [op EXCEPT ![a] = Idle]
  /\ Committed(a)
  /\ UNCHANGED <<users, username, enabled, keys>>

\* DELETE FROM users; gateway_keys go with the row (ON DELETE CASCADE).
DeleteRow(id) ==
  /\ users'    = users \ {id}
  /\ username' = [username EXCEPT ![id] = None]
  /\ role'     = [role EXCEPT ![id] = "member"]
  /\ enabled'  = [enabled EXCEPT ![id] = FALSE]
  /\ keys'     = [keys EXCEPT ![id] = {}]

DeleteUser(a) ==
  /\ Writing(a, {"delete"})
  /\ op[a].id \in users
  /\ DeleteRow(op[a].id)
  /\ op' = [op EXCEPT ![a] = Idle]
  /\ Committed(a)

\* Mutant: foreign keys are not enforced (PRAGMA foreign_keys off).
KeyInsertableNoFK(id, f) == f \notin keys[id]
\* REFERENCES users(id) and UNIQUE(user_id, fingerprint) of gateway_keys.
KeyInsertable(id, f) == id \in users /\ f \notin keys[id]

AddGatewayKey(a) ==
  /\ Writing(a, {"addKey"})
  /\ KeyInsertable(op[a].id, op[a].fp)
  /\ keys' = [keys EXCEPT ![op[a].id] = @ \cup {op[a].fp}]
  /\ op' = [op EXCEPT ![a] = Idle]
  /\ Committed(a)
  /\ UNCHANGED <<users, username, role, enabled>>

RemoveGatewayKey(a) ==
  /\ Writing(a, {"removeKey"})
  /\ op[a].fp \in keys[op[a].id]
  /\ keys' = [keys EXCEPT ![op[a].id] = @ \ {op[a].fp}]
  /\ op' = [op EXCEPT ![a] = Idle]
  /\ Committed(a)
  /\ UNCHANGED <<users, username, role, enabled>>

\* The write that matches no row or violates a constraint.
WriteFails(a) ==
  /\ op[a].pc = "write"
  /\ CASE op[a].cmd = "addKey"    -> ~KeyInsertable(op[a].id, op[a].fp)
       [] op[a].cmd = "removeKey" -> op[a].fp \notin keys[op[a].id]
       [] OTHER                   -> op[a].id \notin users
  /\ Return(a)

\* Mutant: the column is not UNIQUE.
NameAlwaysFree(n) == n \in Names
\* username is UNIQUE.
NameFree(n) == \A i \in users : username[i] # n

\* AddUser is one INSERT; enabled defaults to 1.
AddUser(a, n, r) ==
  /\ op[a].pc = "idle"
  /\ NameFree(n)
  /\ \E id \in Ids :
       /\ NextId(id)
       /\ users'    = users \cup {id}
       /\ username' = [username EXCEPT ![id] = n]
       /\ role'     = [role EXCEPT ![id] = r]
       /\ enabled'  = [enabled EXCEPT ![id] = TRUE]
  /\ Committed(a)
  /\ UNCHANGED <<keys, op>>

\* The process is killed, the connection is lost or SQLite reports an error
\* between two statements: the rest of the operation never runs.
Abort(a) == op[a].pc # "idle" /\ Return(a)

Begin(a) ==
  \E n \in Names, cmd \in Commands :
    IF cmd \in {"addKey", "removeKey"}
    THEN \E f \in Fingerprints : UserByName(a, cmd, n, f)
    ELSE UserByName(a, cmd, n, None)

Next == \E a \in Actors :
          \/ Begin(a)
          \/ EnsureOtherUsableAdmin(a) \/ CountKeys(a) \/ KeyExists(a)
          \/ SetUserEnabled(a) \/ SetUserRole(a) \/ DeleteUser(a)
          \/ AddGatewayKey(a) \/ RemoveGatewayKey(a) \/ WriteFails(a)
          \/ \E n \in Names, r \in Roles : AddUser(a, n, r)
          \/ Abort(a)

Spec == Init /\ [][Next]_vars

-----------------------------------------------------------------------------
OpType == [pc : {"idle", "ensure", "count", "exists", "write"},
           cmd : Commands \cup {None}, name : Names \cup {None},
           fp : Fingerprints \cup {None}, id : 0 .. MaxId,
           role : Roles, enabled : BOOLEAN]

\* The type invariant: every column holds a value of its type, usernames are
\* unique, and only an actor inside an operation can have been overtaken.
TypeOK ==
  /\ users \in SUBSET Ids
  /\ username \in [Ids -> Names \cup {None}]
  /\ role \in [Ids -> Roles]
  /\ enabled \in [Ids -> BOOLEAN]
  /\ keys \in [Ids -> SUBSET Fingerprints]
  /\ op \in [Actors -> OpType]
  /\ \A a \in InFlight : op[a].id \in Ids
  /\ \A i, j \in users : username[i] = username[j] => i = j
  /\ stale \in SUBSET InFlight
  /\ raced \in BOOLEAN

\* The gateway always keeps an enabled administrator with a key: what
\* ensureOtherUsableAdmin is for.  True of one administrator at a time; two
\* at once can each remove the other, both checks having passed.
UsableAdminExists == UsableAdmins # {}

\* With any number of administrators: the last usable one is lost only if
\* some operation wrote on the strength of a read that another operation's
\* commit had overtaken.  Everything else the checks do catch.
AdminLossNeedsRace == UsableAdminExists \/ raced

\* No row of gateway_keys outlives its user, even when a key is inserted for
\* a user deleted after it was read: otherwise the next user to get the id
\* would inherit keys and could be logged into with them.
NoOrphanKeys == \A i \in Ids \ users : keys[i] = {}

\* A change lands on the account the administrator named, unless a commit of
\* somebody else came in between: the write goes by the id that was read, ids
\* are handed out again, and nothing but the timing protects the new account.
MisdirectedNeedsRace ==
  [][\A a \in Actors :
       op[a].pc = "write" /\ op'[a].pc = "idle" /\ db' # db =>
         username[op[a].id] = op[a].name \/ a \in stale]_vars

\* Only one actor works at a time: the hypothesis of the sequential results.
SingleActor == \A a, b \in Actors : a = b
=============================================================================
