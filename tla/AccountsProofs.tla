--------------------------- MODULE AccountsProofs ---------------------------
(***************************************************************************)
(* Invariance proofs for Accounts, for any number of administrators,       *)
(* names, keys and ids.                                                    *)
(*                                                                         *)
(* The safety property AdminLossNeedsRace is not inductive: that a write   *)
(* keeps a usable administrator depends on what the writing operation read *)
(* and checked earlier.  ReadsHold and ChecksHold say that both are still  *)
(* true as long as no commit has overtaken the operation.                  *)
(***************************************************************************)
EXTENDS Accounts, FiniteSetTheorems, TLAPS

\* The row an operation read is unchanged unless the operation was overtaken.
ReadsHold ==
  \A a \in InFlight \ stale :
    /\ op[a].id \in users
    /\ username[op[a].id] = op[a].name
    /\ role[op[a].id] = op[a].role
    /\ enabled[op[a].id] = op[a].enabled

\* An operation about to write has found another usable administrator if its
\* write can cost the row it addresses that quality.
ChecksHold ==
  \A a \in Actors \ stale :
    op[a].pc = "write" =>
      /\ Protected(op[a].cmd, op[a].role) => OtherUsableAdmin(op[a].id)
      /\ op[a].cmd = "removeKey" /\ LastKeyOfAdmin(op[a])
           => OtherUsableAdmin(op[a].id)

\* The arguments an operation carries.
ArgsOK ==
  \A a \in InFlight :
    /\ op[a].cmd \in Commands
    /\ op[a].cmd \in {"addKey", "removeKey"} => op[a].fp \in Fingerprints
    /\ op[a].pc = "count" => op[a].cmd = "removeKey"
    /\ op[a].pc = "exists" => op[a].cmd = "addKey"

IInv == TypeOK /\ ArgsOK /\ NoOrphanKeys /\ ReadsHold /\ ChecksHold
          /\ AdminLossNeedsRace

-----------------------------------------------------------------------------
(* Facts about the bookkeeping of a step.                                  *)

\* After a commit every operation still in progress counts as overtaken.
LEMMA CommitOvertakes ==
  ASSUME TypeOK, ArgsOK, NEW a \in Actors, Committed(a),
         \/ op' = [op EXCEPT ![a] = Idle]
         \/ op' = op /\ op[a].pc = "idle"
  PROVE  /\ ArgsOK' /\ ReadsHold' /\ ChecksHold'
         /\ op' \in [Actors -> OpType]
         /\ \A b \in InFlight' : op'[b].id \in Ids
         /\ stale' \in SUBSET InFlight'
         /\ raced' \in BOOLEAN
         /\ raced => raced'
         /\ a \in stale => raced'
<1>1. Idle \in OpType /\ Idle.pc = "idle"
  BY MaxIdNat DEF Idle, OpType, Roles
<1>2. op' \in [Actors -> OpType] /\ \A b \in Actors : b # a => op'[b] = op[b]
  BY <1>1 DEF TypeOK
<1>3. op'[a].pc = "idle"
  BY <1>1 DEF TypeOK
<1>4. InFlight' = InFlight \ {a}
  BY <1>2, <1>3 DEF InFlight
<1>5. stale' = InFlight'
  BY <1>4 DEF Committed, TypeOK
<1>6. ReadsHold'
  BY <1>5 DEF ReadsHold
<1>7. ChecksHold'
  <2>1. SUFFICES ASSUME NEW b \in Actors, b \notin stale'
                 PROVE  op'[b].pc # "write"
    BY DEF ChecksHold
  <2>2. b \notin InFlight'
    BY <2>1, <1>5
  <2> QED
    BY <2>2 DEF InFlight
<1>8. ArgsOK'
  <2>1. SUFFICES ASSUME NEW b \in InFlight'
                 PROVE  /\ op'[b].cmd \in Commands
                        /\ op'[b].cmd \in {"addKey", "removeKey"}
                             => op'[b].fp \in Fingerprints
                        /\ op'[b].pc = "count" => op'[b].cmd = "removeKey"
                        /\ op'[b].pc = "exists" => op'[b].cmd = "addKey"
    BY DEF ArgsOK
  <2>2. b \in InFlight /\ op'[b] = op[b]
    BY <1>2, <1>4 DEF InFlight
  <2> QED
    BY <2>2 DEF ArgsOK
<1>9. \A b \in InFlight' : op'[b].id \in Ids
  BY <1>2, <1>4 DEF TypeOK, InFlight
<1> QED
  BY <1>2, <1>5, <1>6, <1>7, <1>8, <1>9 DEF Committed, TypeOK

\* A step of a that only moves its own operation on, to something that meets
\* the invariant, keeps the invariant.
LEMMA OwnStep ==
  ASSUME IInv, NEW a \in Actors, NEW o \in OpType, UNCHANGED db, UNCHANGED raced,
         op' = [op EXCEPT ![a] = o],
         \/ stale' = stale /\ (op[a].pc # "idle" \/ a \notin stale)
              /\ o.pc # "idle"
         \/ stale' = stale \ {a} /\ o.pc = "idle",
         o.pc # "idle" =>
           /\ o.id \in Ids
           /\ o.cmd \in Commands
           /\ o.cmd \in {"addKey", "removeKey"} => o.fp \in Fingerprints
           /\ o.pc = "count" => o.cmd = "removeKey"
           /\ o.pc = "exists" => o.cmd = "addKey"
           /\ a \notin stale =>
                /\ o.id \in users
                /\ username[o.id] = o.name
                /\ role[o.id] = o.role
                /\ enabled[o.id] = o.enabled
                /\ o.pc = "write" =>
                     /\ Protected(o.cmd, o.role) => OtherUsableAdmin(o.id)
                     /\ o.cmd = "removeKey" /\ LastKeyOfAdmin(o)
                          => OtherUsableAdmin(o.id)
  PROVE  IInv'
<1> USE DEF IInv
<1>1. op' \in [Actors -> OpType] /\ op'[a] = o
      /\ \A b \in Actors : b # a => op'[b] = op[b]
  BY DEF TypeOK
<1>2. InFlight' = IF o.pc = "idle" THEN InFlight \ {a} ELSE InFlight \cup {a}
  BY <1>1 DEF InFlight
<1>3. stale' \in SUBSET InFlight'
  BY <1>2 DEF TypeOK
<1>4. \A b \in InFlight' : op'[b].id \in Ids
  BY <1>1, <1>2 DEF TypeOK
<1>5. TypeOK'
  BY <1>1, <1>3, <1>4 DEF TypeOK, db
<1>6. ArgsOK'
  BY <1>1, <1>2 DEF ArgsOK
<1>7. NoOrphanKeys' /\ UsableAdmins' = UsableAdmins
  BY DEF NoOrphanKeys, UsableAdmins, db
<1>8. AdminLossNeedsRace'
  BY <1>7 DEF AdminLossNeedsRace, UsableAdminExists
<1>9. ReadsHold'
  <2>1. SUFFICES ASSUME NEW b \in InFlight' \ stale'
                 PROVE  /\ op'[b].id \in users
                        /\ username[op'[b].id] = op'[b].name
                        /\ role[op'[b].id] = op'[b].role
                        /\ enabled[op'[b].id] = op'[b].enabled
    BY DEF ReadsHold, db
  <2>2. CASE b = a
    BY <2>1, <2>2, <1>1, <1>2
  <2>3. CASE b # a
    BY <2>1, <2>3, <1>1, <1>2 DEF ReadsHold, InFlight
  <2> QED
    BY <2>2, <2>3
<1>10. ChecksHold'
  <2>1. \A i : OtherUsableAdmin(i)' <=> OtherUsableAdmin(i)
    BY <1>7 DEF OtherUsableAdmin
  <2>2. SUFFICES ASSUME NEW b \in Actors, b \notin stale',
                        op'[b].pc = "write"
                 PROVE  /\ Protected(op'[b].cmd, op'[b].role)
                             => OtherUsableAdmin(op'[b].id)
                        /\ op'[b].cmd = "removeKey" /\ LastKeyOfAdmin(op'[b])
                             => OtherUsableAdmin(op'[b].id)
    BY <1>7 DEF ChecksHold, db, OtherUsableAdmin, LastKeyOfAdmin, Protected
  <2>3. CASE b = a
    BY <2>2, <2>3, <1>1
  <2>4. CASE b # a
    BY <2>2, <2>4, <1>1 DEF ChecksHold
  <2> QED
    BY <2>3, <2>4
<1> QED
  BY <1>5, <1>6, <1>7, <1>8, <1>9, <1>10

\* An operation that returns without writing keeps the invariant.
LEMMA ReturnStep ==
  ASSUME IInv, NEW a \in Actors, Return(a)
  PROVE  IInv'
<1>1. Idle \in OpType /\ Idle.pc = "idle"
  BY MaxIdNat DEF Idle, OpType, Roles
<1> QED
  BY <1>1, OwnStep DEF Return

-----------------------------------------------------------------------------
(* The statements that read: one lemma per statement.                      *)

LEMMA UserByNameStep ==
  ASSUME IInv, NEW a \in Actors, NEW cmd \in Commands, NEW n \in Names,
         NEW f \in Fingerprints \cup {None}, UserByName(a, cmd, n, f),
         cmd \in {"addKey", "removeKey"} => f \in Fingerprints
  PROVE  IInv'
<1>1. PICK id \in users :
        /\ username[id] = n
        /\ op' = [op EXCEPT ![a] =
                [pc |-> FirstStatementAfter(cmd, role[id]), cmd |-> cmd,
                 name |-> n, fp |-> f, id |-> id,
                 role |-> role[id], enabled |-> enabled[id]]]
  BY DEF UserByName
<1> DEFINE o == [pc |-> FirstStatementAfter(cmd, role[id]), cmd |-> cmd,
                 name |-> n, fp |-> f, id |-> id,
                 role |-> role[id], enabled |-> enabled[id]]
<1>2. FirstStatementAfter(cmd, role[id]) \in {"count", "exists", "ensure", "write"}
  BY DEF FirstStatementAfter
<1>3. id \in Ids /\ id \in 0 .. MaxId /\ role[id] \in Roles
      /\ enabled[id] \in BOOLEAN
  BY MaxIdNat DEF IInv, TypeOK, Ids
<1>4. o \in OpType
  BY <1>2, <1>3 DEF OpType
<1>5. /\ o.pc = "write" => ~Protected(o.cmd, o.role) /\ o.cmd # "removeKey"
      /\ o.pc = "count" => o.cmd = "removeKey"
      /\ o.pc = "exists" => o.cmd = "addKey"
  BY DEF FirstStatementAfter
<1>6. o.pc # "idle" /\ o.id = id /\ username[o.id] = o.name /\ o.role = role[id] /\ o.enabled = enabled[id]
      /\ o.cmd = cmd /\ o.fp = f
  BY <1>1, <1>2
<1>7. op[a].pc = "idle" /\ a \notin stale
  BY DEF UserByName, IInv, TypeOK, InFlight
<1>8. op' = [op EXCEPT ![a] = o] /\ UNCHANGED db /\ UNCHANGED raced
      /\ stale' = stale
  BY <1>1 DEF UserByName
<1> HIDE DEF o
<1> QED
  BY <1>3, <1>4, <1>5, <1>6, <1>7, <1>8, OwnStep

\* A check that lets the operation go on to the statement pc.
LEMMA AdvanceStep ==
  ASSUME IInv, NEW a \in Actors, NEW pc \in {"ensure", "write"},
         op[a].pc \in {"ensure", "count", "exists"},
         op' = [op EXCEPT ![a].pc = pc], UNCHANGED <<db, stale, raced>>,
         pc = "write" =>
           /\ Protected(op[a].cmd, op[a].role) => OtherUsableAdmin(op[a].id)
           /\ op[a].cmd = "removeKey" /\ LastKeyOfAdmin(op[a])
                => OtherUsableAdmin(op[a].id)
  PROVE  IInv'
<1> DEFINE o == [op[a] EXCEPT !.pc = pc]
<1>1. op[a] \in OpType /\ a \in InFlight
  BY DEF IInv, TypeOK, InFlight
<1>2. o \in OpType /\ o.pc = pc /\ o.cmd = op[a].cmd /\ o.id = op[a].id
      /\ o.fp = op[a].fp /\ o.role = op[a].role /\ o.enabled = op[a].enabled
      /\ o.name = op[a].name
  BY <1>1 DEF OpType
<1>3. LastKeyOfAdmin(o) <=> LastKeyOfAdmin(op[a])
  BY <1>2 DEF LastKeyOfAdmin
<1>4. o.id \in Ids /\ o.cmd \in Commands
      /\ (o.cmd \in {"addKey", "removeKey"} => o.fp \in Fingerprints)
  BY <1>1, <1>2 DEF IInv, TypeOK, ArgsOK
<1>5. a \notin stale => /\ o.id \in users
                        /\ username[o.id] = o.name
                        /\ role[o.id] = o.role
                        /\ enabled[o.id] = o.enabled
  BY <1>1, <1>2 DEF IInv, ReadsHold
<1>6. op' = [op EXCEPT ![a] = o] /\ UNCHANGED db /\ UNCHANGED raced
      /\ stale' = stale
  BY DEF IInv, TypeOK
<1>7. op[a].pc # "idle" /\ o.pc # "idle" /\ o.pc # "count" /\ o.pc # "exists"
  BY <1>2
<1>8. o.pc = "write" =>
        /\ Protected(o.cmd, o.role) => OtherUsableAdmin(o.id)
        /\ o.cmd = "removeKey" /\ LastKeyOfAdmin(o) => OtherUsableAdmin(o.id)
  BY <1>2, <1>3
<1>9. o \in OpType
  BY <1>2
<1> HIDE DEF o
<1> QED
  BY <1>4, <1>5, <1>6, <1>7, <1>8, <1>9, OwnStep

LEMMA EnsureStep ==
  ASSUME IInv, NEW a \in Actors, EnsureOtherUsableAdmin(a)
  PROVE  IInv'
<1>1. CASE /\ OtherUsableAdmin(op[a].id)
           /\ op' = [op EXCEPT ![a].pc = "write"]
           /\ UNCHANGED <<db, stale, raced>>
  BY <1>1, AdvanceStep DEF EnsureOtherUsableAdmin
<1>2. CASE Return(a)
  BY <1>2, ReturnStep
<1> QED
  BY <1>1, <1>2 DEF EnsureOtherUsableAdmin

LEMMA CountStep ==
  ASSUME IInv, NEW a \in Actors, CountKeys(a)
  PROVE  IInv'
<1>1. op[a].cmd = "removeKey"
  BY DEF CountKeys, IInv, ArgsOK, InFlight
<1>2. CASE LastKeyOfAdmin(op[a])
  BY <1>2, AdvanceStep DEF CountKeys
<1>3. CASE ~LastKeyOfAdmin(op[a])
  BY <1>1, <1>3, AdvanceStep DEF CountKeys, Protected
<1> QED
  BY <1>2, <1>3

LEMMA KeyExistsStep ==
  ASSUME IInv, NEW a \in Actors, KeyExists(a)
  PROVE  IInv'
<1>1. op[a].cmd = "addKey"
  BY DEF KeyExists, IInv, ArgsOK, InFlight
<1>2. CASE /\ op' = [op EXCEPT ![a].pc = "write"]
           /\ UNCHANGED <<db, stale, raced>>
  BY <1>1, <1>2, AdvanceStep DEF KeyExists, Protected
<1>3. CASE Return(a)
  BY <1>3, ReturnStep
<1> QED
  BY <1>2, <1>3 DEF KeyExists

-----------------------------------------------------------------------------
(* The statements that write.                                              *)

\* What remains to be shown of a write, once CommitOvertakes is applied: that
\* the tables keep their types, no key is orphaned, and an operation that was
\* not overtaken leaves a usable administrator.
LEMMA WriteStep ==
  ASSUME IInv, NEW a \in Actors, Committed(a),
         \/ op' = [op EXCEPT ![a] = Idle]
         \/ op' = op /\ op[a].pc = "idle",
         users' \in SUBSET Ids,
         username' \in [Ids -> Names \cup {None}],
         role' \in [Ids -> Roles],
         enabled' \in [Ids -> BOOLEAN],
         keys' \in [Ids -> SUBSET Fingerprints],
         \A i, j \in users' : username'[i] = username'[j] => i = j,
         NoOrphanKeys',
         a \notin stale /\ UsableAdmins # {} => UsableAdmins' # {}
  PROVE  IInv'
<1>1. /\ ArgsOK' /\ ReadsHold' /\ ChecksHold'
      /\ op' \in [Actors -> OpType]
      /\ \A b \in InFlight' : op'[b].id \in Ids
      /\ stale' \in SUBSET InFlight'
      /\ raced' \in BOOLEAN
      /\ raced => raced'
      /\ a \in stale => raced'
  BY CommitOvertakes DEF IInv
<1>2. TypeOK'
  BY <1>1 DEF TypeOK
<1>3. AdminLossNeedsRace'
  BY <1>1 DEF IInv, AdminLossNeedsRace, UsableAdminExists
<1> QED
  BY <1>1, <1>2, <1>3 DEF IInv

\* What an operation that was not overtaken knows when it writes.
LEMMA FreshWrite ==
  ASSUME IInv, NEW a \in Actors, a \notin stale, op[a].pc = "write"
  PROVE  /\ op[a].id \in users /\ op[a].id \in Ids
         /\ role[op[a].id] = op[a].role
         /\ enabled[op[a].id] = op[a].enabled
         /\ Protected(op[a].cmd, op[a].role) => UsableAdmins \ {op[a].id} # {}
         /\ op[a].cmd = "removeKey" /\ LastKeyOfAdmin(op[a])
              => UsableAdmins \ {op[a].id} # {}
BY DEF IInv, TypeOK, ReadsHold, ChecksHold, InFlight, OtherUsableAdmin

LEMMA SetUserEnabledStep ==
  ASSUME IInv, NEW a \in Actors, SetUserEnabled(a)
  PROVE  IInv'
<1> DEFINE id == op[a].id
<1>1. id \in Ids /\ enabled' \in [Ids -> BOOLEAN]
  BY DEF IInv, TypeOK, SetUserEnabled, Writing, InFlight
<1>2. ASSUME a \notin stale, UsableAdmins # {}
      PROVE  UsableAdmins' # {}
  <2>1. \A i \in UsableAdmins : i # id => i \in UsableAdmins'
    BY <1>1 DEF UsableAdmins, SetUserEnabled, IInv, TypeOK
  <2>2. CASE op[a].cmd = "enable"
    <3>1. PICK i : i \in UsableAdmins
      BY <1>2
    <3>2. i \in UsableAdmins'
      BY <2>1, <2>2, <3>1, <1>1 DEF UsableAdmins, SetUserEnabled, IInv, TypeOK
    <3> QED
      BY <3>2
  <2>3. CASE op[a].cmd = "disable"
    <3>1. CASE op[a].role = "admin"
      BY <1>2, <2>1, <2>3, <3>1, FreshWrite
         DEF Protected, SetUserEnabled, Writing
    <3>2. CASE op[a].role # "admin"
      BY <1>2, <2>1, <3>2, FreshWrite DEF UsableAdmins, SetUserEnabled, Writing
    <3> QED
      BY <3>1, <3>2
  <2> QED
    BY <2>2, <2>3 DEF SetUserEnabled, Writing
<1>3. NoOrphanKeys'
  BY DEF IInv, NoOrphanKeys, SetUserEnabled
<1> QED
  BY <1>1, <1>2, <1>3, WriteStep DEF IInv, TypeOK, SetUserEnabled

LEMMA SetUserRoleStep ==
  ASSUME IInv, NEW a \in Actors, SetUserRole(a)
  PROVE  IInv'
<1> DEFINE id == op[a].id
<1>1. id \in Ids /\ role' \in [Ids -> Roles]
  BY DEF IInv, TypeOK, SetUserRole, Writing, InFlight, Roles
<1>2. ASSUME a \notin stale, UsableAdmins # {}
      PROVE  UsableAdmins' # {}
  <2>1. \A i \in UsableAdmins : i # id => i \in UsableAdmins'
    BY <1>1 DEF UsableAdmins, SetUserRole, IInv, TypeOK
  <2>2. CASE op[a].cmd = "promote"
    <3>1. PICK i : i \in UsableAdmins
      BY <1>2
    <3>2. i \in UsableAdmins'
      BY <2>1, <2>2, <3>1, <1>1 DEF UsableAdmins, SetUserRole, IInv, TypeOK
    <3> QED
      BY <3>2
  <2>3. CASE op[a].cmd = "demote"
    <3>1. CASE op[a].role = "admin"
      BY <1>2, <2>1, <2>3, <3>1, FreshWrite DEF Protected, SetUserRole, Writing
    <3>2. CASE op[a].role # "admin"
      BY <1>2, <2>1, <3>2, FreshWrite DEF UsableAdmins, SetUserRole, Writing
    <3> QED
      BY <3>1, <3>2
  <2> QED
    BY <2>2, <2>3 DEF SetUserRole, Writing
<1>3. NoOrphanKeys'
  BY DEF IInv, NoOrphanKeys, SetUserRole
<1> QED
  BY <1>1, <1>2, <1>3, WriteStep DEF IInv, TypeOK, SetUserRole

LEMMA DeleteUserStep ==
  ASSUME IInv, NEW a \in Actors, DeleteUser(a)
  PROVE  IInv'
<1> DEFINE id == op[a].id
<1>1. /\ id \in Ids
      /\ users' \in SUBSET Ids
      /\ username' \in [Ids -> Names \cup {None}]
      /\ role' \in [Ids -> Roles]
      /\ enabled' \in [Ids -> BOOLEAN]
      /\ keys' \in [Ids -> SUBSET Fingerprints]
      /\ \A i, j \in users' : username'[i] = username'[j] => i = j
  BY DEF IInv, TypeOK, DeleteUser, DeleteRow, Roles
<1>2. ASSUME a \notin stale, UsableAdmins # {}
      PROVE  UsableAdmins' # {}
  <2>1. \A i \in UsableAdmins : i # id => i \in UsableAdmins'
    BY <1>1 DEF UsableAdmins, DeleteUser, DeleteRow, IInv, TypeOK
  <2>2. CASE op[a].role = "admin"
    BY <1>2, <2>1, <2>2, FreshWrite DEF Protected, DeleteUser, Writing
  <2>3. CASE op[a].role # "admin"
    BY <1>2, <2>1, <2>3, FreshWrite DEF UsableAdmins, DeleteUser, Writing
  <2> QED
    BY <2>2, <2>3
<1>3. NoOrphanKeys'
  BY <1>1 DEF IInv, TypeOK, NoOrphanKeys, DeleteUser, DeleteRow
<1> QED
  BY <1>1, <1>2, <1>3, WriteStep DEF DeleteUser

LEMMA AddGatewayKeyStep ==
  ASSUME IInv, NEW a \in Actors, AddGatewayKey(a)
  PROVE  IInv'
<1>1. op[a].id \in Ids /\ op[a].fp \in Fingerprints
  BY DEF IInv, TypeOK, ArgsOK, AddGatewayKey, Writing, InFlight
<1>2. keys' \in [Ids -> SUBSET Fingerprints]
  BY <1>1 DEF IInv, TypeOK, AddGatewayKey
<1>3. UsableAdmins \subseteq UsableAdmins'
  BY <1>1 DEF UsableAdmins, AddGatewayKey, IInv, TypeOK
<1>4. NoOrphanKeys'
  BY <1>1 DEF IInv, TypeOK, NoOrphanKeys, AddGatewayKey, KeyInsertable
<1> QED
  BY <1>2, <1>3, <1>4, WriteStep DEF IInv, TypeOK, AddGatewayKey

\* A set of two or more keys is not exhausted by removing one.
LEMMA SecondKeyRemains ==
  ASSUME NEW K \in SUBSET Fingerprints, NEW f, ~(Cardinality(K) <= 1)
  PROVE  K \ {f} # {}
<1>1. IsFiniteSet(K) /\ Cardinality(K) \in Nat
  BY FingerprintsFinite, FS_Subset, FS_CardinalityType
<1>2. SUFFICES ASSUME K \ {f} = {} PROVE FALSE
  OBVIOUS
<1>3. K = {} \/ K = {f}
  BY <1>2
<1>4. Cardinality({}) = 0 /\ Cardinality({f}) = 1
  BY FS_EmptySet, FS_Singleton
<1> QED
  BY <1>1, <1>3, <1>4

LEMMA RemoveGatewayKeyStep ==
  ASSUME IInv, NEW a \in Actors, RemoveGatewayKey(a)
  PROVE  IInv'
<1> DEFINE id == op[a].id
<1>1. id \in Ids /\ keys' \in [Ids -> SUBSET Fingerprints]
  BY DEF IInv, TypeOK, RemoveGatewayKey, Writing, InFlight
<1>2. ASSUME a \notin stale, UsableAdmins # {}
      PROVE  UsableAdmins' # {}
  <2>1. \A i \in UsableAdmins : i # id => i \in UsableAdmins'
    BY <1>1 DEF UsableAdmins, RemoveGatewayKey, IInv, TypeOK
  <2>2. CASE LastKeyOfAdmin(op[a])
    BY <1>2, <2>1, <2>2, FreshWrite DEF RemoveGatewayKey, Writing
  <2>3. CASE ~(op[a].role = "admin" /\ op[a].enabled)
    BY <1>2, <2>1, <2>3, FreshWrite DEF UsableAdmins, RemoveGatewayKey, Writing
  <2>4. CASE /\ ~LastKeyOfAdmin(op[a])
             /\ op[a].role = "admin" /\ op[a].enabled
    <3>1. ~(Cardinality(keys[id]) <= 1) /\ keys[id] \in SUBSET Fingerprints
      BY <2>4, <1>1 DEF LastKeyOfAdmin, IInv, TypeOK
    <3>2. keys[id] \ {op[a].fp} # {}
      BY <3>1, SecondKeyRemains
    <3>3. keys'[id] # {}
      BY <3>2, <1>1 DEF RemoveGatewayKey, IInv, TypeOK
    <3>4. id \in users /\ role[id] = "admin" /\ enabled[id]
      BY <1>2, <2>4, FreshWrite DEF RemoveGatewayKey, Writing
    <3>5. id \in UsableAdmins'
      BY <3>3, <3>4 DEF UsableAdmins, RemoveGatewayKey
    <3> QED
      BY <3>5
  <2> QED
    BY <2>2, <2>3, <2>4
<1>3. NoOrphanKeys'
  BY <1>1 DEF IInv, TypeOK, NoOrphanKeys, RemoveGatewayKey
<1> QED
  BY <1>1, <1>2, <1>3, WriteStep DEF IInv, TypeOK, RemoveGatewayKey

LEMMA AddUserStep ==
  ASSUME IInv, NEW a \in Actors, NEW n \in Names, NEW r \in Roles,
         AddUser(a, n, r)
  PROVE  IInv'
<1>1. PICK id \in Ids :
        /\ id \notin users
        /\ users'    = users \cup {id}
        /\ username' = [username EXCEPT ![id] = n]
        /\ role'     = [role EXCEPT ![id] = r]
        /\ enabled'  = [enabled EXCEPT ![id] = TRUE]
  BY DEF AddUser, NextId
<1>2. /\ users' \in SUBSET Ids
      /\ username' \in [Ids -> Names \cup {None}]
      /\ role' \in [Ids -> Roles]
      /\ enabled' \in [Ids -> BOOLEAN]
      /\ keys' \in [Ids -> SUBSET Fingerprints]
      /\ \A i, j \in users' : username'[i] = username'[j] => i = j
  BY <1>1 DEF IInv, TypeOK, AddUser, NameFree
<1>3. UsableAdmins \subseteq UsableAdmins'
  BY <1>1 DEF UsableAdmins, AddUser, IInv, TypeOK
<1>4. NoOrphanKeys'
  BY <1>1 DEF IInv, NoOrphanKeys, AddUser
<1> QED
  BY <1>2, <1>3, <1>4, WriteStep DEF AddUser

-----------------------------------------------------------------------------
(* The invariant.                                                          *)

LEMMA InitIInv == Init => IInv
<1> SUFFICES ASSUME Init PROVE IInv
  OBVIOUS
<1>1. PICK n \in Names, f \in Fingerprints :
        /\ username = [i \in Ids |-> IF i = 1 THEN n ELSE None]
        /\ keys     = [i \in Ids |-> IF i = 1 THEN {f} ELSE {}]
  BY DEF Init
<1>2. 1 \in Ids /\ users = {1} /\ raced = FALSE /\ stale = {}
  BY MaxIdNat DEF Init, Ids
<1>3. op \in [Actors -> OpType] /\ InFlight = {}
  BY MaxIdNat DEF Init, Idle, OpType, InFlight, Roles
<1>4. TypeOK
  <2>1. username \in [Ids -> Names \cup {None}]
    BY <1>1
  <2>2. role \in [Ids -> Roles]
    BY DEF Init, Roles
  <2>3. enabled \in [Ids -> BOOLEAN]
    BY DEF Init
  <2>4. keys \in [Ids -> SUBSET Fingerprints]
    BY <1>1
  <2> QED
    BY <1>2, <1>3, <2>1, <2>2, <2>3, <2>4 DEF TypeOK
<1>5. 1 \in UsableAdmins
  BY <1>1, <1>2 DEF Init, UsableAdmins
<1>6. NoOrphanKeys
  BY <1>1, <1>2 DEF NoOrphanKeys
<1>7. ChecksHold
  BY <1>3 DEF ChecksHold, InFlight
<1> QED
  BY <1>3, <1>4, <1>5, <1>6, <1>7
     DEF IInv, ArgsOK, ReadsHold, AdminLossNeedsRace, UsableAdminExists

LEMMA StutterIInv == ASSUME IInv, UNCHANGED vars PROVE IInv'
BY DEF IInv, vars, TypeOK, ArgsOK, NoOrphanKeys, ReadsHold, ChecksHold,
       AdminLossNeedsRace, UsableAdminExists, UsableAdmins, InFlight,
       OtherUsableAdmin, LastKeyOfAdmin

LEMMA NextIInv == IInv /\ [Next]_vars => IInv'
<1> SUFFICES ASSUME IInv, [Next]_vars PROVE IInv'
  OBVIOUS
<1>1. CASE UNCHANGED vars
  BY <1>1, StutterIInv
<1>2. CASE Next
  <2>1. PICK a \in Actors :
          \/ Begin(a)
          \/ EnsureOtherUsableAdmin(a) \/ CountKeys(a) \/ KeyExists(a)
          \/ SetUserEnabled(a) \/ SetUserRole(a) \/ DeleteUser(a)
          \/ AddGatewayKey(a) \/ RemoveGatewayKey(a) \/ WriteFails(a)
          \/ \E n \in Names, r \in Roles : AddUser(a, n, r)
          \/ Abort(a)
    BY <1>2 DEF Next
  <2>2. CASE Begin(a)
    BY <2>2, UserByNameStep DEF Begin
  <2>3. CASE EnsureOtherUsableAdmin(a)
    BY <2>3, EnsureStep
  <2>4. CASE CountKeys(a)
    BY <2>4, CountStep
  <2>5. CASE KeyExists(a)
    BY <2>5, KeyExistsStep
  <2>6. CASE SetUserEnabled(a)
    BY <2>6, SetUserEnabledStep
  <2>7. CASE SetUserRole(a)
    BY <2>7, SetUserRoleStep
  <2>8. CASE DeleteUser(a)
    BY <2>8, DeleteUserStep
  <2>9. CASE AddGatewayKey(a)
    BY <2>9, AddGatewayKeyStep
  <2>10. CASE RemoveGatewayKey(a)
    BY <2>10, RemoveGatewayKeyStep
  <2>11. CASE WriteFails(a) \/ Abort(a)
    BY <2>11, ReturnStep DEF WriteFails, Abort
  <2>12. CASE \E n \in Names, r \in Roles : AddUser(a, n, r)
    BY <2>12, AddUserStep
  <2> QED
    BY <2>1, <2>2, <2>3, <2>4, <2>5, <2>6, <2>7, <2>8, <2>9, <2>10, <2>11,
       <2>12
<1> QED
  BY <1>1, <1>2

\* The inductive invariant holds in every reachable state.
THEOREM AccountsInvariant == Spec => []IInv
BY InitIInv, NextIInv, PTL DEF Spec

\* Every column, operation record and history variable keeps its type.
THEOREM AccountsTypeCorrect == Spec => []TypeOK
<1>1. IInv => TypeOK
  BY DEF IInv
<1> QED
  BY <1>1, AccountsInvariant, PTL

\* Keys never outlive their user, whatever the administrators interleave.
THEOREM AccountsNoOrphanKeys == Spec => []NoOrphanKeys
<1>1. IInv => NoOrphanKeys
  BY DEF IInv
<1> QED
  BY <1>1, AccountsInvariant, PTL

\* The last usable administrator is lost only to a write on an overtaken read.
THEOREM AccountsAdminLossNeedsRace == Spec => []AdminLossNeedsRace
<1>1. IInv => AdminLossNeedsRace
  BY DEF IInv
<1> QED
  BY <1>1, AccountsInvariant, PTL

\* A write reaches the account that was named, unless the read behind it was
\* overtaken.
THEOREM AccountsMisdirectedNeedsRace == Spec => MisdirectedNeedsRace
<1> DEFINE Lands ==
      \A a \in Actors :
        op[a].pc = "write" /\ op'[a].pc = "idle" /\ db' # db =>
          username[op[a].id] = op[a].name \/ a \in stale
<1>1. IInv => Lands
  BY DEF IInv, ReadsHold, InFlight
<1>2. IInv /\ [Next]_vars => [Lands]_vars
  BY <1>1
<1> QED
  BY <1>2, AccountsInvariant, PTL DEF MisdirectedNeedsRace, Spec

-----------------------------------------------------------------------------
(* One administrator at a time: nothing is ever overtaken.                 *)

NoRace == stale = {} /\ raced = FALSE

LEMMA SequentialNoRace ==
  ASSUME SingleActor
  PROVE  Spec => []NoRace
<1>1. Init => NoRace
  BY DEF Init, NoRace
<1>2. NoRace /\ [Next]_vars => NoRace'
  <2> SUFFICES ASSUME NoRace, [Next]_vars PROVE NoRace'
    OBVIOUS
  <2>1. \A a \in Actors : InFlight \subseteq {a}
    BY SingleActor DEF SingleActor, InFlight
  <2>2. ASSUME NEW a \in Actors, Committed(a) PROVE NoRace'
    BY <2>1, <2>2 DEF Committed, NoRace
  <2>3. ASSUME NEW a \in Actors, Return(a) PROVE NoRace'
    BY <2>3 DEF Return, NoRace
  <2>4. CASE UNCHANGED vars
    BY <2>4 DEF vars, NoRace
  <2>5. ASSUME NEW a \in Actors, UNCHANGED <<stale, raced>> PROVE NoRace'
    BY <2>5 DEF NoRace
  <2>6. CASE Next
    <3> DEFINE Harmless(a) == Committed(a) \/ Return(a) \/ UNCHANGED <<stale, raced>>
    <3>1. ASSUME NEW a \in Actors,
                 Begin(a) \/ EnsureOtherUsableAdmin(a) \/ CountKeys(a) \/ KeyExists(a)
          PROVE  Harmless(a)
      BY <3>1 DEF Begin, UserByName, EnsureOtherUsableAdmin, CountKeys, KeyExists
    <3>2. ASSUME NEW a \in Actors,
                 SetUserEnabled(a) \/ SetUserRole(a) \/ DeleteUser(a)
                   \/ AddGatewayKey(a) \/ RemoveGatewayKey(a)
          PROVE  Harmless(a)
      BY <3>2 DEF SetUserEnabled, SetUserRole, DeleteUser, AddGatewayKey, RemoveGatewayKey
    <3>3. ASSUME NEW a \in Actors,
                 WriteFails(a) \/ Abort(a) \/ \E n \in Names, r \in Roles : AddUser(a, n, r)
          PROVE  Harmless(a)
      BY <3>3 DEF WriteFails, Abort, AddUser
    <3>4. \E a \in Actors : Harmless(a)
      BY <2>6, <3>1, <3>2, <3>3 DEF Next
    <3> QED
      BY <2>2, <2>3, <2>5, <3>4
  <2> QED
    BY <2>4, <2>6
<1> QED
  BY <1>1, <1>2, PTL DEF Spec

\* With one administrator at work at a time, a usable one always remains.
THEOREM SequentialAdminsKeepOne ==
  ASSUME SingleActor
  PROVE  Spec => []UsableAdminExists
<1>1. NoRace /\ AdminLossNeedsRace => UsableAdminExists
  BY DEF AdminLossNeedsRace, NoRace
<1> QED
  BY <1>1, SequentialNoRace, AccountsAdminLossNeedsRace, PTL

\* ... and every change lands on the account it was asked for, although the
\* account is looked up by name and written by an id that is handed out again.
THEOREM SequentialChangesLand ==
  ASSUME SingleActor
  PROVE  Spec => [][\A a \in Actors :
                      op[a].pc = "write" /\ op'[a].pc = "idle" /\ db' # db =>
                        username[op[a].id] = op[a].name]_vars
<1> DEFINE Lands ==
      \A a \in Actors :
        op[a].pc = "write" /\ op'[a].pc = "idle" /\ db' # db =>
          username[op[a].id] = op[a].name
<1>1. IInv /\ NoRace => Lands
  BY DEF IInv, ReadsHold, InFlight, NoRace
<1>2. IInv /\ NoRace /\ [Next]_vars => [Lands]_vars
  BY <1>1
<1> QED
  BY <1>2, SequentialNoRace, AccountsInvariant, PTL DEF Spec
=============================================================================
