------------------------------ MODULE Credentials ------------------------------
(***************************************************************************)
(* Targets, saved SSH keys (identities) and their secrets: the store's     *)
(* statements as the local commands and the menu put them together, and    *)
(* the gateway loading a credential.  Several operations run at a time;    *)
(* each statement is atomic, an operation of several statements is not,    *)
(* and any operation may be killed.                                        *)
(*                                                                         *)
(* A secret is encrypted for an id and a kind (the associated data); it    *)
(* opens under no other.  SQLite gives a new row the id after the highest  *)
(* one, so the id of a deleted row can come back: gen tells the rows apart *)
(* that had the same id.                                                   *)
(***************************************************************************)
EXTENDS Naturals

CONSTANTS
  Procs,       \* administrators and sessions
  TargetNames,
  IdentNames,
  NoName,
  SecretKinds, \* kinds with a secret of their own: password, private_key, forwarded_agent
  MaxRows,     \* bound on the rows ever inserted
  MaxOps       \* bound on the operations ever started

ASSUME CredentialsAssumption ==
  /\ NoName \notin TargetNames \cup IdentNames
  /\ {"stored_key", "identity", "none"} \cap SecretKinds = {}
  /\ MaxRows \in Nat /\ MaxOps \in Nat

VARIABLES
  tgt,    \* tgt[i]: the row of targets with id i
  idt,    \* idt[i]: the row of ssh_identities with id i
  op,     \* op[p]: the operation p is in
  used,   \* the last credential a session connected with
  gens,   \* rows inserted so far
  ops,    \* operations started so far
  stale,  \* history: processes whose id was written or deleted by others
          \* since they learnt it
  spoilt  \* history: rows (by gen) that a stale process wrote, or whose
          \* adding was cut short

vars == <<tgt, idt, op, used, gens, ops, stale, spoilt>>

Ids  == 1..MaxRows
Gens == 0..MaxRows
TargetKinds == SecretKinds \cup {"stored_key"}

Sealed == [id : Gens, kind : SecretKinds \cup {"identity", "none"}, gen : Gens]
NoSecret == [id |-> 0, kind |-> "none", gen |-> 0]

\* Row i is absent when its gen is 0.  A target row names its identity by id
\* (0 for NULL) and, for the record, by gen.
TargetRow == [gen : Gens, name : TargetNames \cup {NoName},
              kind : TargetKinds \cup {"none"}, sealed : Sealed,
              ident : Gens, igen : Gens]
NoTarget == [gen |-> 0, name |-> NoName, kind |-> "none", sealed |-> NoSecret,
             ident |-> 0, igen |-> 0]

IdentRow == [gen : Gens, name : IdentNames \cup {NoName}, sealed : Sealed]
NoIdent  == [gen |-> 0, name |-> NoName, sealed |-> NoSecret]

\* An operation: its step, what it was asked for, and the ids it has learnt.
Steps == {"idle", "insert", "readBack", "seal", "cleanup", "insertStored",
          "replace", "use", "insertIdent", "readIdentBack", "sealIdent",
          "countIdent", "deleteIdent", "readIdent"}
Op == [at : Steps, name : TargetNames \cup IdentNames \cup {NoName},
       kind : TargetKinds \cup {"none"},
       id : Gens, gen : Gens, iid : Gens, igen : Gens]
Idle == [at |-> "idle", name |-> NoName, kind |-> "none",
         id |-> 0, gen |-> 0, iid |-> 0, igen |-> 0]

Used == [want : Gens, got : Gens, wantKind : TargetKinds \cup {"identity", "none"},
         gotKind : SecretKinds \cup {"identity", "none"}, stale : BOOLEAN]
NothingUsed == [want |-> 0, got |-> 0, wantKind |-> "none", gotKind |-> "none",
                stale |-> FALSE]

Init ==
  /\ tgt = [i \in Ids |-> NoTarget]
  /\ idt = [i \in Ids |-> NoIdent]
  /\ op = [p \in Procs |-> Idle]
  /\ used = NothingUsed
  /\ gens = 0 /\ ops = 0
  /\ stale = {} /\ spoilt = {}

-----------------------------------------------------------------------------
(* What the database and the cipher do.                                    *)

Live(t, i) == t[i].gen # 0

\* INTEGER PRIMARY KEY: one more than the highest id.
IsNextId(t, i) ==
  /\ \A j \in Ids : j >= i => ~Live(t, j)
  /\ \A j \in Ids : j + 1 = i => Live(t, j)

\* name TEXT NOT NULL UNIQUE
NameTaken(t, n) == \E i \in Ids : Live(t, i) /\ t[i].name = n

\* identity_id REFERENCES ssh_identities ON DELETE RESTRICT
Referenced(i) == \E t \in Ids : Live(tgt, t) /\ tgt[t].ident = i

Seal(i, k, g) == [id |-> i, kind |-> k, gen |-> g]
OpensAnyKind(s, i, k) == s.id = i
Opens(s, i, k) == s.id = i /\ s.kind = k

\* The processes that go by target id i, or by identity id i, other than p.
Holders(p, i) == {q \in Procs \ {p} : op[q].id = i}
IdentHolders(p, i) == {q \in Procs \ {p} : op[q].iid = i}

\* p writes target row i: the others that know it are overtaken, and if p is
\* itself, the row may be left in a state nobody asked for.
Touch(p, i, g) ==
  /\ stale' = (stale \ {p}) \cup Holders(p, i)
  /\ spoilt' = IF p \in stale THEN spoilt \cup {g} ELSE spoilt

Finish(p) == op' = [op EXCEPT ![p] = Idle]
Leave(p) == Finish(p) /\ stale' = stale \ {p}
Enter(p, o) ==
  /\ op[p].at = "idle"
  /\ ops < MaxOps
  /\ ops' = ops + 1
  /\ op' = [op EXCEPT ![p] = o]

-----------------------------------------------------------------------------
(* targets add, and the menu's target form.                                *)

StartAdd(p, n, k) ==
  /\ Enter(p, [Idle EXCEPT !.at = "insert", !.name = n, !.kind = k])
  /\ UNCHANGED <<tgt, idt, used, gens, stale, spoilt>>

\* The form lists the saved keys; the one picked is known by its id from then on.
StartAddStored(p, n, i) ==
  /\ Live(idt, i)
  /\ Enter(p, [Idle EXCEPT !.at = "insertStored", !.name = n, !.kind = "stored_key",
                           !.iid = i, !.igen = idt[i].gen])
  /\ UNCHANGED <<tgt, idt, used, gens, stale, spoilt>>

\* AddTarget: INSERT INTO targets; the row has no secret yet.
Insert(p) ==
  /\ op[p].at = "insert"
  /\ ~NameTaken(tgt, op[p].name)
  /\ gens < MaxRows
  /\ gens' = gens + 1
  /\ \E i \in Ids :
       /\ IsNextId(tgt, i)
       /\ tgt' = [tgt EXCEPT ![i] = [NoTarget EXCEPT
            !.gen = gens + 1, !.name = op[p].name, !.kind = op[p].kind]]
       /\ op' = [op EXCEPT ![p].at = "readBack", ![p].id = i, ![p].gen = gens + 1]
       /\ stale' = stale \cup Holders(p, i)
  /\ UNCHANGED <<idt, used, ops, spoilt>>

\* AddTarget returns TargetByID: the row that has the id now, and its name.
ReadBack(p) ==
  /\ op[p].at = "readBack"
  /\ Live(tgt, op[p].id)
  /\ op' = [op EXCEPT ![p].at = "seal", ![p].name = tgt[op[p].id].name]
  /\ UNCHANGED <<tgt, idt, used, gens, ops, stale, spoilt>>

\* finishStoredTarget: one statement, refused when the key is gone.  Nothing
\* but the audit entry depends on what it reads back.
InsertStored(p) ==
  /\ op[p].at = "insertStored"
  /\ ~NameTaken(tgt, op[p].name)
  /\ Live(idt, op[p].iid)
  /\ gens < MaxRows
  /\ gens' = gens + 1
  /\ \E i \in Ids :
       /\ IsNextId(tgt, i)
       /\ tgt' = [tgt EXCEPT ![i] = [NoTarget EXCEPT
            !.gen = gens + 1, !.name = op[p].name, !.kind = "stored_key",
            !.ident = op[p].iid, !.igen = op[p].igen]]
       /\ stale' = (stale \ {p}) \cup Holders(p, i)
       /\ spoilt' = IF p \in stale THEN spoilt \cup {gens + 1} ELSE spoilt
  /\ Finish(p)
  /\ UNCHANGED <<idt, used, ops>>

\* SetTargetCredential: the kind stays as it is, the identity is cleared.
SetTargetCredential(p) ==
  /\ op[p].at = "seal"
  /\ Live(tgt, op[p].id)
  /\ tgt' = [tgt EXCEPT ![op[p].id] = [@ EXCEPT
       !.sealed = Seal(op[p].id, op[p].kind, op[p].gen), !.ident = 0, !.igen = 0]]
  /\ Touch(p, op[p].id, tgt[op[p].id].gen)
  /\ Finish(p)
  /\ UNCHANGED <<idt, used, gens, ops>>

\* No row with the id, or readCredential, Load, Encrypt or the statement fails.
SealFails(p) ==
  /\ op[p].at = "seal"
  /\ op' = [op EXCEPT ![p].at = "cleanup"]
  /\ UNCHANGED <<tgt, idt, used, gens, ops, stale, spoilt>>

DeleteByName(p, n) ==
  /\ tgt' = [i \in Ids |-> IF tgt[i].name = n THEN NoTarget ELSE tgt[i]]
  /\ stale' = (stale \ {p}) \cup
       {q \in Procs \ {p} : \E i \in Ids : op[q].id = i /\ tgt[i].name = n /\ Live(tgt, i)}

\* DeleteTarget(t.Name): the row that has the name now.
Cleanup(p) ==
  /\ op[p].at = "cleanup"
  /\ DeleteByName(p, op[p].name)
  /\ Finish(p)
  /\ UNCHANGED <<idt, used, gens, ops, spoilt>>

\* Its error is ignored.
CleanupFails(p) ==
  /\ op[p].at = "cleanup"
  /\ spoilt' = spoilt \cup {op[p].gen}
  /\ Leave(p)
  /\ UNCHANGED <<tgt, idt, used, gens, ops>>

-----------------------------------------------------------------------------
(* Changing and deleting a target.                                         *)

\* TargetByName, or the row of the menu's list.
StartReplace(p, i, k) ==
  /\ Live(tgt, i)
  /\ Enter(p, [Idle EXCEPT !.at = "replace", !.name = tgt[i].name, !.kind = k,
                           !.id = i, !.gen = tgt[i].gen])
  /\ UNCHANGED <<tgt, idt, used, gens, stale, spoilt>>

\* The kind of the statement, which rejects stored_key.
ReplaceKindsAll == TargetKinds
ReplaceKinds == SecretKinds

KindKept(p) == tgt[op[p].id].kind
KindWritten(p) == op[p].kind

SetTargetCredentialKind(p) ==
  /\ op[p].at = "replace"
  /\ Live(tgt, op[p].id)
  /\ tgt' = [tgt EXCEPT ![op[p].id] = [@ EXCEPT
       !.kind = KindWritten(p), !.sealed = Seal(op[p].id, op[p].kind, op[p].gen),
       !.ident = 0, !.igen = 0]]
  /\ Touch(p, op[p].id, tgt[op[p].id].gen)
  /\ Finish(p)
  /\ UNCHANGED <<idt, used, gens, ops>>

StartUse(p, i, j) ==
  /\ Live(tgt, i) /\ Live(idt, j)
  /\ Enter(p, [Idle EXCEPT !.at = "use", !.name = tgt[i].name, !.kind = "stored_key",
                           !.id = i, !.gen = tgt[i].gen,
                           !.iid = j, !.igen = idt[j].gen])
  /\ UNCHANGED <<tgt, idt, used, gens, stale, spoilt>>

SetTargetIdentity(p) ==
  /\ op[p].at = "use"
  /\ Live(tgt, op[p].id) /\ Live(idt, op[p].iid)
  /\ tgt' = [tgt EXCEPT ![op[p].id] = [@ EXCEPT
       !.kind = "stored_key", !.sealed = NoSecret,
       !.ident = op[p].iid, !.igen = op[p].igen]]
  /\ Touch(p, op[p].id, tgt[op[p].id].gen)
  /\ Finish(p)
  /\ UNCHANGED <<idt, used, gens, ops>>

DeleteTarget(p, n) ==
  /\ op[p].at = "idle"
  /\ ops < MaxOps
  /\ ops' = ops + 1
  /\ NameTaken(tgt, n)
  /\ DeleteByName(p, n)
  /\ UNCHANGED <<idt, op, used, gens, spoilt>>

-----------------------------------------------------------------------------
(* Saved SSH keys.                                                         *)

StartAddIdent(p, n) ==
  /\ Enter(p, [Idle EXCEPT !.at = "insertIdent", !.name = n])
  /\ UNCHANGED <<tgt, idt, used, gens, stale, spoilt>>

\* INSERT INTO ssh_identities
AddSSHIdentity(p) ==
  /\ op[p].at = "insertIdent"
  /\ ~NameTaken(idt, op[p].name)
  /\ gens < MaxRows
  /\ gens' = gens + 1
  /\ \E i \in Ids :
       /\ IsNextId(idt, i)
       /\ idt' = [idt EXCEPT ![i] = [NoIdent EXCEPT !.gen = gens + 1, !.name = op[p].name]]
       /\ op' = [op EXCEPT ![p].at = "readIdentBack", ![p].iid = i, ![p].igen = gens + 1]
       /\ stale' = stale \cup IdentHolders(p, i)
  /\ UNCHANGED <<tgt, used, ops, spoilt>>

\* AddSSHIdentity returns SSHIdentityByID.
ReadIdentBack(p) ==
  /\ op[p].at = "readIdentBack"
  /\ Live(idt, op[p].iid)
  /\ op' = [op EXCEPT ![p].at = "sealIdent", ![p].name = idt[op[p].iid].name]
  /\ UNCHANGED <<tgt, idt, used, gens, ops, stale, spoilt>>

SetSSHIdentitySecret(p) ==
  /\ op[p].at = "sealIdent"
  /\ Live(idt, op[p].iid)
  /\ idt' = [idt EXCEPT ![op[p].iid].sealed = Seal(op[p].iid, "identity", op[p].igen)]
  /\ spoilt' = IF p \in stale THEN spoilt \cup {idt[op[p].iid].gen} ELSE spoilt
  /\ Leave(p)
  /\ UNCHANGED <<tgt, used, gens, ops>>

\* DeleteSSHIdentity(identity.Name) after an error.
SealIdentFails(p) ==
  /\ op[p].at = "sealIdent"
  /\ op' = [op EXCEPT ![p].at = "countIdent"]
  /\ UNCHANGED <<tgt, idt, used, gens, ops, stale, spoilt>>

StartDeleteIdent(p, n) ==
  /\ Enter(p, [Idle EXCEPT !.at = "countIdent", !.name = n])
  /\ UNCHANGED <<tgt, idt, used, gens, stale, spoilt>>

\* SELECT count(*) FROM targets WHERE identity_id=...
CountUses(p) ==
  /\ op[p].at = "countIdent"
  /\ ~\E i \in Ids : Live(idt, i) /\ idt[i].name = op[p].name /\ Referenced(i)
  /\ op' = [op EXCEPT ![p].at = "deleteIdent"]
  /\ UNCHANGED <<tgt, idt, used, gens, ops, stale, spoilt>>

\* The statement decides by itself: the count may be out of date.
Deletable(i) == ~Referenced(i)

DeleteSSHIdentity(p) ==
  /\ op[p].at = "deleteIdent"
  /\ \E i \in Ids :
       /\ Live(idt, i) /\ idt[i].name = op[p].name
       /\ Deletable(i)
       /\ idt' = [idt EXCEPT ![i] = NoIdent]
       /\ stale' = (stale \ {p}) \cup IdentHolders(p, i)
  /\ Finish(p)
  /\ UNCHANGED <<tgt, used, gens, ops, spoilt>>

-----------------------------------------------------------------------------
(* A session connects: loadCredential.                                     *)

\* AuthorizedTarget has read the row.  A secret of its own is opened at once;
\* a saved key is read by a second statement.
ConnectOwn(p, i) ==
  /\ op[p].at = "idle" /\ ops < MaxOps
  /\ Live(tgt, i) /\ tgt[i].kind # "stored_key"
  /\ Opens(tgt[i].sealed, i, tgt[i].kind)
  /\ ops' = ops + 1
  /\ used' = [want |-> tgt[i].gen, got |-> tgt[i].sealed.gen,
              wantKind |-> tgt[i].kind, gotKind |-> tgt[i].sealed.kind,
              stale |-> tgt[i].gen \in spoilt]
  /\ UNCHANGED <<tgt, idt, op, gens, stale, spoilt>>

ConnectStored(p, i) ==
  /\ Live(tgt, i) /\ tgt[i].kind = "stored_key" /\ tgt[i].ident # 0
  /\ Enter(p, [Idle EXCEPT !.at = "readIdent", !.gen = tgt[i].gen,
                           !.iid = tgt[i].ident, !.igen = tgt[i].igen])
  /\ UNCHANGED <<tgt, idt, used, gens, stale, spoilt>>

ReadIdent(p) ==
  /\ op[p].at = "readIdent"
  /\ Live(idt, op[p].iid)
  /\ Opens(idt[op[p].iid].sealed, op[p].iid, "identity")
  /\ used' = [want |-> op[p].igen, got |-> idt[op[p].iid].sealed.gen,
              wantKind |-> "identity", gotKind |-> idt[op[p].iid].sealed.kind,
              stale |-> p \in stale \/ op[p].gen \in spoilt
                          \/ idt[op[p].iid].gen \in spoilt]
  /\ Leave(p)
  /\ UNCHANGED <<tgt, idt, gens, ops, spoilt>>

-----------------------------------------------------------------------------
(* Errors that end an operation, and kills.                                *)

\* UNIQUE and foreign key errors, changed() without a row, a count above 0, a
\* secret that does not open, or the database.  When AddTarget or
\* AddSSHIdentity returns an error its caller cleans nothing up: the INSERT
\* failed, or the row could not be read back and stays without a secret.
AfterErrorCleans(s) == IF s \in {"insert", "readBack"} THEN "cleanup" ELSE "idle"
AfterError(s) == "idle"

\* The cleanup of a saved key comes to nothing when its DeleteSSHIdentity
\* fails; the row stays without a secret.
ReturnError(p) ==
  /\ op[p].at \notin {"idle", "seal", "sealIdent", "cleanup"}
  /\ IF AfterError(op[p].at) = "idle"
     THEN Leave(p)
     ELSE op' = [op EXCEPT ![p].at = AfterError(@)] /\ UNCHANGED stale
  /\ spoilt' = spoilt \cup (IF op[p].at = "readBack" THEN {op[p].gen} ELSE {})
       \cup (IF op[p].at \in {"readIdentBack", "countIdent", "deleteIdent"}
             THEN {op[p].igen} ELSE {})
  /\ UNCHANGED <<tgt, idt, used, gens, ops>>

Kill(p) ==
  /\ op[p].at # "idle"
  /\ spoilt' = spoilt
       \cup (IF op[p].at \in {"readBack", "seal", "cleanup"} THEN {op[p].gen} ELSE {})
       \cup (IF op[p].at \in {"readIdentBack", "sealIdent", "countIdent", "deleteIdent"}
             THEN {op[p].igen} ELSE {})
  /\ Leave(p)
  /\ UNCHANGED <<tgt, idt, used, gens, ops>>

-----------------------------------------------------------------------------
Add(p) ==
  \/ \E n \in TargetNames, k \in SecretKinds : StartAdd(p, n, k)
  \/ \E n \in TargetNames, i \in Ids : StartAddStored(p, n, i)
  \/ Insert(p) \/ ReadBack(p) \/ InsertStored(p)
  \/ SetTargetCredential(p) \/ SealFails(p) \/ Cleanup(p) \/ CleanupFails(p)

Change(p) ==
  \/ \E i \in Ids, k \in ReplaceKinds : StartReplace(p, i, k)
  \/ \E i, j \in Ids : StartUse(p, i, j)
  \/ SetTargetCredentialKind(p) \/ SetTargetIdentity(p)
  \/ \E n \in TargetNames : DeleteTarget(p, n)

SavedKeys(p) ==
  \/ \E n \in IdentNames : StartAddIdent(p, n) \/ StartDeleteIdent(p, n)
  \/ AddSSHIdentity(p) \/ ReadIdentBack(p)
  \/ SetSSHIdentitySecret(p) \/ SealIdentFails(p)
  \/ CountUses(p) \/ DeleteSSHIdentity(p)

Connect(p) ==
  \/ \E i \in Ids : ConnectOwn(p, i) \/ ConnectStored(p, i)
  \/ ReadIdent(p)

Next ==
  \E p \in Procs : Add(p) \/ Change(p) \/ SavedKeys(p) \/ Connect(p)
                   \/ ReturnError(p) \/ Kill(p)

Spec == Init /\ [][Next]_vars

-----------------------------------------------------------------------------
TypeOK ==
  /\ tgt \in [Ids -> TargetRow]
  /\ idt \in [Ids -> IdentRow]
  /\ op \in [Procs -> Op]
  /\ used \in Used
  /\ gens \in Gens
  /\ ops \in 0..MaxOps
  /\ stale \subseteq Procs
  /\ spoilt \subseteq Gens

\* A connection uses a secret of the kind the target asks for, and one that
\* was entered for this target, or the saved key that was selected for it,
\* unless an operation wrote by an id that had changed under it.
UsesOwnSecret ==
  /\ used.gotKind = used.wantKind
  /\ used.got = used.want \/ used.stale

\* Nobody is between the statements of adding row i of targets, or of keys.
Complete(i) == ~\E q \in Procs : op[q].id = i
                 /\ op[q].at \in {"readBack", "seal", "cleanup"}
CompleteIdent(i) == ~\E q \in Procs : op[q].iid = i
                      /\ op[q].at \in {"readIdentBack", "sealIdent", "countIdent",
                                       "deleteIdent"}

\* A target whose adding is complete can be connected to: its secret opens
\* under its id and kind, or its saved key is there and is the one selected,
\* unless an overtaken operation wrote it or its adding was cut short.
SettledIsUsable ==
  /\ \A i \in Ids :
       Live(tgt, i) /\ Complete(i) /\ tgt[i].gen \notin spoilt =>
         IF tgt[i].kind = "stored_key"
         THEN tgt[i].ident # 0 /\ idt[tgt[i].ident].gen = tgt[i].igen
         ELSE Opens(tgt[i].sealed, i, tgt[i].kind)
  /\ \A j \in Ids :
       Live(idt, j) /\ CompleteIdent(j) /\ idt[j].gen \notin spoilt =>
         Opens(idt[j].sealed, j, "identity")

\* The cleanup of a failed add deletes by name: it takes away the row it added
\* and no other, unless its row was deleted by somebody else before.
CleanupDeletesOwn ==
  [][\A p \in Procs, i \in Ids :
       /\ op[p].at = "cleanup" /\ op'[p].at = "idle"
       /\ Live(tgt, i) /\ ~Live(tgt', i)
       => tgt[i].gen = op[p].gen \/ p \in stale]_vars
=============================================================================
