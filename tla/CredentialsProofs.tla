--------------------------- MODULE CredentialsProofs ---------------------------
(***************************************************************************)
(* Proofs about Credentials, for any number of processes, names, rows and  *)
(* operations.                                                             *)
(***************************************************************************)
EXTENDS Credentials, TLAPS

\* What the step of an operation says about what it was asked for.
Asked ==
  \A p \in Procs :
    /\ op[p].at \in {"insert", "readBack", "seal", "replace"} => op[p].kind \in SecretKinds
    /\ op[p].at \in {"insert", "insertStored"} => op[p].name \in TargetNames
    /\ op[p].at = "insertIdent" => op[p].name \in IdentNames
    /\ op[p].at \in {"readBack", "seal", "cleanup", "replace", "use"} =>
         op[p].id \in Ids /\ op[p].gen # 0
    /\ op[p].at \in {"insertStored", "use", "readIdentBack", "sealIdent", "readIdent"} =>
         op[p].iid \in Ids

\* Every gen in use was handed out: the next one is new.
GensBound ==
  /\ \A p \in Procs : op[p].gen <= gens /\ op[p].igen <= gens
  /\ \A i \in Ids : tgt[i].gen <= gens /\ tgt[i].igen <= gens /\ idt[i].gen <= gens

\* UNIQUE: a name stands for one row.
OneRowPerName ==
  /\ \A i, j \in Ids :
       Live(tgt, i) /\ Live(tgt, j) /\ tgt[i].name = tgt[j].name => i = j
  /\ \A i, j \in Ids :
       Live(idt, i) /\ Live(idt, j) /\ idt[i].name = idt[j].name => i = j

\* No target refers to a saved key that is gone, although DeleteSSHIdentity
\* counts the uses in one statement and deletes in another.
NoDanglingIdentity ==
  \A i \in Ids : Live(tgt, i) /\ tgt[i].ident # 0 => Live(idt, tgt[i].ident)

\* An operation that was not overtaken knows the row its id stands for.
TargetKnown ==
  \A p \in Procs :
    /\ op[p].at \in {"readBack", "seal", "cleanup", "replace", "use"} /\ p \notin stale =>
         tgt[op[p].id].gen = op[p].gen
    /\ op[p].at \in {"readBack", "seal"} /\ p \notin stale => tgt[op[p].id].kind = op[p].kind
    /\ op[p].at \in {"readBack", "seal", "cleanup"} /\ tgt[op[p].id].gen = op[p].gen =>
         tgt[op[p].id].name = op[p].name

IdentKnown ==
  \A p \in Procs :
    /\ op[p].at \in {"readIdentBack", "sealIdent", "use", "insertStored"} /\ p \notin stale =>
         idt[op[p].iid].gen = op[p].igen
    /\ op[p].at = "readIdent" /\ p \notin stale =>
         idt[op[p].iid].gen = op[p].igen \/ op[p].gen \in spoilt
    /\ /\ op[p].at \in {"readIdentBack", "sealIdent", "countIdent", "deleteIdent"}
       /\ op[p].iid # 0
       /\ Live(idt, op[p].iid)
       /\ idt[op[p].iid].gen = op[p].igen
       => idt[op[p].iid].name = op[p].name

\* What is in a row was entered for it, or a history variable says so.
SecretsOwn ==
  /\ \A i \in Ids : Live(tgt, i) /\ tgt[i].sealed.id = i =>
       tgt[i].sealed.gen = tgt[i].gen \/ tgt[i].gen \in spoilt
  /\ \A j \in Ids : Live(idt, j) /\ idt[j].sealed.id = j =>
       idt[j].sealed.gen = idt[j].gen \/ idt[j].gen \in spoilt

KeysSelected ==
  \A i \in Ids : Live(tgt, i) =>
    /\ tgt[i].ident # 0 =>
         idt[tgt[i].ident].gen = tgt[i].igen \/ tgt[i].gen \in spoilt
    /\ tgt[i].kind = "stored_key" => tgt[i].ident # 0 \/ tgt[i].gen \in spoilt

\* A row without its secret is being added, or was left by an error.
Adding(i) == \E q \in Procs :
  op[q].at \in {"readBack", "seal", "cleanup"} /\ op[q].id = i /\ op[q].gen = tgt[i].gen
AddingIdent(j) == \E q \in Procs :
  /\ op[q].at \in {"readIdentBack", "sealIdent", "countIdent", "deleteIdent"}
  /\ op[q].iid = j /\ op[q].igen = idt[j].gen

TargetsUsable ==
  \A i \in Ids : Live(tgt, i) /\ tgt[i].gen \notin spoilt /\ tgt[i].kind # "stored_key" =>
    Opens(tgt[i].sealed, i, tgt[i].kind) \/ Adding(i)
IdentsUsable ==
  \A j \in Ids : Live(idt, j) /\ idt[j].gen \notin spoilt =>
    Opens(idt[j].sealed, j, "identity") \/ AddingIdent(j)

IInv ==
  /\ TypeOK /\ Asked /\ GensBound
  /\ OneRowPerName /\ NoDanglingIdentity
  /\ TargetKnown /\ IdentKnown
  /\ SecretsOwn /\ KeysSelected
  /\ TargetsUsable /\ IdentsUsable
  /\ UsesOwnSecret

-----------------------------------------------------------------------------
(* Steps that change no row.                                               *)

LEMMA SecretKindsOther ==
  "stored_key" \notin SecretKinds /\ "identity" \notin SecretKinds /\ "none" \notin SecretKinds
BY CredentialsAssumption

LEMMA IdleIsOp == Idle \in Op
BY CredentialsAssumption DEF Idle, Op, Steps, Gens

LEMMA RowTypes ==
  ASSUME TypeOK, NEW i \in Ids
  PROVE  /\ i \in Gens
         /\ tgt[i] \in TargetRow /\ idt[i] \in IdentRow
         /\ tgt[i].gen \in Gens /\ tgt[i].ident \in Gens /\ tgt[i].igen \in Gens
         /\ tgt[i].name \in TargetNames \cup {NoName}
         /\ idt[i].gen \in Gens
BY CredentialsAssumption DEF TypeOK, TargetRow, IdentRow, Ids, Gens

LEMMA SecretTypes ==
  /\ 0 \in Gens /\ NoSecret \in Sealed
  /\ NoTarget \in TargetRow /\ NoIdent \in IdentRow
  /\ \A i, g \in Gens, k \in SecretKinds \cup {"identity"} : Seal(i, k, g) \in Sealed
<1>1. 0 \in Gens
  BY CredentialsAssumption DEF Gens
<1>2. NoSecret \in Sealed
  BY <1>1 DEF NoSecret, Sealed
<1>3. NoTarget \in TargetRow /\ NoIdent \in IdentRow
  BY <1>1, <1>2 DEF NoTarget, TargetRow, NoIdent, IdentRow
<1>4. \A i, g \in Gens, k \in SecretKinds \cup {"identity"} : Seal(i, k, g) \in Sealed
  BY DEF Seal, Sealed
<1> QED BY <1>1, <1>2, <1>3, <1>4

\* An operation starts or goes on, knowing what it learnt.
LEMMA OpStep ==
  ASSUME IInv, NEW p \in Procs, NEW o \in Op,
         op' = [op EXCEPT ![p] = o],
         UNCHANGED <<tgt, idt, used, gens, stale, spoilt>>,
         ops' \in 0..MaxOps,
         op[p].at \in {"readBack", "seal", "cleanup"} =>
           o.at \in {"readBack", "seal", "cleanup"} /\ o.id = op[p].id /\ o.gen = op[p].gen,
         op[p].at \in {"readIdentBack", "sealIdent", "countIdent", "deleteIdent"} =>
           /\ o.at \in {"readIdentBack", "sealIdent", "countIdent", "deleteIdent"}
           /\ o.iid = op[p].iid /\ o.igen = op[p].igen,
         Asked', GensBound', TargetKnown', IdentKnown'
  PROVE  IInv'
<1>1. \A q \in Procs : op'[q] = IF q = p THEN o ELSE op[q]
  BY DEF IInv, TypeOK
<1>2. TypeOK'
  BY DEF IInv, TypeOK
<1>3. OneRowPerName' /\ NoDanglingIdentity' /\ SecretsOwn' /\ KeysSelected' /\ UsesOwnSecret'
  BY DEF IInv, OneRowPerName, NoDanglingIdentity, SecretsOwn, KeysSelected,
         UsesOwnSecret, Live
<1>4. ASSUME NEW i \in Ids, Adding(i) PROVE Adding(i)'
  BY <1>1, <1>4 DEF Adding
<1>5. ASSUME NEW j \in Ids, AddingIdent(j) PROVE AddingIdent(j)'
  BY <1>1, <1>5 DEF AddingIdent
<1>6. TargetsUsable'
  BY <1>4 DEF IInv, TargetsUsable, Live, Opens
<1>7. IdentsUsable'
  BY <1>5 DEF IInv, IdentsUsable, Live, Opens
<1> QED BY <1>2, <1>3, <1>6, <1>7 DEF IInv

\* An operation ends without having written.
LEMMA LeaveStep ==
  ASSUME IInv, NEW p \in Procs, Leave(p),
         UNCHANGED <<tgt, idt, gens, ops>>,
         used' \in Used, UsesOwnSecret',
         spoilt \subseteq spoilt', spoilt' \subseteq Gens,
         op[p].at \in {"readBack", "seal", "cleanup"} => op[p].gen \in spoilt',
         op[p].at \in {"readIdentBack", "sealIdent", "countIdent", "deleteIdent"} => op[p].igen \in spoilt'
  PROVE  IInv'
<1>1. \A q \in Procs : op'[q] = IF q = p THEN Idle ELSE op[q]
  BY DEF IInv, TypeOK, Leave, Finish
<1>0. Idle.at = "idle" /\ Idle.gen = 0 /\ Idle.igen = 0
  BY DEF Idle
<1>s. stale' = stale \ {p}
  BY DEF Leave
<1>2. TypeOK'
  BY IdleIsOp, <1>s DEF IInv, TypeOK, Leave, Finish
<1>3. OneRowPerName' /\ NoDanglingIdentity'
  BY DEF IInv, OneRowPerName, NoDanglingIdentity, Live
<1>4. Asked'
  BY <1>0, <1>1 DEF IInv, Asked
<1>5. GensBound'
  BY <1>0, <1>1 DEF IInv, GensBound, TypeOK, Gens
<1>6. TargetKnown'
  BY <1>0, <1>1, <1>s DEF IInv, TargetKnown
<1>7. IdentKnown'
  BY <1>0, <1>1, <1>s DEF IInv, IdentKnown, Live
<1>8. SecretsOwn' /\ KeysSelected'
  BY DEF IInv, SecretsOwn, KeysSelected, Live
<1>9. ASSUME NEW i \in Ids, Adding(i) PROVE Adding(i)' \/ tgt[i].gen \in spoilt'
  BY <1>1, <1>9 DEF Adding
<1>10. ASSUME NEW j \in Ids, AddingIdent(j) PROVE AddingIdent(j)' \/ idt[j].gen \in spoilt'
  BY <1>1, <1>10 DEF AddingIdent
<1>11. TargetsUsable'
  BY <1>9 DEF IInv, TargetsUsable, Live, Opens
<1>12. IdentsUsable'
  BY <1>10 DEF IInv, IdentsUsable, Live, Opens
<1> QED BY <1>2, <1>3, <1>4, <1>5, <1>6, <1>7, <1>8, <1>11, <1>12 DEF IInv

LEMMA StartAddStep ==
  ASSUME IInv, NEW p \in Procs, NEW n \in TargetNames, NEW k \in SecretKinds, StartAdd(p, n, k)
  PROVE  IInv'
<1> DEFINE o == op'[p]
<1>1. o \in Op /\ op' = [op EXCEPT ![p] = o]
  BY IdleIsOp, CredentialsAssumption DEF IInv, TypeOK, StartAdd, Enter, Op, Idle, Steps, TargetKinds, TargetRow, IdentRow, Ids, Gens, Live
<1>2. \A q \in Procs : q # p => op'[q] = op[q]
  BY DEF IInv, TypeOK, StartAdd, Enter
<1>3. ops' \in 0..MaxOps /\ op[p].at = "idle"
  BY CredentialsAssumption DEF IInv, TypeOK, StartAdd, Enter
<1>4. UNCHANGED <<tgt, idt, used, gens, stale, spoilt>>
  BY DEF StartAdd, Enter
<1>5. Asked'
  BY <1>2, <1>4 DEF IInv, TypeOK, Asked, StartAdd, Enter, Op, Idle, Ids, Gens, TargetRow, IdentRow, Live
<1>6. GensBound'
  BY <1>2, <1>4 DEF IInv, TypeOK, GensBound, StartAdd, Enter, Idle, Gens, Ids
<1>7. TargetKnown'
  BY <1>2, <1>4 DEF IInv, TypeOK, TargetKnown, StartAdd, Enter, Idle
<1>8. IdentKnown'
  BY <1>2, <1>4 DEF IInv, TypeOK, IdentKnown, StartAdd, Enter, Idle, Live
<1> QED BY <1>1, <1>3, <1>4, <1>5, <1>6, <1>7, <1>8, OpStep

LEMMA StartAddStoredStep ==
  ASSUME IInv, NEW p \in Procs, NEW n \in TargetNames, NEW i \in Ids, StartAddStored(p, n, i)
  PROVE  IInv'
<1> DEFINE o == op'[p]
<1>0. TypeOK
  BY DEF IInv
<1>r. i \in Gens /\ idt[i].gen \in Gens
  BY <1>0, RowTypes
<1>o. /\ op' = [op EXCEPT ![p] = o]
      /\ o = [at |-> "insertStored", name |-> n, kind |-> "stored_key",
            id |-> 0, gen |-> 0, iid |-> i, igen |-> idt[i].gen]
  BY <1>0 DEF TypeOK, StartAddStored, Enter, Idle
<1>1. o \in Op /\ op' = [op EXCEPT ![p] = o]
  BY <1>r, <1>o, CredentialsAssumption DEF Op, Steps, TargetKinds, Gens
<1>2. \A q \in Procs : q # p => op'[q] = op[q]
  BY DEF IInv, TypeOK, StartAddStored, Enter
<1>3. ops' \in 0..MaxOps /\ op[p].at = "idle"
  BY CredentialsAssumption DEF IInv, TypeOK, StartAddStored, Enter
<1>4. UNCHANGED <<tgt, idt, used, gens, stale, spoilt>>
  BY DEF StartAddStored, Enter
<1>5. Asked'
  BY <1>2, <1>4 DEF IInv, TypeOK, Asked, StartAddStored, Enter, Op, Idle, Ids, Gens, TargetRow, IdentRow, Live
<1>6. GensBound'
  BY <1>2, <1>4 DEF IInv, TypeOK, GensBound, StartAddStored, Enter, Idle, Gens, Ids
<1>7. TargetKnown'
  BY <1>2, <1>4 DEF IInv, TypeOK, TargetKnown, StartAddStored, Enter, Idle
<1>8. IdentKnown'
  BY <1>2, <1>4 DEF IInv, TypeOK, IdentKnown, StartAddStored, Enter, Idle, Live
<1> QED BY <1>1, <1>3, <1>4, <1>5, <1>6, <1>7, <1>8, OpStep

LEMMA StartReplaceStep ==
  ASSUME IInv, NEW p \in Procs, NEW i \in Ids, NEW k \in ReplaceKinds, StartReplace(p, i, k)
  PROVE  IInv'
<1> DEFINE o == op'[p]
<1>0. TypeOK
  BY DEF IInv
<1>r. i \in Gens /\ tgt[i].gen \in Gens /\ tgt[i].name \in TargetNames \cup {NoName}
  BY <1>0, RowTypes
<1>o. /\ op' = [op EXCEPT ![p] = o]
      /\ o = [at |-> "replace", name |-> tgt[i].name, kind |-> k,
            id |-> i, gen |-> tgt[i].gen, iid |-> 0, igen |-> 0]
  BY <1>0 DEF TypeOK, StartReplace, Enter, Idle
<1>1. o \in Op /\ op' = [op EXCEPT ![p] = o]
  BY <1>r, <1>o, CredentialsAssumption DEF Op, Steps, TargetKinds, Gens, ReplaceKinds
<1>2. \A q \in Procs : q # p => op'[q] = op[q]
  BY DEF IInv, TypeOK, StartReplace, Enter, ReplaceKinds
<1>3. ops' \in 0..MaxOps /\ op[p].at = "idle"
  BY CredentialsAssumption DEF IInv, TypeOK, StartReplace, Enter, ReplaceKinds
<1>4. UNCHANGED <<tgt, idt, used, gens, stale, spoilt>>
  BY DEF StartReplace, Enter, ReplaceKinds
<1>5. Asked'
  BY <1>2, <1>4 DEF IInv, TypeOK, Asked, StartReplace, Enter, ReplaceKinds, Op, Idle, Ids, Gens, TargetRow, IdentRow, Live
<1>6. GensBound'
  BY <1>2, <1>4 DEF IInv, TypeOK, GensBound, StartReplace, Enter, ReplaceKinds, Idle, Gens, Ids
<1>7. TargetKnown'
  BY <1>2, <1>4 DEF IInv, TypeOK, TargetKnown, StartReplace, Enter, ReplaceKinds, Idle
<1>8. IdentKnown'
  BY <1>2, <1>4 DEF IInv, TypeOK, IdentKnown, StartReplace, Enter, ReplaceKinds, Idle, Live
<1> QED BY <1>1, <1>3, <1>4, <1>5, <1>6, <1>7, <1>8, OpStep

LEMMA StartUseStep ==
  ASSUME IInv, NEW p \in Procs, NEW i \in Ids, NEW j \in Ids, StartUse(p, i, j)
  PROVE  IInv'
<1> DEFINE o == op'[p]
<1>0. TypeOK
  BY DEF IInv
<1>r. /\ i \in Gens /\ tgt[i].gen \in Gens /\ tgt[i].name \in TargetNames \cup {NoName}
      /\ j \in Gens /\ idt[j].gen \in Gens
  BY <1>0, RowTypes
<1>1. o \in Op /\ op' = [op EXCEPT ![p] = o]
  BY <1>0, <1>r, CredentialsAssumption DEF TypeOK, StartUse, Enter, Op, Idle, Steps, TargetKinds
<1>2. \A q \in Procs : q # p => op'[q] = op[q]
  BY DEF IInv, TypeOK, StartUse, Enter
<1>3. ops' \in 0..MaxOps /\ op[p].at = "idle"
  BY CredentialsAssumption DEF IInv, TypeOK, StartUse, Enter
<1>4. UNCHANGED <<tgt, idt, used, gens, stale, spoilt>>
  BY DEF StartUse, Enter
<1>5. Asked'
  BY <1>2, <1>4 DEF IInv, TypeOK, Asked, StartUse, Enter, Op, Idle, Ids, Gens, TargetRow, IdentRow, Live
<1>6. GensBound'
  BY <1>2, <1>4 DEF IInv, TypeOK, GensBound, StartUse, Enter, Idle, Gens, Ids
<1>7. TargetKnown'
  BY <1>2, <1>4 DEF IInv, TypeOK, TargetKnown, StartUse, Enter, Idle
<1>8. IdentKnown'
  BY <1>2, <1>4 DEF IInv, TypeOK, IdentKnown, StartUse, Enter, Idle, Live
<1> QED BY <1>1, <1>3, <1>4, <1>5, <1>6, <1>7, <1>8, OpStep

LEMMA StartAddIdentStep ==
  ASSUME IInv, NEW p \in Procs, NEW n \in IdentNames, StartAddIdent(p, n)
  PROVE  IInv'
<1> DEFINE o == op'[p]
<1>1. o \in Op /\ op' = [op EXCEPT ![p] = o]
  BY IdleIsOp, CredentialsAssumption DEF IInv, TypeOK, StartAddIdent, Enter, Op, Idle, Steps, TargetKinds, TargetRow, IdentRow, Ids, Gens, Live
<1>2. \A q \in Procs : q # p => op'[q] = op[q]
  BY DEF IInv, TypeOK, StartAddIdent, Enter
<1>3. ops' \in 0..MaxOps /\ op[p].at = "idle"
  BY CredentialsAssumption DEF IInv, TypeOK, StartAddIdent, Enter
<1>4. UNCHANGED <<tgt, idt, used, gens, stale, spoilt>>
  BY DEF StartAddIdent, Enter
<1>5. Asked'
  BY <1>2, <1>4 DEF IInv, TypeOK, Asked, StartAddIdent, Enter, Op, Idle, Ids, Gens, TargetRow, IdentRow, Live
<1>6. GensBound'
  BY <1>2, <1>4 DEF IInv, TypeOK, GensBound, StartAddIdent, Enter, Idle, Gens, Ids
<1>7. TargetKnown'
  BY <1>2, <1>4 DEF IInv, TypeOK, TargetKnown, StartAddIdent, Enter, Idle
<1>8. IdentKnown'
  BY <1>2, <1>4 DEF IInv, TypeOK, IdentKnown, StartAddIdent, Enter, Idle, Live
<1> QED BY <1>1, <1>3, <1>4, <1>5, <1>6, <1>7, <1>8, OpStep

LEMMA StartDeleteIdentStep ==
  ASSUME IInv, NEW p \in Procs, NEW n \in IdentNames, StartDeleteIdent(p, n)
  PROVE  IInv'
<1> DEFINE o == op'[p]
<1>1. o \in Op /\ op' = [op EXCEPT ![p] = o]
  BY IdleIsOp, CredentialsAssumption DEF IInv, TypeOK, StartDeleteIdent, Enter, Op, Idle, Steps, TargetKinds, TargetRow, IdentRow, Ids, Gens, Live
<1>2. \A q \in Procs : q # p => op'[q] = op[q]
  BY DEF IInv, TypeOK, StartDeleteIdent, Enter
<1>3. ops' \in 0..MaxOps /\ op[p].at = "idle"
  BY CredentialsAssumption DEF IInv, TypeOK, StartDeleteIdent, Enter
<1>4. UNCHANGED <<tgt, idt, used, gens, stale, spoilt>>
  BY DEF StartDeleteIdent, Enter
<1>5. Asked'
  BY <1>2, <1>4 DEF IInv, TypeOK, Asked, StartDeleteIdent, Enter, Op, Idle, Ids, Gens, TargetRow, IdentRow, Live
<1>6. GensBound'
  BY <1>2, <1>4 DEF IInv, TypeOK, GensBound, StartDeleteIdent, Enter, Idle, Gens, Ids
<1>7. TargetKnown'
  BY <1>2, <1>4 DEF IInv, TypeOK, TargetKnown, StartDeleteIdent, Enter, Idle
<1>8. IdentKnown'
  BY <1>2, <1>4 DEF IInv, TypeOK, IdentKnown, StartDeleteIdent, Enter, Idle, Live
<1> QED BY <1>1, <1>3, <1>4, <1>5, <1>6, <1>7, <1>8, OpStep

LEMMA ConnectStoredStep ==
  ASSUME IInv, NEW p \in Procs, NEW i \in Ids, ConnectStored(p, i)
  PROVE  IInv'
<1> DEFINE o == op'[p]
<1>1. o \in Op /\ op' = [op EXCEPT ![p] = o]
  BY IdleIsOp, CredentialsAssumption DEF IInv, TypeOK, ConnectStored, Enter, Op, Idle, Steps, TargetKinds, TargetRow, IdentRow, Ids, Gens, Live
<1>2. \A q \in Procs : q # p => op'[q] = op[q]
  BY DEF IInv, TypeOK, ConnectStored, Enter
<1>3. ops' \in 0..MaxOps /\ op[p].at = "idle"
  BY CredentialsAssumption DEF IInv, TypeOK, ConnectStored, Enter
<1>4. UNCHANGED <<tgt, idt, used, gens, stale, spoilt>>
  BY DEF ConnectStored, Enter
<1>5. Asked'
  BY <1>2, <1>4 DEF IInv, TypeOK, Asked, ConnectStored, Enter, Op, Idle, Ids, Gens, TargetRow, IdentRow, Live
<1>6. GensBound'
  BY <1>2, <1>4 DEF IInv, TypeOK, GensBound, ConnectStored, Enter, Idle, Gens, Ids
<1>7. TargetKnown'
  BY <1>2, <1>4 DEF IInv, TypeOK, TargetKnown, ConnectStored, Enter, Idle
<1>8. IdentKnown'
  BY <1>2, <1>4 DEF IInv, TypeOK, IdentKnown, KeysSelected, ConnectStored, Enter, Idle, Live
<1> QED BY <1>1, <1>3, <1>4, <1>5, <1>6, <1>7, <1>8, OpStep

LEMMA ReadBackStep ==
  ASSUME IInv, NEW p \in Procs, ReadBack(p)
  PROVE  IInv'
<1> DEFINE k == op[p].id
           o == [op[p] EXCEPT !.at = "seal", !.name = tgt[k].name]
<1>1. op[p].at = "readBack" /\ UNCHANGED <<tgt, idt, used, gens, stale, spoilt, ops>>
  BY DEF ReadBack
<1>2. k \in Ids /\ op[p] \in Op /\ tgt[k].name \in TargetNames \cup {NoName}
  BY <1>1, RowTypes DEF IInv, Asked, TypeOK
<1>3. o \in Op /\ op' = [op EXCEPT ![p] = o]
  BY <1>2 DEF IInv, TypeOK, ReadBack, Op, Steps
<1>4. \A q \in Procs : op'[q] = IF q = p THEN o ELSE op[q]
  BY <1>3 DEF IInv, TypeOK
<1>5. /\ o.at = "seal" /\ o.name = tgt[k].name /\ o.kind = op[p].kind
      /\ o.id = k /\ o.gen = op[p].gen /\ o.iid = op[p].iid /\ o.igen = op[p].igen
  BY <1>2 DEF Op
<1> HIDE DEF o
<1>6. Asked' /\ GensBound'
  BY <1>1, <1>4, <1>5 DEF IInv, Asked, GensBound
<1>7. TargetKnown' /\ IdentKnown'
  BY <1>1, <1>4, <1>5 DEF IInv, TargetKnown, IdentKnown, Live
<1>8. ops' \in 0..MaxOps
  BY <1>1 DEF IInv, TypeOK
<1> QED BY <1>1, <1>3, <1>5, <1>6, <1>7, <1>8, OpStep

LEMMA ReadIdentBackStep ==
  ASSUME IInv, NEW p \in Procs, ReadIdentBack(p)
  PROVE  IInv'
<1> DEFINE k == op[p].iid
           o == [op[p] EXCEPT !.at = "sealIdent", !.name = idt[k].name]
<1>1. op[p].at = "readIdentBack" /\ UNCHANGED <<tgt, idt, used, gens, stale, spoilt, ops>>
  BY DEF ReadIdentBack
<1>2. k \in Ids /\ op[p] \in Op /\ idt[k].name \in IdentNames \cup {NoName}
  BY <1>1, RowTypes DEF IInv, Asked, TypeOK, IdentRow
<1>3. o \in Op /\ op' = [op EXCEPT ![p] = o]
  BY <1>2 DEF IInv, TypeOK, ReadIdentBack, Op, Steps
<1>4. \A q \in Procs : op'[q] = IF q = p THEN o ELSE op[q]
  BY <1>3 DEF IInv, TypeOK
<1>5. /\ o.at = "sealIdent" /\ o.name = idt[k].name
      /\ o.id = op[p].id /\ o.gen = op[p].gen /\ o.iid = k /\ o.igen = op[p].igen
  BY <1>2 DEF Op
<1> HIDE DEF o
<1>6. Asked' /\ GensBound'
  BY <1>1, <1>4, <1>5 DEF IInv, Asked, GensBound
<1>7. TargetKnown' /\ IdentKnown'
  BY <1>1, <1>4, <1>5 DEF IInv, TargetKnown, IdentKnown, Live
<1>8. ops' \in 0..MaxOps
  BY <1>1 DEF IInv, TypeOK
<1> QED BY <1>1, <1>3, <1>5, <1>6, <1>7, <1>8, OpStep

LEMMA SealFailsStep ==
  ASSUME IInv, NEW p \in Procs, SealFails(p)
  PROVE  IInv'
<1> DEFINE o == [op[p] EXCEPT !.at = "cleanup"]
<1>1. o \in Op /\ op' = [op EXCEPT ![p] = o]
  BY DEF IInv, TypeOK, SealFails, Op, Steps
<1>2. \A q \in Procs : op'[q] = IF q = p THEN o ELSE op[q]
  BY <1>1 DEF IInv, TypeOK
<1>3. /\ o.at = "cleanup" /\ o.name = op[p].name /\ o.id = op[p].id /\ o.gen = op[p].gen
      /\ o.iid = op[p].iid /\ o.igen = op[p].igen
  BY DEF IInv, TypeOK, Op
<1>4. UNCHANGED <<tgt, idt, used, gens, stale, spoilt, ops>>
  BY DEF SealFails
<1>5. Asked' /\ GensBound'
  BY <1>2, <1>3, <1>4 DEF IInv, Asked, GensBound, SealFails
<1>6. TargetKnown' /\ IdentKnown'
  BY <1>2, <1>3, <1>4 DEF IInv, TargetKnown, IdentKnown, SealFails, Live
<1>7. ops' \in 0..MaxOps
  BY <1>4 DEF IInv, TypeOK
<1> HIDE DEF o
<1> QED BY <1>1, <1>3, <1>4, <1>5, <1>6, <1>7, OpStep DEF SealFails

LEMMA SealIdentFailsStep ==
  ASSUME IInv, NEW p \in Procs, SealIdentFails(p)
  PROVE  IInv'
<1> DEFINE o == [op[p] EXCEPT !.at = "countIdent"]
<1>1. o \in Op /\ op' = [op EXCEPT ![p] = o]
  BY DEF IInv, TypeOK, SealIdentFails, Op, Steps
<1>2. \A q \in Procs : op'[q] = IF q = p THEN o ELSE op[q]
  BY <1>1 DEF IInv, TypeOK
<1>3. /\ o.at = "countIdent" /\ o.name = op[p].name /\ o.id = op[p].id /\ o.gen = op[p].gen
      /\ o.iid = op[p].iid /\ o.igen = op[p].igen
  BY DEF IInv, TypeOK, Op
<1>4. UNCHANGED <<tgt, idt, used, gens, stale, spoilt, ops>>
  BY DEF SealIdentFails
<1>5. Asked' /\ GensBound'
  BY <1>2, <1>3, <1>4 DEF IInv, Asked, GensBound, SealIdentFails
<1>6. TargetKnown' /\ IdentKnown'
  BY <1>2, <1>3, <1>4 DEF IInv, TargetKnown, IdentKnown, SealIdentFails, Live
<1>7. ops' \in 0..MaxOps
  BY <1>4 DEF IInv, TypeOK
<1> HIDE DEF o
<1> QED BY <1>1, <1>3, <1>4, <1>5, <1>6, <1>7, OpStep DEF SealIdentFails

LEMMA CountUsesStep ==
  ASSUME IInv, NEW p \in Procs, CountUses(p)
  PROVE  IInv'
<1> DEFINE o == [op[p] EXCEPT !.at = "deleteIdent"]
<1>1. o \in Op /\ op' = [op EXCEPT ![p] = o]
  BY DEF IInv, TypeOK, CountUses, Op, Steps
<1>2. \A q \in Procs : op'[q] = IF q = p THEN o ELSE op[q]
  BY <1>1 DEF IInv, TypeOK
<1>3. /\ o.at = "deleteIdent" /\ o.name = op[p].name /\ o.id = op[p].id /\ o.gen = op[p].gen
      /\ o.iid = op[p].iid /\ o.igen = op[p].igen
  BY DEF IInv, TypeOK, Op
<1>4. UNCHANGED <<tgt, idt, used, gens, stale, spoilt, ops>>
  BY DEF CountUses
<1>5. Asked' /\ GensBound'
  BY <1>2, <1>3, <1>4 DEF IInv, Asked, GensBound, CountUses
<1>6. TargetKnown' /\ IdentKnown'
  BY <1>2, <1>3, <1>4 DEF IInv, TargetKnown, IdentKnown, CountUses, Live
<1>7. ops' \in 0..MaxOps
  BY <1>4 DEF IInv, TypeOK
<1> HIDE DEF o
<1> QED BY <1>1, <1>3, <1>4, <1>5, <1>6, <1>7, OpStep DEF CountUses

\* An operation that ends leaves the rows it was adding to the history.
LEMMA CleanupFailsStep ==
  ASSUME IInv, NEW p \in Procs, CleanupFails(p)
  PROVE  IInv'
<1>1. op[p].gen \in Gens
  BY DEF IInv, TypeOK, Op
<1>2. /\ Leave(p) /\ UNCHANGED <<tgt, idt, used, gens, ops>>
      /\ spoilt' = spoilt \cup {op[p].gen} /\ op[p].at = "cleanup"
  BY DEF CleanupFails
<1>3. used' \in Used /\ UsesOwnSecret' /\ spoilt' \subseteq Gens
  BY <1>1, <1>2 DEF IInv, TypeOK, UsesOwnSecret
<1> QED BY <1>2, <1>3, LeaveStep

LEMMA ReturnErrorStep ==
  ASSUME IInv, NEW p \in Procs, ReturnError(p)
  PROVE  IInv'
<1>1. op[p].igen \in Gens /\ op[p].gen \in Gens
  BY DEF IInv, TypeOK, Op
<1>2. /\ Leave(p) /\ UNCHANGED <<tgt, idt, used, gens, ops>>
      /\ op[p].at \notin {"seal", "cleanup", "sealIdent"}
      /\ spoilt \subseteq spoilt'
      /\ spoilt' \subseteq spoilt \cup {op[p].gen, op[p].igen}
      /\ op[p].at = "readBack" => op[p].gen \in spoilt'
      /\ op[p].at \in {"readIdentBack", "countIdent", "deleteIdent"} => op[p].igen \in spoilt'
  BY DEF ReturnError, AfterError
<1>3. used' \in Used /\ UsesOwnSecret' /\ spoilt' \subseteq Gens
  BY <1>1, <1>2 DEF IInv, TypeOK, UsesOwnSecret
<1> QED BY <1>2, <1>3, LeaveStep

LEMMA KillStep ==
  ASSUME IInv, NEW p \in Procs, Kill(p)
  PROVE  IInv'
<1>1. op[p].igen \in Gens /\ op[p].gen \in Gens
  BY DEF IInv, TypeOK, Op
<1>2. /\ Leave(p) /\ UNCHANGED <<tgt, idt, used, gens, ops>>
      /\ spoilt \subseteq spoilt'
      /\ spoilt' \subseteq spoilt \cup {op[p].gen, op[p].igen}
      /\ op[p].at \in {"readBack", "seal", "cleanup"} => op[p].gen \in spoilt'
      /\ op[p].at \in {"readIdentBack", "sealIdent", "countIdent", "deleteIdent"} => op[p].igen \in spoilt'
  BY DEF Kill
<1>3. used' \in Used /\ UsesOwnSecret' /\ spoilt' \subseteq Gens
  BY <1>1, <1>2 DEF IInv, TypeOK, UsesOwnSecret
<1> QED BY <1>2, <1>3, LeaveStep

\* The saved key that is read is the one that was selected.
LEMMA ReadIdentStep ==
  ASSUME IInv, NEW p \in Procs, ReadIdent(p)
  PROVE  IInv'
<1>1. /\ Leave(p) /\ UNCHANGED <<tgt, idt, spoilt, gens, ops>> /\ op[p].at = "readIdent"
  BY DEF ReadIdent
<1>2. op[p].iid \in Ids /\ op[p].igen \in Gens
  BY <1>1 DEF IInv, TypeOK, Op, Asked
<1> DEFINE r == idt[op[p].iid]
<1>3. /\ r.sealed.id = op[p].iid /\ r.sealed.kind = "identity" /\ r.gen # 0
      /\ used'.want = op[p].igen /\ used'.got = r.sealed.gen
      /\ used'.wantKind = "identity" /\ used'.gotKind = r.sealed.kind
      /\ used'.stale = (p \in stale \/ op[p].gen \in spoilt \/ r.gen \in spoilt)
  BY DEF ReadIdent, Opens, Live
<1>4. r.sealed.gen = r.gen \/ r.gen \in spoilt
  BY <1>2, <1>3 DEF IInv, SecretsOwn, Live
<1>5. p \notin stale => r.gen = op[p].igen \/ op[p].gen \in spoilt
  BY <1>1 DEF IInv, IdentKnown
<1>6. UsesOwnSecret'
  BY <1>3, <1>4, <1>5 DEF UsesOwnSecret
<1>7. r.sealed \in Sealed
  BY <1>2 DEF IInv, TypeOK, IdentRow
<1>8. used' \in Used
  BY <1>2, <1>7 DEF ReadIdent, Used, Sealed
<1> QED BY <1>1, <1>6, <1>8, LeaveStep DEF IInv, TypeOK

\* So is the secret of a target's own.
LEMMA ConnectOwnStep ==
  ASSUME IInv, NEW p \in Procs, NEW i \in Ids, ConnectOwn(p, i)
  PROVE  IInv'
<1>1. UNCHANGED <<tgt, idt, op, gens, stale, spoilt>>
  BY DEF ConnectOwn
<1>2. tgt[i] \in TargetRow /\ tgt[i].sealed \in Sealed /\ tgt[i].gen \in Gens
  BY RowTypes DEF IInv, TypeOK, TargetRow
<1>3. /\ tgt[i].sealed.id = i /\ tgt[i].sealed.kind = tgt[i].kind /\ tgt[i].gen # 0
      /\ used'.want = tgt[i].gen /\ used'.got = tgt[i].sealed.gen
      /\ used'.wantKind = tgt[i].kind /\ used'.gotKind = tgt[i].sealed.kind
      /\ used'.stale = (tgt[i].gen \in spoilt)
  BY DEF ConnectOwn, Opens, Live
<1>4. UsesOwnSecret'
  BY <1>3 DEF IInv, SecretsOwn, UsesOwnSecret, Live
<1>5. used' \in Used
  BY <1>2 DEF ConnectOwn, Used, Sealed, TargetRow, TargetKinds
<1>6. ops' \in 0..MaxOps
  BY CredentialsAssumption DEF IInv, TypeOK, ConnectOwn
<1>7. TypeOK'
  BY <1>1, <1>5, <1>6 DEF IInv, TypeOK
<1> QED BY <1>1, <1>4, <1>7
        DEF IInv, Asked, GensBound, OneRowPerName, NoDanglingIdentity, TargetKnown,
            IdentKnown, SecretsOwn, KeysSelected, TargetsUsable, IdentsUsable,
            Adding, AddingIdent, Live, Opens

-----------------------------------------------------------------------------
(* Steps that write a row of targets.                                      *)

\* Row k is written by the operation that goes by its id.
LEMMA WriteStep ==
  ASSUME IInv, NEW p \in Procs, NEW k \in Ids, NEW r \in TargetRow,
         op[p].at \in {"seal", "replace", "use"}, op[p].id = k,
         Live(tgt, k),
         tgt' = [tgt EXCEPT ![k] = r],
         r.gen = tgt[k].gen, r.name = tgt[k].name, r.igen <= gens,
         Touch(p, k, tgt[k].gen), Finish(p),
         UNCHANGED <<idt, used, gens, ops>>,
         r.ident # 0 => /\ Live(idt, r.ident)
                        /\ idt[r.ident].gen = r.igen \/ r.gen \in spoilt',
         r.sealed.id = k => r.sealed.gen = r.gen \/ r.gen \in spoilt',
         r.kind = "stored_key" => r.ident # 0 \/ r.gen \in spoilt',
         r.kind # "stored_key" /\ r.gen \notin spoilt' => Opens(r.sealed, k, r.kind)
  PROVE  IInv'
<1>1. \A q \in Procs : op'[q] = IF q = p THEN Idle ELSE op[q]
  BY DEF IInv, TypeOK, Finish
<1>2. \A i \in Ids : tgt'[i] = IF i = k THEN r ELSE tgt[i]
  BY DEF IInv, TypeOK
<1>3. /\ stale' = (stale \ {p}) \cup {q \in Procs \ {p} : op[q].id = k}
      /\ spoilt' = IF p \in stale THEN spoilt \cup {tgt[k].gen} ELSE spoilt
  BY DEF Touch, Holders
<1>4. Idle.at = "idle" /\ Idle.gen = 0 /\ Idle.igen = 0
  BY DEF Idle
<1>5. TypeOK'
  <2>1. tgt' \in [Ids -> TargetRow] /\ tgt[k].gen \in Gens
    BY RowTypes DEF IInv, TypeOK
  <2>2. op' \in [Procs -> Op]
    BY IdleIsOp DEF IInv, TypeOK, Finish
  <2> QED BY <2>1, <2>2, <1>3 DEF IInv, TypeOK
<1>6. Asked'
  BY <1>1, <1>4 DEF IInv, Asked
<1>7. GensBound'
  BY <1>1, <1>2, <1>4 DEF IInv, TypeOK, GensBound, Gens
<1>8. OneRowPerName'
  BY <1>2 DEF IInv, OneRowPerName, Live
<1>9. NoDanglingIdentity'
  BY <1>2 DEF IInv, NoDanglingIdentity, Live
<1>10. TargetKnown'
  BY <1>1, <1>2, <1>3, <1>4 DEF IInv, TargetKnown, Asked
<1>11. IdentKnown'
  BY <1>1, <1>3, <1>4 DEF IInv, IdentKnown, Live
<1>12. SecretsOwn'
  BY <1>2, <1>3 DEF IInv, SecretsOwn, Live
<1>13. KeysSelected'
  BY <1>2, <1>3 DEF IInv, KeysSelected, Live
<1>14. ASSUME NEW i \in Ids, i # k, Adding(i) PROVE Adding(i)'
  BY <1>1, <1>2, <1>14 DEF Adding
<1>15. TargetsUsable'
  BY <1>2, <1>3, <1>14 DEF IInv, TargetsUsable, Live, Opens
<1>16. ASSUME NEW j \in Ids, AddingIdent(j) PROVE AddingIdent(j)'
  BY <1>1, <1>16 DEF AddingIdent
<1>17. IdentsUsable'
  BY <1>3, <1>16 DEF IInv, IdentsUsable, Live, Opens
<1>18. UsesOwnSecret'
  BY DEF IInv, UsesOwnSecret
<1> QED BY <1>5, <1>6, <1>7, <1>8, <1>9, <1>10, <1>11, <1>12, <1>13, <1>15, <1>17, <1>18
        DEF IInv

\* The rows named n are deleted.
LEMMA DeleteStep ==
  ASSUME IInv, NEW p \in Procs, NEW n, NEW o \in Op,
         op[p].at \in {"idle", "cleanup"},
         op[p].at = "cleanup" => n = op[p].name,
         DeleteByName(p, n),
         op' = [op EXCEPT ![p] = o], o.at = "idle", o.gen <= gens, o.igen <= gens,
         ops' \in 0..MaxOps,
         UNCHANGED <<idt, used, gens, spoilt>>
  PROVE  IInv'
<1>1. \A q \in Procs : op'[q] = IF q = p THEN o ELSE op[q]
  BY DEF IInv, TypeOK
<1>2. \A i \in Ids : tgt'[i] = IF tgt[i].name = n THEN NoTarget ELSE tgt[i]
  BY DEF DeleteByName
<1>3. /\ stale' = (stale \ {p}) \cup
           {q \in Procs \ {p} : \E i \in Ids : op[q].id = i /\ tgt[i].name = n /\ Live(tgt, i)}
  BY DEF DeleteByName
<1>4. NoTarget \in TargetRow /\ NoTarget.gen = 0 /\ NoTarget.igen = 0
  BY CredentialsAssumption DEF NoTarget, TargetRow, NoSecret, Sealed, Gens
<1>5. TypeOK'
  <2>1. tgt' \in [Ids -> TargetRow]
    BY <1>4 DEF IInv, TypeOK, DeleteByName
  <2>2. op' \in [Procs -> Op]
    BY DEF IInv, TypeOK
  <2> QED BY <2>1, <2>2, <1>3 DEF IInv, TypeOK
<1>6. Asked'
  BY <1>1 DEF IInv, Asked
<1>7. GensBound'
  BY <1>1, <1>2, <1>4 DEF IInv, TypeOK, GensBound, Gens
<1>8. OneRowPerName'
  BY <1>2, <1>4 DEF IInv, OneRowPerName, Live
<1>9. NoDanglingIdentity'
  BY <1>2, <1>4 DEF IInv, NoDanglingIdentity, Live
<1>10. TargetKnown'
  BY <1>1, <1>2, <1>3, <1>4 DEF IInv, TargetKnown, Asked, Live
<1>11. IdentKnown'
  BY <1>1, <1>3 DEF IInv, IdentKnown, Live
<1>12. SecretsOwn' /\ KeysSelected'
  BY <1>2, <1>4 DEF IInv, SecretsOwn, KeysSelected, Live
<1>13. ASSUME NEW i \in Ids, Live(tgt, i), tgt[i].name # n, Adding(i) PROVE Adding(i)'
  <2>1. PICK q \in Procs : op[q].at \in {"readBack", "seal", "cleanup"} /\ op[q].id = i
                           /\ op[q].gen = tgt[i].gen
    BY <1>13 DEF Adding
  <2>2. q # p
    BY <2>1, <1>13 DEF IInv, TargetKnown
  <2> QED BY <2>1, <2>2, <1>1, <1>2, <1>13 DEF Adding
<1>14. TargetsUsable'
  BY <1>2, <1>4, <1>13 DEF IInv, TargetsUsable, Live, Opens
<1>15. ASSUME NEW j \in Ids, AddingIdent(j) PROVE AddingIdent(j)'
  BY <1>1, <1>15 DEF AddingIdent
<1>16. IdentsUsable'
  BY <1>15 DEF IInv, IdentsUsable, Live, Opens
<1>17. UsesOwnSecret'
  BY DEF IInv, UsesOwnSecret
<1> QED BY <1>5, <1>6, <1>7, <1>8, <1>9, <1>10, <1>11, <1>12, <1>14, <1>16, <1>17 DEF IInv

\* Row i is inserted.
LEMMA InsertRowStep ==
  ASSUME IInv, NEW p \in Procs, NEW i \in Ids, NEW r \in TargetRow, NEW o \in Op,
         op[p].at \notin {"readBack", "seal", "cleanup", "readIdentBack", "sealIdent",
                        "countIdent", "deleteIdent"},
         gens < MaxRows, gens' = gens + 1,
         ~Live(tgt, i), ~NameTaken(tgt, r.name),
         tgt' = [tgt EXCEPT ![i] = r],
         op' = [op EXCEPT ![p] = o],
         r.gen = gens + 1, r.igen <= gens, r.sealed = NoSecret,
         stale' \subseteq Procs,
         \A q \in Procs : q # p => (q \in stale' <=> q \in stale \/ op[q].id = i),
         spoilt \subseteq spoilt', spoilt' \subseteq Gens,
         UNCHANGED <<idt, used, ops>>,
         o.gen <= gens + 1, o.igen <= gens,
         \/ o.at = "idle"
         \/ /\ o.at = "readBack" /\ o.id = i /\ o.gen = r.gen /\ o.kind = r.kind
            /\ o.name = r.name /\ r.kind \in SecretKinds,
         r.ident # 0 => /\ Live(idt, r.ident)
                        /\ idt[r.ident].gen = r.igen \/ r.gen \in spoilt',
         r.kind = "stored_key" => r.ident # 0,
         r.kind # "stored_key" => o.at = "readBack"
  PROVE  IInv'
<1>1. \A q \in Procs : op'[q] = IF q = p THEN o ELSE op[q]
  BY DEF IInv, TypeOK
<1>2. \A j \in Ids : tgt'[j] = IF j = i THEN r ELSE tgt[j]
  BY DEF IInv, TypeOK
<1>3. gens \in Nat /\ gens' \in Gens /\ r.gen # 0
  BY CredentialsAssumption DEF IInv, TypeOK, Gens
<1>4. /\ \A q \in Procs : op[q].gen # r.gen /\ op[q].gen \in Nat /\ op[q].igen \in Nat
      /\ \A j \in Ids : tgt[j].gen \in Nat /\ tgt[j].igen \in Nat /\ idt[j].gen \in Nat
  <2>1. \A q \in Procs : op[q].gen \in Gens /\ op[q].igen \in Gens
    BY DEF IInv, TypeOK, Op
  <2>2. \A j \in Ids : tgt[j].gen \in Gens /\ tgt[j].igen \in Gens /\ idt[j].gen \in Gens
    BY RowTypes DEF IInv
  <2> QED BY <2>1, <2>2, <1>3 DEF IInv, GensBound, Gens
<1>5. TypeOK'
  BY <1>3 DEF IInv, TypeOK
<1>6. Asked'
  BY <1>1, <1>3 DEF IInv, Asked
<1>7. GensBound'
  <2>1. o.gen \in Nat /\ o.igen \in Nat /\ r.igen \in Nat
    BY DEF Op, TargetRow, Gens
  <2>2. \A q \in Procs : op'[q].gen <= gens + 1 /\ op'[q].igen <= gens + 1
    BY <2>1, <1>1, <1>3, <1>4 DEF IInv, GensBound
  <2>3. \A j \in Ids : tgt'[j].gen <= gens + 1 /\ tgt'[j].igen <= gens + 1 /\ idt[j].gen <= gens + 1
    BY <2>1, <1>2, <1>3, <1>4 DEF IInv, GensBound
  <2> QED BY <2>2, <2>3 DEF GensBound
<1>8. OneRowPerName'
  BY <1>2 DEF IInv, OneRowPerName, Live, NameTaken
<1>9. NoDanglingIdentity'
  BY <1>2 DEF IInv, NoDanglingIdentity, Live
<1>10. TargetKnown'
  BY <1>1, <1>2, <1>4 DEF IInv, TargetKnown, Asked
<1>11. IdentKnown'
  BY <1>1 DEF IInv, IdentKnown, Live
<1>12. SecretsOwn'
  BY <1>2 DEF IInv, SecretsOwn, Live, NoSecret, Ids
<1>13. KeysSelected'
  BY <1>2 DEF IInv, KeysSelected, Live
<1>14. ASSUME NEW j \in Ids, j # i, Adding(j) PROVE Adding(j)'
  BY <1>1, <1>2, <1>14 DEF Adding
<1>15. r.kind # "stored_key" => Adding(i)'
  BY <1>1, <1>2 DEF Adding
<1>16. TargetsUsable'
  BY <1>2, <1>14, <1>15 DEF IInv, TargetsUsable, Live, Opens
<1>17. ASSUME NEW j \in Ids, AddingIdent(j) PROVE AddingIdent(j)'
  BY <1>1, <1>17 DEF AddingIdent
<1>18. IdentsUsable'
  BY <1>17 DEF IInv, IdentsUsable, Live, Opens
<1>19. UsesOwnSecret'
  BY DEF IInv, UsesOwnSecret
<1> QED BY <1>5, <1>6, <1>7, <1>8, <1>9, <1>10, <1>11, <1>12, <1>13, <1>16, <1>18, <1>19
        DEF IInv

LEMMA SetTargetCredentialStep ==
  ASSUME IInv, NEW p \in Procs, SetTargetCredential(p)
  PROVE  IInv'
<1> DEFINE k == op[p].id
           r == [tgt[k] EXCEPT !.sealed = Seal(k, op[p].kind, op[p].gen),
                               !.ident = 0, !.igen = 0]
<1>1. /\ op[p].at = "seal" /\ k \in Ids /\ op[p].kind \in SecretKinds
      /\ Live(tgt, k) /\ op[p].gen \in Gens
  BY DEF SetTargetCredential, IInv, Asked, TypeOK, Op
<1>2. tgt[k] \in TargetRow /\ k \in Gens
  BY <1>1, RowTypes DEF IInv
<1>3. r \in TargetRow
  BY <1>1, <1>2, SecretTypes DEF TargetRow
<1>4. /\ r.gen = tgt[k].gen /\ r.name = tgt[k].name /\ r.kind = tgt[k].kind
      /\ r.ident = 0 /\ r.igen = 0
      /\ r.sealed.id = k /\ r.sealed.kind = op[p].kind /\ r.sealed.gen = op[p].gen
  BY <1>2 DEF TargetRow, Seal
<1>5. /\ tgt' = [tgt EXCEPT ![k] = r] /\ Touch(p, k, tgt[k].gen) /\ Finish(p)
      /\ UNCHANGED <<idt, used, gens, ops>>
  BY DEF SetTargetCredential
<1>6. r.gen \notin spoilt' => p \notin stale
  BY <1>4, <1>5 DEF Touch
<1>7. p \notin stale => tgt[k].gen = op[p].gen /\ tgt[k].kind = op[p].kind
  BY <1>1 DEF IInv, TargetKnown
<1>8. 0 <= gens
  BY DEF IInv, TypeOK, Gens
<1>9. r.kind = "stored_key" => r.gen \in spoilt'
  BY <1>1, <1>4, <1>6, <1>7, SecretKindsOther
<1>10. r.gen \notin spoilt' => Opens(r.sealed, k, r.kind)
  BY <1>4, <1>6, <1>7 DEF Opens
<1> HIDE DEF r
<1> QED BY <1>1, <1>3, <1>4, <1>5, <1>6, <1>7, <1>8, <1>9, <1>10, WriteStep

LEMMA SetTargetCredentialKindStep ==
  ASSUME IInv, NEW p \in Procs, SetTargetCredentialKind(p)
  PROVE  IInv'
<1> DEFINE k == op[p].id
           r == [tgt[k] EXCEPT !.kind = op[p].kind,
                               !.sealed = Seal(k, op[p].kind, op[p].gen),
                               !.ident = 0, !.igen = 0]
<1>1. /\ op[p].at = "replace" /\ k \in Ids /\ op[p].kind \in SecretKinds
      /\ Live(tgt, k) /\ op[p].gen \in Gens
  BY DEF SetTargetCredentialKind, IInv, Asked, TypeOK, Op
<1>2. tgt[k] \in TargetRow /\ k \in Gens
  BY <1>1, RowTypes DEF IInv
<1>3. r \in TargetRow
  BY <1>1, <1>2, SecretTypes DEF TargetRow, TargetKinds
<1>4. /\ r.gen = tgt[k].gen /\ r.name = tgt[k].name /\ r.kind = op[p].kind
      /\ r.ident = 0 /\ r.igen = 0
      /\ r.sealed.id = k /\ r.sealed.kind = op[p].kind /\ r.sealed.gen = op[p].gen
  BY <1>2 DEF TargetRow, Seal
<1>5. /\ tgt' = [tgt EXCEPT ![k] = r] /\ Touch(p, k, tgt[k].gen) /\ Finish(p)
      /\ UNCHANGED <<idt, used, gens, ops>>
  BY DEF SetTargetCredentialKind, KindWritten
<1>6. r.gen \notin spoilt' => p \notin stale
  BY <1>4, <1>5 DEF Touch
<1>7. p \notin stale => tgt[k].gen = op[p].gen
  BY <1>1 DEF IInv, TargetKnown
<1>8. 0 <= gens
  BY DEF IInv, TypeOK, Gens
<1>9. r.kind # "stored_key"
  BY <1>1, <1>4, SecretKindsOther
<1>10. Opens(r.sealed, k, r.kind)
  BY <1>4 DEF Opens
<1> HIDE DEF r
<1> QED BY <1>1, <1>3, <1>4, <1>5, <1>6, <1>7, <1>8, <1>9, <1>10, WriteStep

LEMMA SetTargetIdentityStep ==
  ASSUME IInv, NEW p \in Procs, SetTargetIdentity(p)
  PROVE  IInv'
<1> DEFINE k == op[p].id
           r == [tgt[k] EXCEPT !.kind = "stored_key", !.sealed = NoSecret,
                               !.ident = op[p].iid, !.igen = op[p].igen]
<1>1. /\ op[p].at = "use" /\ k \in Ids /\ op[p].iid \in Ids
      /\ Live(tgt, k) /\ Live(idt, op[p].iid)
      /\ op[p].igen \in Gens /\ op[p].iid \in Gens /\ op[p].igen <= gens
  BY DEF SetTargetIdentity, IInv, Asked, GensBound, TypeOK, Op
<1>2. tgt[k] \in TargetRow
  BY <1>1, RowTypes DEF IInv
<1>3. r \in TargetRow
  BY <1>1, <1>2, SecretTypes DEF TargetRow, TargetKinds
<1>4. /\ r.gen = tgt[k].gen /\ r.name = tgt[k].name /\ r.kind = "stored_key"
      /\ r.ident = op[p].iid /\ r.igen = op[p].igen /\ r.sealed.id = 0
  BY <1>2 DEF TargetRow, NoSecret
<1>5. /\ tgt' = [tgt EXCEPT ![k] = r] /\ Touch(p, k, tgt[k].gen) /\ Finish(p)
      /\ UNCHANGED <<idt, used, gens, ops>>
  BY DEF SetTargetIdentity
<1>6. r.gen \notin spoilt' => p \notin stale
  BY <1>4, <1>5 DEF Touch
<1>7. p \notin stale => idt[op[p].iid].gen = op[p].igen
  BY <1>1 DEF IInv, IdentKnown
<1>8. k # 0 /\ op[p].iid # 0
  BY <1>1 DEF Ids
<1> HIDE DEF r
<1> QED BY <1>1, <1>3, <1>4, <1>5, <1>6, <1>7, <1>8, WriteStep

LEMMA CleanupStep ==
  ASSUME IInv, NEW p \in Procs, Cleanup(p)
  PROVE  IInv'
<1>1. /\ op[p].at = "cleanup" /\ DeleteByName(p, op[p].name)
      /\ op' = [op EXCEPT ![p] = Idle] /\ UNCHANGED <<idt, used, gens, ops, spoilt>>
  BY DEF Cleanup, Finish
<1>2. Idle.at = "idle" /\ Idle.gen <= gens /\ Idle.igen <= gens /\ ops' \in 0..MaxOps
  BY <1>1 DEF Idle, IInv, TypeOK, Gens
<1> QED BY <1>1, <1>2, IdleIsOp, DeleteStep

LEMMA DeleteTargetStep ==
  ASSUME IInv, NEW p \in Procs, NEW n \in TargetNames, DeleteTarget(p, n)
  PROVE  IInv'
<1>1. /\ op[p].at = "idle" /\ DeleteByName(p, n)
      /\ UNCHANGED <<idt, op, used, gens, spoilt>>
  BY DEF DeleteTarget
<1>2. op[p] \in Op /\ op' = [op EXCEPT ![p] = op[p]]
  BY <1>1 DEF IInv, TypeOK
<1>3. ops' \in 0..MaxOps
  BY CredentialsAssumption DEF DeleteTarget, IInv, TypeOK
<1>4. op[p].gen <= gens /\ op[p].igen <= gens
  BY DEF IInv, GensBound
<1> QED BY <1>1, <1>2, <1>3, <1>4, DeleteStep

LEMMA InsertStep ==
  ASSUME IInv, NEW p \in Procs, Insert(p)
  PROVE  IInv'
<1>1. PICK i \in Ids :
       /\ IsNextId(tgt, i)
       /\ tgt' = [tgt EXCEPT ![i] = [NoTarget EXCEPT
            !.gen = gens + 1, !.name = op[p].name, !.kind = op[p].kind]]
       /\ op' = [op EXCEPT ![p].at = "readBack", ![p].id = i, ![p].gen = gens + 1]
       /\ stale' = stale \cup Holders(p, i)
  BY DEF Insert
<1> DEFINE r == [NoTarget EXCEPT !.gen = gens + 1, !.name = op[p].name, !.kind = op[p].kind]
           o == [op[p] EXCEPT !.at = "readBack", !.id = i, !.gen = gens + 1]
<1>2. /\ op[p].at = "insert" /\ ~NameTaken(tgt, op[p].name)
      /\ gens < MaxRows /\ gens' = gens + 1 /\ UNCHANGED <<idt, used, ops, spoilt>>
  BY DEF Insert
<1>3. op[p].kind \in SecretKinds /\ op[p].name \in TargetNames
  BY <1>2 DEF IInv, Asked
<1>4. i \in Gens /\ gens + 1 \in Gens /\ gens \in Nat /\ op[p] \in Op
  BY <1>2, RowTypes, CredentialsAssumption DEF IInv, TypeOK, Gens
<1>5. r \in TargetRow
  BY <1>3, <1>4, SecretTypes DEF NoTarget, TargetRow, TargetKinds
<1>6. /\ r.gen = gens + 1 /\ r.name = op[p].name /\ r.kind = op[p].kind
      /\ r.ident = 0 /\ r.igen = 0 /\ r.sealed = NoSecret
  BY DEF NoTarget
<1>7. o \in Op
  BY <1>4 DEF Op, Steps
<1>8. /\ o.at = "readBack" /\ o.id = i /\ o.gen = gens + 1 /\ o.kind = op[p].kind
      /\ o.name = op[p].name /\ o.igen = op[p].igen
  BY <1>4 DEF Op
<1>9. tgt' = [tgt EXCEPT ![i] = r] /\ op' = [op EXCEPT ![p] = o]
  BY <1>1, <1>4 DEF IInv, TypeOK, Op
<1>10. ~Live(tgt, i)
  BY <1>1, CredentialsAssumption DEF IsNextId, Ids
<1>11. op[p].igen <= gens /\ spoilt \subseteq Gens
  BY DEF IInv, GensBound, TypeOK
<1>12. /\ stale' \subseteq Procs
       /\ \A q \in Procs : q # p => (q \in stale' <=> q \in stale \/ op[q].id = i)
  BY <1>1 DEF Holders, IInv, TypeOK
<1>13. r.kind # "stored_key"
  BY <1>3, <1>6, SecretKindsOther
<1> HIDE DEF r, o
<1>14. ~NameTaken(tgt, r.name)
  BY <1>2, <1>6
<1>15. /\ r.igen <= gens /\ o.gen <= gens + 1 /\ o.igen <= gens
       /\ op[p].at \notin {"readBack", "seal", "cleanup", "readIdentBack", "sealIdent",
                        "countIdent", "deleteIdent"}
       /\ spoilt \subseteq spoilt' /\ spoilt' \subseteq Gens
  BY <1>2, <1>4, <1>6, <1>8, <1>11
<1>16. /\ o.at = "readBack" /\ o.id = i /\ o.gen = r.gen /\ o.kind = r.kind
       /\ o.name = r.name /\ r.kind \in SecretKinds
  BY <1>3, <1>6, <1>8
<1>17. r.gen = gens + 1 /\ r.sealed = NoSecret /\ r.ident = 0
  BY <1>6
<1>18. gens < MaxRows /\ gens' = gens + 1 /\ UNCHANGED <<idt, used, ops>>
  BY <1>2
<1> QED BY <1>5, <1>7, <1>9, <1>10, <1>12, <1>13, <1>14, <1>15, <1>16, <1>17, <1>18, InsertRowStep

LEMMA InsertStoredStep ==
  ASSUME IInv, NEW p \in Procs, InsertStored(p)
  PROVE  IInv'
<1>1. PICK i \in Ids :
       /\ IsNextId(tgt, i)
       /\ tgt' = [tgt EXCEPT ![i] = [NoTarget EXCEPT
            !.gen = gens + 1, !.name = op[p].name, !.kind = "stored_key",
            !.ident = op[p].iid, !.igen = op[p].igen]]
       /\ stale' = (stale \ {p}) \cup Holders(p, i)
       /\ spoilt' = IF p \in stale THEN spoilt \cup {gens + 1} ELSE spoilt
  BY DEF InsertStored
<1> DEFINE r == [NoTarget EXCEPT !.gen = gens + 1, !.name = op[p].name,
                                 !.kind = "stored_key", !.ident = op[p].iid,
                                 !.igen = op[p].igen]
<1>2. /\ op[p].at = "insertStored" /\ ~NameTaken(tgt, op[p].name)
      /\ Live(idt, op[p].iid)
      /\ gens < MaxRows /\ gens' = gens + 1 /\ UNCHANGED <<idt, used, ops>>
      /\ op' = [op EXCEPT ![p] = Idle]
  BY DEF InsertStored, Finish
<1>3. op[p].iid \in Ids /\ op[p].name \in TargetNames
  BY <1>2 DEF IInv, Asked
<1>4. /\ gens + 1 \in Gens /\ gens \in Nat
      /\ op[p].iid \in Gens /\ op[p].igen \in Gens
  BY <1>2, CredentialsAssumption DEF IInv, TypeOK, Op, Gens
<1>5. r \in TargetRow
  BY <1>3, <1>4, SecretTypes DEF NoTarget, TargetRow, TargetKinds
<1>6. /\ r.gen = gens + 1 /\ r.name = op[p].name /\ r.kind = "stored_key"
      /\ r.ident = op[p].iid /\ r.igen = op[p].igen /\ r.sealed = NoSecret
  BY DEF NoTarget
<1>7. Idle.at = "idle" /\ Idle.gen <= gens + 1 /\ Idle.igen <= gens
  BY <1>4 DEF Idle
<1>8. tgt' = [tgt EXCEPT ![i] = r]
  BY <1>1
<1>9. ~Live(tgt, i)
  BY <1>1, CredentialsAssumption DEF IsNextId, Ids
<1>10. op[p].igen <= gens /\ spoilt' \subseteq Gens /\ spoilt \subseteq spoilt'
  BY <1>1, <1>4 DEF IInv, GensBound, TypeOK
<1>11. /\ stale' \subseteq Procs
       /\ \A q \in Procs : q # p => (q \in stale' <=> q \in stale \/ op[q].id = i)
  BY <1>1 DEF Holders, IInv, TypeOK
<1>12. idt[op[p].iid].gen = op[p].igen \/ gens + 1 \in spoilt'
  BY <1>1, <1>2 DEF IInv, IdentKnown
<1>13. op[p].iid # 0
  BY <1>3 DEF Ids
<1> HIDE DEF r
<1>14. ~NameTaken(tgt, r.name)
  BY <1>2, <1>6
<1>15. /\ r.igen <= gens
       /\ op[p].at \notin {"readBack", "seal", "cleanup", "readIdentBack", "sealIdent",
                        "countIdent", "deleteIdent"}
  BY <1>2, <1>6, <1>10
<1>16. /\ r.gen = gens + 1 /\ r.sealed = NoSecret /\ r.kind = "stored_key" /\ r.ident # 0
       /\ Live(idt, r.ident) /\ (idt[r.ident].gen = r.igen \/ r.gen \in spoilt')
  BY <1>2, <1>6, <1>12, <1>13
<1>17. /\ gens < MaxRows /\ gens' = gens + 1 /\ UNCHANGED <<idt, used, ops>>
       /\ op' = [op EXCEPT ![p] = Idle]
  BY <1>2
<1> QED BY <1>5, <1>7, <1>8, <1>9, <1>10, <1>11, <1>14, <1>15, <1>16, <1>17, IdleIsOp, InsertRowStep

-----------------------------------------------------------------------------
(* Steps that write a row of ssh_identities.                               *)

LEMMA AddSSHIdentityStep ==
  ASSUME IInv, NEW p \in Procs, AddSSHIdentity(p)
  PROVE  IInv'
<1>1. PICK i \in Ids :
       /\ IsNextId(idt, i)
       /\ idt' = [idt EXCEPT ![i] = [NoIdent EXCEPT !.gen = gens + 1, !.name = op[p].name]]
       /\ op' = [op EXCEPT ![p].at = "readIdentBack", ![p].iid = i, ![p].igen = gens + 1]
       /\ stale' = stale \cup IdentHolders(p, i)
  BY DEF AddSSHIdentity
<1> DEFINE r == [NoIdent EXCEPT !.gen = gens + 1, !.name = op[p].name]
           o == [op[p] EXCEPT !.at = "readIdentBack", !.iid = i, !.igen = gens + 1]
<1>2. /\ op[p].at = "insertIdent" /\ ~NameTaken(idt, op[p].name)
      /\ gens < MaxRows /\ gens' = gens + 1 /\ UNCHANGED <<tgt, used, ops, spoilt>>
  BY DEF AddSSHIdentity
<1>3. op[p].name \in IdentNames /\ op[p] \in Op
  BY <1>2 DEF IInv, Asked, TypeOK
<1>4. i \in Gens /\ gens + 1 \in Gens /\ gens \in Nat
  BY <1>2, RowTypes, CredentialsAssumption DEF IInv, TypeOK, Gens
<1>5. r \in IdentRow /\ r.gen = gens + 1 /\ r.name = op[p].name /\ r.sealed = NoSecret
  BY <1>3, <1>4, SecretTypes DEF NoIdent, IdentRow
<1>6. /\ o \in Op /\ o.at = "readIdentBack" /\ o.iid = i /\ o.igen = gens + 1
      /\ o.name = op[p].name /\ o.id = op[p].id /\ o.gen = op[p].gen
  BY <1>3, <1>4 DEF Op, Steps
<1>7. idt' = [idt EXCEPT ![i] = r] /\ op' = [op EXCEPT ![p] = o]
  BY <1>1, <1>3 DEF IInv, TypeOK, Op
<1>8. ~Live(idt, i)
  BY <1>1, CredentialsAssumption DEF IsNextId, Ids
<1>9. stale' = stale \cup {q \in Procs \ {p} : op[q].iid = i}
  BY <1>1 DEF IdentHolders
<1> HIDE DEF r, o
<1>10. \A q \in Procs : op'[q] = IF q = p THEN o ELSE op[q]
  BY <1>7 DEF IInv, TypeOK
<1>11. \A j \in Ids : idt'[j] = IF j = i THEN r ELSE idt[j]
  BY <1>7 DEF IInv, TypeOK
<1>12. /\ \A q \in Procs : op[q].gen \in Nat /\ op[q].igen \in Nat /\ op[q].igen # r.gen
       /\ \A j \in Ids : tgt[j].gen \in Nat /\ tgt[j].igen \in Nat /\ idt[j].gen \in Nat
  <2>1. \A q \in Procs : op[q].gen \in Gens /\ op[q].igen \in Gens
    BY DEF IInv, TypeOK, Op
  <2>2. \A j \in Ids : tgt[j].gen \in Gens /\ tgt[j].igen \in Gens /\ idt[j].gen \in Gens
    BY RowTypes DEF IInv
  <2> QED BY <2>1, <2>2, <1>4, <1>5 DEF IInv, GensBound, Gens
<1>13. TypeOK'
  BY <1>2, <1>4, <1>5, <1>6, <1>7, <1>9 DEF IInv, TypeOK
<1>14. Asked'
  BY <1>6, <1>10 DEF IInv, Asked
<1>15. GensBound'
  <2>1. \A q \in Procs : op'[q].gen <= gens + 1 /\ op'[q].igen <= gens + 1
    BY <1>4, <1>6, <1>10, <1>12 DEF IInv, GensBound
  <2>2. \A j \in Ids : /\ tgt[j].gen <= gens + 1 /\ tgt[j].igen <= gens + 1
                       /\ idt'[j].gen <= gens + 1
    BY <1>4, <1>5, <1>11, <1>12 DEF IInv, GensBound
  <2> QED BY <2>1, <2>2, <1>2 DEF GensBound
<1>16. OneRowPerName'
  BY <1>2, <1>5, <1>11 DEF IInv, OneRowPerName, Live, NameTaken
<1>17. NoDanglingIdentity'
  BY <1>2, <1>4, <1>5, <1>7, <1>11 DEF IInv, NoDanglingIdentity, Live, TypeOK
<1>18. TargetKnown'
  BY <1>2, <1>6, <1>9, <1>10 DEF IInv, TargetKnown
<1>19. IdentKnown'
  <2>1. \A q \in Procs : op[q].iid # 0 => op[q].iid \in Ids
    BY CredentialsAssumption DEF IInv, TypeOK, Op, Gens, Ids
  <2>2. ASSUME NEW q \in Procs, q # p, op[q].iid # 0, op[q].iid # i
        PROVE  op'[q] = op[q] /\ idt'[op[q].iid] = idt[op[q].iid] /\ (q \in stale' <=> q \in stale)
    BY <2>1, <2>2, <1>9, <1>10, <1>11
  <2>3. \A q \in Procs : q # p /\ op[q].iid = i => q \in stale' /\ idt'[i].gen # op[q].igen
    BY <1>5, <1>9, <1>11, <1>12
  <2>4. 0 \notin Ids
    BY DEF Ids
  <2> QED BY <2>1, <2>2, <2>3, <2>4, <1>2, <1>5, <1>6, <1>10, <1>11 DEF IInv, IdentKnown, Asked, Live
<1>20. SecretsOwn'
  BY <1>2, <1>5, <1>11 DEF IInv, SecretsOwn, Live, NoSecret, Ids
<1>21. KeysSelected'
  <2>1. \A j \in Ids : Live(tgt, j) /\ tgt[j].ident # 0 =>
          tgt[j].ident # i /\ idt'[tgt[j].ident] = idt[tgt[j].ident]
    BY <1>7, <1>8 DEF IInv, NoDanglingIdentity, TypeOK
  <2> QED BY <2>1, <1>2 DEF IInv, KeysSelected, Live
<1>22. ASSUME NEW j \in Ids, Adding(j) PROVE Adding(j)'
  BY <1>2, <1>10, <1>22 DEF Adding
<1>23. TargetsUsable'
  BY <1>2, <1>22 DEF IInv, TargetsUsable, Live, Opens
<1>24. ASSUME NEW j \in Ids, j # i, AddingIdent(j) PROVE AddingIdent(j)'
  BY <1>2, <1>10, <1>11, <1>24 DEF AddingIdent
<1>25. AddingIdent(i)'
  BY <1>5, <1>6, <1>10, <1>11 DEF AddingIdent
<1>26. IdentsUsable'
  BY <1>2, <1>11, <1>24, <1>25 DEF IInv, IdentsUsable, Live, Opens
<1>27. UsesOwnSecret'
  BY <1>2 DEF IInv, UsesOwnSecret
<1> QED BY <1>13, <1>14, <1>15, <1>16, <1>17, <1>18, <1>19, <1>20, <1>21, <1>23, <1>26, <1>27
        DEF IInv

LEMMA SetSSHIdentitySecretStep ==
  ASSUME IInv, NEW p \in Procs, SetSSHIdentitySecret(p)
  PROVE  IInv'
<1> DEFINE k == op[p].iid
           r == [idt[k] EXCEPT !.sealed = Seal(k, "identity", op[p].igen)]
<1>1. /\ op[p].at = "sealIdent" /\ Live(idt, k) /\ op' = [op EXCEPT ![p] = Idle]
      /\ stale' = stale \ {p}
      /\ spoilt' = IF p \in stale THEN spoilt \cup {idt[k].gen} ELSE spoilt
      /\ UNCHANGED <<tgt, used, gens, ops>>
  BY DEF SetSSHIdentitySecret, Leave, Finish
<1>2. k \in Ids /\ op[p].igen \in Gens
  BY <1>1 DEF IInv, Asked, TypeOK, Op
<1>3. k \in Gens /\ idt[k] \in IdentRow /\ idt[k].gen \in Gens
  BY <1>2, RowTypes DEF IInv
<1>4. /\ r \in IdentRow /\ r.gen = idt[k].gen /\ r.name = idt[k].name
      /\ r.sealed.id = k /\ r.sealed.kind = "identity" /\ r.sealed.gen = op[p].igen
  <2>1. Seal(k, "identity", op[p].igen) \in Sealed
    BY <1>2, <1>3, SecretTypes
  <2> QED BY <2>1, <1>3 DEF IdentRow, Seal
<1>5. idt' = [idt EXCEPT ![k] = r]
  BY <1>2 DEF SetSSHIdentitySecret, IInv, TypeOK, IdentRow
<1> HIDE DEF r
<1>6. \A q \in Procs : op'[q] = IF q = p THEN Idle ELSE op[q]
  BY <1>1 DEF IInv, TypeOK
<1>7. Idle.at = "idle" /\ Idle.gen = 0 /\ Idle.igen = 0
  BY DEF Idle
<1>8. \A j \in Ids : idt'[j] = IF j = k THEN r ELSE idt[j]
  BY <1>5 DEF IInv, TypeOK
<1>9. /\ \A j \in Ids : idt'[j].gen = idt[j].gen /\ idt'[j].name = idt[j].name
      /\ \A j \in Ids : Live(idt, j)' <=> Live(idt, j)
  BY <1>4, <1>8 DEF Live
<1>10. TypeOK'
  BY <1>1, <1>3, <1>4, <1>5, IdleIsOp DEF IInv, TypeOK
<1>11. Asked'
  BY <1>6, <1>7 DEF IInv, Asked
<1>12. GensBound'
  BY <1>1, <1>6, <1>7, <1>9 DEF IInv, GensBound, TypeOK, Gens
<1>13. OneRowPerName'
  BY <1>1, <1>9 DEF IInv, OneRowPerName, Live
<1>i. \A j \in Ids : Live(tgt, j) /\ tgt[j].ident # 0 => tgt[j].ident \in Ids
  BY RowTypes, CredentialsAssumption DEF IInv, Gens, Ids
<1>o. \A q \in Procs : op[q].iid # 0 => op[q].iid \in Ids
  BY CredentialsAssumption DEF IInv, TypeOK, Op, Gens, Ids
<1>14. NoDanglingIdentity'
  BY <1>1, <1>9, <1>i DEF IInv, NoDanglingIdentity, Live
<1>15. TargetKnown'
  BY <1>1, <1>6, <1>7 DEF IInv, TargetKnown
<1>16. IdentKnown'
  BY <1>1, <1>6, <1>7, <1>9, <1>o DEF IInv, IdentKnown, Asked, Live
<1>17. p \notin stale => op[p].igen = idt[k].gen
  BY <1>1 DEF IInv, IdentKnown
<1>18. SecretsOwn'
  BY <1>1, <1>4, <1>8, <1>17 DEF IInv, SecretsOwn, Live
<1>19. KeysSelected'
  BY <1>1, <1>9, <1>i DEF IInv, KeysSelected, Live
<1>20. ASSUME NEW j \in Ids, Adding(j) PROVE Adding(j)'
  BY <1>1, <1>6, <1>20 DEF Adding
<1>21. TargetsUsable'
  BY <1>1, <1>20 DEF IInv, TargetsUsable, Live, Opens
<1>22. ASSUME NEW j \in Ids, j # k, AddingIdent(j) PROVE AddingIdent(j)'
  BY <1>6, <1>8, <1>22 DEF AddingIdent
<1>23. IdentsUsable'
  BY <1>1, <1>4, <1>8, <1>22 DEF IInv, IdentsUsable, Live, Opens
<1>24. UsesOwnSecret'
  BY <1>1 DEF IInv, UsesOwnSecret
<1> QED BY <1>10, <1>11, <1>12, <1>13, <1>14, <1>15, <1>16, <1>18, <1>19, <1>21, <1>23, <1>24
        DEF IInv

LEMMA DeleteSSHIdentityStep ==
  ASSUME IInv, NEW p \in Procs, DeleteSSHIdentity(p)
  PROVE  IInv'
<1>1. PICK k \in Ids :
       /\ Live(idt, k) /\ idt[k].name = op[p].name
       /\ ~Referenced(k)
       /\ idt' = [idt EXCEPT ![k] = NoIdent]
       /\ stale' = (stale \ {p}) \cup IdentHolders(p, k)
  BY DEF DeleteSSHIdentity, Deletable
<1>2. /\ op[p].at = "deleteIdent" /\ op' = [op EXCEPT ![p] = Idle]
      /\ UNCHANGED <<tgt, used, gens, ops, spoilt>>
  BY DEF DeleteSSHIdentity, Finish
<1>3. stale' = (stale \ {p}) \cup {q \in Procs \ {p} : op[q].iid = k}
  BY <1>1 DEF IdentHolders
<1>4. NoIdent.gen = 0 /\ Idle.at = "idle" /\ Idle.gen = 0 /\ Idle.igen = 0
  BY DEF NoIdent, Idle
<1>5. \A q \in Procs : op'[q] = IF q = p THEN Idle ELSE op[q]
  BY <1>2 DEF IInv, TypeOK
<1>6. \A j \in Ids : idt'[j] = IF j = k THEN NoIdent ELSE idt[j]
  BY <1>1 DEF IInv, TypeOK
<1>i. \A j \in Ids : Live(tgt, j) /\ tgt[j].ident # 0 => tgt[j].ident \in Ids /\ tgt[j].ident # k
  BY <1>1, RowTypes, CredentialsAssumption DEF IInv, Gens, Ids, Referenced
<1>o. \A q \in Procs : op[q].iid # 0 => op[q].iid \in Ids
  BY CredentialsAssumption DEF IInv, TypeOK, Op, Gens, Ids
<1>7. TypeOK'
  BY <1>1, <1>2, <1>3, IdleIsOp, SecretTypes DEF IInv, TypeOK
<1>8. Asked'
  BY <1>4, <1>5 DEF IInv, Asked
<1>9. GensBound'
  BY <1>2, <1>4, <1>5, <1>6 DEF IInv, GensBound, TypeOK, Gens
<1>10. OneRowPerName'
  BY <1>2, <1>4, <1>6 DEF IInv, OneRowPerName, Live
<1>11. NoDanglingIdentity'
  BY <1>2, <1>6, <1>i DEF IInv, NoDanglingIdentity, Live
<1>12. TargetKnown'
  BY <1>2, <1>3, <1>4, <1>5 DEF IInv, TargetKnown
<1>13. IdentKnown'
  BY <1>2, <1>3, <1>4, <1>5, <1>6, <1>o DEF IInv, IdentKnown, Asked, Live
<1>14. SecretsOwn'
  BY <1>2, <1>4, <1>6 DEF IInv, SecretsOwn, Live
<1>15. KeysSelected'
  BY <1>2, <1>6, <1>i DEF IInv, KeysSelected, Live
<1>16. ASSUME NEW j \in Ids, Adding(j) PROVE Adding(j)'
  BY <1>2, <1>5, <1>16 DEF Adding
<1>17. TargetsUsable'
  BY <1>2, <1>16 DEF IInv, TargetsUsable, Live, Opens
<1>18. ASSUME NEW j \in Ids, j # k, Live(idt, j), AddingIdent(j) PROVE AddingIdent(j)'
  <2>1. PICK q \in Procs : /\ op[q].at \in {"readIdentBack", "sealIdent", "countIdent", "deleteIdent"}
                           /\ op[q].iid = j /\ op[q].igen = idt[j].gen
    BY <1>18 DEF AddingIdent
  <2>2. idt[j].name # idt[k].name
    BY <1>1, <1>18 DEF IInv, OneRowPerName
  <2>3. idt[j].name = op[q].name
    BY <2>1, <1>18 DEF IInv, IdentKnown, Ids
  <2>4. q # p
    BY <2>2, <2>3, <1>1
  <2> QED BY <2>1, <2>4, <1>5, <1>6, <1>18 DEF AddingIdent
<1>19. IdentsUsable'
  BY <1>2, <1>4, <1>6, <1>18 DEF IInv, IdentsUsable, Live, Opens
<1>20. UsesOwnSecret'
  BY <1>2 DEF IInv, UsesOwnSecret
<1> QED BY <1>7, <1>8, <1>9, <1>10, <1>11, <1>12, <1>13, <1>14, <1>15, <1>17, <1>19, <1>20
        DEF IInv

-----------------------------------------------------------------------------
(* The theorems.                                                           *)

LEMMA InitIInv == Init => IInv
<1> SUFFICES ASSUME Init PROVE IInv
  OBVIOUS
<1>1. /\ \A i \in Ids : tgt[i] = NoTarget /\ idt[i] = NoIdent
      /\ \A p \in Procs : op[p] = Idle
      /\ used = NothingUsed /\ gens = 0 /\ ops = 0 /\ stale = {} /\ spoilt = {}
  BY DEF Init
<1>2. /\ NoTarget.gen = 0 /\ NoTarget.igen = 0 /\ NoIdent.gen = 0
      /\ Idle.at = "idle" /\ Idle.gen = 0 /\ Idle.igen = 0
  BY DEF NoTarget, NoIdent, Idle
<1>3. NothingUsed \in Used /\ UsesOwnSecret
  BY <1>1, SecretTypes DEF NothingUsed, Used, UsesOwnSecret
<1>4. TypeOK
  BY <1>1, <1>3, SecretTypes, IdleIsOp, CredentialsAssumption DEF Init, TypeOK
<1>5. Asked /\ GensBound /\ TargetKnown /\ IdentKnown
  BY <1>1, <1>2 DEF Asked, GensBound, TargetKnown, IdentKnown
<1>6. OneRowPerName /\ NoDanglingIdentity /\ SecretsOwn /\ KeysSelected
  BY <1>1, <1>2 DEF OneRowPerName, NoDanglingIdentity, SecretsOwn, KeysSelected, Live
<1>7. TargetsUsable /\ IdentsUsable
  BY <1>1, <1>2 DEF TargetsUsable, IdentsUsable, Live
<1> QED BY <1>3, <1>4, <1>5, <1>6, <1>7 DEF IInv

LEMMA StutterIInv == IInv /\ UNCHANGED vars => IInv'
<1> SUFFICES ASSUME IInv, UNCHANGED vars PROVE IInv'
  OBVIOUS
<1> USE DEF vars
<1>1. TypeOK' /\ Asked' /\ GensBound'
  BY DEF IInv, TypeOK, Asked, GensBound
<1>2. OneRowPerName' /\ NoDanglingIdentity' /\ SecretsOwn' /\ KeysSelected' /\ UsesOwnSecret'
  BY DEF IInv, OneRowPerName, NoDanglingIdentity, SecretsOwn, KeysSelected,
         UsesOwnSecret, Live
<1>3. TargetKnown' /\ IdentKnown'
  BY DEF IInv, TargetKnown, IdentKnown, Live
<1>4. TargetsUsable' /\ IdentsUsable'
  BY DEF IInv, TargetsUsable, IdentsUsable, Adding, AddingIdent, Live, Opens
<1> QED BY <1>1, <1>2, <1>3, <1>4 DEF IInv

LEMMA NextIInv == IInv /\ [Next]_vars => IInv'
<1> SUFFICES ASSUME IInv, Next PROVE IInv'
  BY StutterIInv
<1>1. PICK p \in Procs : Add(p) \/ Change(p) \/ SavedKeys(p) \/ Connect(p)
                         \/ ReturnError(p) \/ Kill(p)
  BY DEF Next
<1>2. CASE Add(p)
  BY <1>2, StartAddStep, StartAddStoredStep, InsertStep, ReadBackStep, InsertStoredStep,
     SetTargetCredentialStep, SealFailsStep, CleanupStep, CleanupFailsStep DEF Add
<1>3. CASE Change(p)
  BY <1>3, StartReplaceStep, StartUseStep, SetTargetCredentialKindStep,
     SetTargetIdentityStep, DeleteTargetStep DEF Change
<1>4. CASE SavedKeys(p)
  BY <1>4, StartAddIdentStep, StartDeleteIdentStep, AddSSHIdentityStep,
     ReadIdentBackStep, SetSSHIdentitySecretStep, SealIdentFailsStep, CountUsesStep,
     DeleteSSHIdentityStep DEF SavedKeys
<1>5. CASE Connect(p)
  BY <1>5, ConnectOwnStep, ConnectStoredStep, ReadIdentStep DEF Connect
<1> QED BY <1>1, <1>2, <1>3, <1>4, <1>5, ReturnErrorStep, KillStep

LEMMA SpecIInv == Spec => []IInv
BY InitIInv, NextIInv, PTL DEF Spec

\* Types of the rows of targets and ssh_identities, of the operations and of
\* the history: among others no ciphertext is of a kind without a secret.
THEOREM CredentialsTypeCorrect == Spec => []TypeOK
<1>1. IInv => TypeOK
  BY DEF IInv
<1> QED BY <1>1, SpecIInv, PTL

\* DeleteSSHIdentity never leaves a target with a key that is gone.
THEOREM CredentialsNoDanglingIdentity == Spec => []NoDanglingIdentity
<1>1. IInv => NoDanglingIdentity
  BY DEF IInv
<1> QED BY <1>1, SpecIInv, PTL

\* loadCredential: the secret that is used has the kind the target asks for
\* and was entered for it, or selected for it, whatever ids were reused, unless
\* an operation wrote by an id that had changed under it.
THEOREM CredentialsUsesOwnSecret == Spec => []UsesOwnSecret
<1>1. IInv => UsesOwnSecret
  BY DEF IInv
<1> QED BY <1>1, SpecIInv, PTL

\* A target or key whose adding is complete can be used, unless an overtaken
\* operation wrote it or its adding was cut short.
THEOREM CredentialsSettledIsUsable == Spec => []SettledIsUsable
<1>1. IInv => SettledIsUsable
  <2> SUFFICES ASSUME IInv PROVE SettledIsUsable
    OBVIOUS
  <2>1. ASSUME NEW i \in Ids, Live(tgt, i), Complete(i), tgt[i].gen \notin spoilt
        PROVE  IF tgt[i].kind = "stored_key"
               THEN tgt[i].ident # 0 /\ idt[tgt[i].ident].gen = tgt[i].igen
               ELSE Opens(tgt[i].sealed, i, tgt[i].kind)
    <3>1. ~Adding(i)
      BY <2>1 DEF Complete, Adding
    <3>2. CASE tgt[i].kind = "stored_key"
      BY <2>1, <3>2 DEF IInv, KeysSelected
    <3>3. CASE tgt[i].kind # "stored_key"
      BY <2>1, <3>1, <3>3 DEF IInv, TargetsUsable
    <3> QED BY <3>2, <3>3
  <2>2. ASSUME NEW j \in Ids, Live(idt, j), CompleteIdent(j), idt[j].gen \notin spoilt
        PROVE  Opens(idt[j].sealed, j, "identity")
    <3>1. ~AddingIdent(j)
      BY <2>2 DEF CompleteIdent, AddingIdent
    <3> QED BY <2>2, <3>1 DEF IInv, IdentsUsable
  <2> QED BY <2>1, <2>2 DEF SettledIsUsable
<1> QED BY <1>1, SpecIInv, PTL

\* No process but p changes the operation of p, and of p's own steps at
\* "cleanup" only the cleanup deletes a target.
LEMMA CleanupOnly ==
  ASSUME IInv, [Next]_vars, NEW p \in Procs, NEW i \in Ids,
         op[p].at = "cleanup", op'[p].at = "idle", Live(tgt, i), ~Live(tgt', i)
  PROVE  tgt[i].name = op[p].name
<1>1. UNCHANGED vars => FALSE
  BY DEF vars
<1>2. PICK q \in Procs : Add(q) \/ Change(q) \/ SavedKeys(q) \/ Connect(q)
                         \/ ReturnError(q) \/ Kill(q)
  BY <1>1 DEF Next
<1>t. op \in [Procs -> Op]
  BY DEF IInv, TypeOK
<1>3. q = p
  <2>1. SUFFICES ASSUME q # p PROVE op'[p] = op[p]
    OBVIOUS
  <2>2. CASE Add(q)
    BY <2>1, <2>2, <1>t DEF Add, StartAdd, StartAddStored, Insert, ReadBack, InsertStored,
       SetTargetCredential, SealFails, Cleanup, CleanupFails, Enter, Finish, Leave
  <2>3. CASE Change(q)
    BY <2>1, <2>3, <1>t DEF Change, StartReplace, StartUse, SetTargetCredentialKind,
       SetTargetIdentity, DeleteTarget, Enter, Finish
  <2>4. CASE SavedKeys(q)
    BY <2>1, <2>4, <1>t DEF SavedKeys, StartAddIdent, StartDeleteIdent, AddSSHIdentity, ReadIdentBack,
       SetSSHIdentitySecret, SealIdentFails, CountUses, DeleteSSHIdentity, Enter,
       Finish, Leave
  <2>5. CASE Connect(q) \/ ReturnError(q) \/ Kill(q)
    BY <2>1, <2>5, <1>t DEF Connect, ConnectOwn, ConnectStored, ReadIdent, ReturnError,
       AfterError, Kill, Enter, Finish, Leave
  <2> QED BY <2>2, <2>3, <2>4, <2>5, <1>2
<1>4. tgt' # tgt
  BY DEF Live
<1>5. Cleanup(p)
  <2>1. CASE Add(p)
    BY <2>1, <1>4 DEF Add, StartAdd, StartAddStored, Insert, ReadBack, InsertStored,
       SetTargetCredential, SealFails, CleanupFails, Enter
  <2>2. CASE Change(p)
    BY <2>2, <1>4 DEF Change, StartReplace, StartUse, SetTargetCredentialKind,
       SetTargetIdentity, DeleteTarget, Enter
  <2>3. CASE SavedKeys(p) \/ Connect(p) \/ ReturnError(p) \/ Kill(p)
    BY <2>3, <1>4 DEF SavedKeys, StartAddIdent, StartDeleteIdent, AddSSHIdentity, ReadIdentBack,
       SetSSHIdentitySecret, SealIdentFails, CountUses, DeleteSSHIdentity, Connect,
       ConnectOwn, ConnectStored, ReadIdent, ReturnError, Kill
  <2> QED BY <2>1, <2>2, <2>3, <1>2, <1>3
<1> QED BY <1>5 DEF Cleanup, DeleteByName, Live

\* targetAdd and finishCredential: the cleanup of a failed add takes its own
\* row away and no other, unless that row was written or deleted by somebody
\* else before.
THEOREM CredentialsCleanupDeletesOwn == Spec => CleanupDeletesOwn
<1>1. ASSUME IInv, [Next]_vars, NEW p \in Procs, NEW i \in Ids,
             op[p].at = "cleanup", op'[p].at = "idle", Live(tgt, i), ~Live(tgt', i)
      PROVE  tgt[i].gen = op[p].gen \/ p \in stale
  <2>1. tgt[i].name = op[p].name
    BY <1>1, CleanupOnly
  <2>2. SUFFICES ASSUME p \notin stale PROVE tgt[i].gen = op[p].gen
    OBVIOUS
  <2> DEFINE k == op[p].id
  <2>3. k \in Ids /\ op[p].gen # 0 /\ tgt[k].gen = op[p].gen /\ tgt[k].name = op[p].name
    BY <1>1, <2>2 DEF IInv, Asked, TargetKnown
  <2> QED BY <1>1, <2>1, <2>3 DEF IInv, OneRowPerName, Live
<1>2. IInv /\ [Next]_vars =>
        [\A p \in Procs, i \in Ids :
           /\ op[p].at = "cleanup" /\ op'[p].at = "idle"
           /\ Live(tgt, i) /\ ~Live(tgt', i)
           => tgt[i].gen = op[p].gen \/ p \in stale]_vars
  BY <1>1
<1> QED BY <1>2, SpecIInv, PTL DEF Spec, CleanupDeletesOwn
-----------------------------------------------------------------------------
(* Without writes and reads by ids that have changed.                      *)

\* An operation that was overtaken ends in an error, in whatever step it is:
\* it writes nothing and no connection uses what it has read.
OvertakenGiveUp ==
  [][\A p \in stale : op'[p] # op[p] => UNCHANGED <<tgt, idt, used>>]_vars

\* Then what is in a row was entered or selected for it, and what a session
\* has learnt about a key still holds, although operations may be killed.
SealedForRow ==
  /\ \A i \in Ids : Live(tgt, i) /\ tgt[i].sealed.id = i => tgt[i].sealed.gen = tgt[i].gen
  /\ \A j \in Ids : Live(idt, j) /\ idt[j].sealed.id = j => idt[j].sealed.gen = idt[j].gen

SelectedForRow ==
  \A i \in Ids : Live(tgt, i) /\ tgt[i].ident # 0 => idt[tgt[i].ident].gen = tgt[i].igen

ReadsSelected ==
  \A p \in Procs : op[p].at = "readIdent" /\ p \notin stale =>
    idt[op[p].iid].gen = op[p].igen

OwnSecretUsed == used.got = used.want /\ used.gotKind = used.wantKind

SInv == SealedForRow /\ SelectedForRow /\ ReadsSelected /\ OwnSecretUsed
LEMMA QuietKeepsOwn ==
  ASSUME SInv, NEW p \in Procs, UNCHANGED <<tgt, idt, used>>,
         \A q \in Procs \ {p} : op'[q] = op[q], stale \ {p} \subseteq stale',
         op'[p].at = "readIdent" => idt[op'[p].iid].gen = op'[p].igen
  PROVE  SInv'
<1>1. (SealedForRow /\ SelectedForRow /\ OwnSecretUsed)'
  BY DEF SInv, SealedForRow, SelectedForRow, OwnSecretUsed, Live
<1>2. ReadsSelected'
  <2>1. SUFFICES ASSUME NEW q \in Procs, op'[q].at = "readIdent", q \notin stale'
                 PROVE  idt[op'[q].iid].gen = op'[q].igen
    BY DEF ReadsSelected
  <2>2. CASE q # p
    BY <2>1, <2>2 DEF SInv, ReadsSelected
  <2> QED BY <2>1, <2>2
<1> QED BY <1>1, <1>2 DEF SInv

\* A write to targets: the rows it leaves have what was entered for them.
LEMMA TargetWriteKeepsOwn ==
  ASSUME SInv, NEW p \in Procs, UNCHANGED <<idt, used>>,
         \A q \in Procs \ {p} : op'[q] = op[q], stale \ {p} \subseteq stale',
         op'[p].at # "readIdent",
         \A i \in Ids : tgt'[i] # tgt[i] /\ Live(tgt', i) =>
           /\ tgt'[i].sealed.id = i => tgt'[i].sealed.gen = tgt'[i].gen
           /\ tgt'[i].ident # 0 => idt[tgt'[i].ident].gen = tgt'[i].igen
  PROVE  SInv'
<1>1. SealedForRow'
  BY DEF SInv, SealedForRow, Live
<1>2. SelectedForRow'
  BY DEF SInv, SelectedForRow, Live
<1>3. ReadsSelected'
  BY DEF SInv, ReadsSelected
<1>4. OwnSecretUsed'
  BY DEF SInv, OwnSecretUsed
<1> QED BY <1>1, <1>2, <1>3, <1>4 DEF SInv

\* A write to row i of ssh_identities: where another row is there afterwards,
\* no target refers to it and the sessions that do are overtaken.
LEMMA IdentWriteKeepsOwn ==
  ASSUME SInv, TypeOK, NoDanglingIdentity,
         NEW p \in Procs, NEW i \in Ids, NEW r, UNCHANGED <<tgt, used>>,
         \A q \in Procs \ {p} : op'[q] = op[q], stale \ {p} \subseteq stale',
         op'[p].at # "readIdent",
         idt' = [idt EXCEPT ![i] = r],
         r.gen # 0 /\ r.sealed.id = i => r.sealed.gen = r.gen,
         r.gen # idt[i].gen => ~Referenced(i) /\ IdentHolders(p, i) \subseteq stale'
  PROVE  SInv'
<1>1. idt'[i] = r /\ \A j \in Ids : j # i => idt'[j] = idt[j]
  BY DEF TypeOK
<1>2. SealedForRow'
  BY <1>1 DEF SInv, SealedForRow, Live
<1>3. SelectedForRow'
  <2>1. SUFFICES ASSUME NEW t \in Ids, Live(tgt, t), tgt[t].ident # 0
                 PROVE  idt'[tgt[t].ident].gen = tgt[t].igen
    BY DEF SelectedForRow, Live
  <2>2. tgt[t].ident \in Ids /\ idt[tgt[t].ident].gen = tgt[t].igen
    BY <2>1 DEF SInv, SelectedForRow, TypeOK, TargetRow, Gens, Ids
  <2> QED BY <1>1, <2>1, <2>2 DEF Referenced
<1>4. ReadsSelected'
  <2>1. SUFFICES ASSUME NEW q \in Procs, q # p, op[q].at = "readIdent", q \notin stale'
                 PROVE  idt'[op[q].iid].gen = op[q].igen
    BY DEF ReadsSelected
  <2>2. idt[op[q].iid].gen = op[q].igen
    BY <2>1 DEF SInv, ReadsSelected
  <2>3. CASE op[q].iid = i
    BY <1>1, <2>1, <2>2, <2>3 DEF IdentHolders
  <2>4. CASE op[q].iid # i
    BY <2>2, <2>4 DEF TypeOK
  <2> QED BY <2>3, <2>4
<1>5. OwnSecretUsed'
  BY DEF SInv, OwnSecretUsed
<1> QED BY <1>2, <1>3, <1>4, <1>5 DEF SInv
LEMMA AddKeepsOwn ==
  ASSUME IInv, SInv, NEW p \in Procs, Add(p),
         p \in stale /\ op'[p] # op[p] => UNCHANGED <<tgt, idt, used>>
  PROVE  SInv'
<1>t. /\ op \in [Procs -> Op] /\ tgt \in [Ids -> TargetRow]
  BY DEF IInv, TypeOK
<1>o. \A q \in Procs \ {p} : op'[q] = op[q]
  BY <1>t DEF Add, StartAdd, StartAddStored, Insert, ReadBack, InsertStored,
     SetTargetCredential, SealFails, Cleanup, CleanupFails, Enter, Finish, Leave
<1>a. op'[p].at # "readIdent"
  <2>1. CASE Insert(p) \/ ReadBack(p) \/ SealFails(p)
    <3>1. CASE Insert(p)
      <4>1. PICK i \in Ids : op' = [op EXCEPT ![p].at = "readBack", ![p].id = i, ![p].gen = gens + 1]
        BY <3>1 DEF Insert
      <4> QED BY <4>1, <1>t DEF Op
    <3>2. CASE ReadBack(p) \/ SealFails(p)
      BY <3>2, <1>t DEF ReadBack, SealFails, Op
    <3> QED BY <2>1, <3>1, <3>2
  <2>2. CASE InsertStored(p) \/ SetTargetCredential(p) \/ Cleanup(p) \/ CleanupFails(p)
    BY <2>2, <1>t DEF InsertStored, SetTargetCredential, Cleanup, CleanupFails,
       Finish, Leave, Idle
  <2> QED
    BY <2>1, <2>2, <1>t DEF Add, StartAdd, StartAddStored, Enter, Idle
<1>s. stale \ {p} \subseteq stale'
  BY DEF Add, StartAdd, StartAddStored, Insert, ReadBack, InsertStored,
     SetTargetCredential, SealFails, Cleanup, CleanupFails, Enter, Finish, Leave,
     Touch, DeleteByName
<1>1. CASE UNCHANGED <<tgt, idt, used>>
  BY <1>1, <1>t, <1>o, <1>a, <1>s, QuietKeepsOwn
<1>2. CASE ~UNCHANGED <<tgt, idt, used>> /\ Insert(p)
  BY <1>2, <1>t, <1>o, <1>a, <1>s, TargetWriteKeepsOwn DEF Insert, NoTarget, NoSecret, Live, Ids
<1>3. CASE ~UNCHANGED <<tgt, idt, used>> /\ InsertStored(p)
  <2>1. op'[p] # op[p]
    BY <1>3, <1>t DEF InsertStored, Finish, Idle
  <2>2. idt[op[p].iid].gen = op[p].igen
    BY <1>3, <2>1 DEF InsertStored, IInv, IdentKnown
  <2> QED BY <1>3, <1>t, <1>o, <1>a, <1>s, <2>2, TargetWriteKeepsOwn DEF InsertStored, NoTarget, NoSecret, Live, Ids
<1>4. CASE ~UNCHANGED <<tgt, idt, used>> /\ SetTargetCredential(p)
  <2>1. op'[p] # op[p]
    BY <1>4, <1>t DEF SetTargetCredential, Finish, Idle
  <2>2. tgt[op[p].id].gen = op[p].gen /\ op[p].id \in Ids
    BY <1>4, <2>1 DEF SetTargetCredential, IInv, TargetKnown, Asked
  <2> QED BY <1>4, <1>t, <1>o, <1>a, <1>s, <2>2, TargetWriteKeepsOwn
             DEF SetTargetCredential, Seal, Live, TargetRow
<1>5. CASE ~UNCHANGED <<tgt, idt, used>> /\ Cleanup(p)
  BY <1>5, <1>t, <1>o, <1>a, <1>s, TargetWriteKeepsOwn DEF Cleanup, DeleteByName, NoTarget, Live
<1> QED
  BY <1>1, <1>2, <1>3, <1>4, <1>5
     DEF Add, StartAdd, StartAddStored, ReadBack, SealFails, CleanupFails

LEMMA ChangeKeepsOwn ==
  ASSUME IInv, SInv, NEW p \in Procs, Change(p),
         p \in stale /\ op'[p] # op[p] => UNCHANGED <<tgt, idt, used>>
  PROVE  SInv'
<1>t. /\ op \in [Procs -> Op] /\ tgt \in [Ids -> TargetRow]
  BY DEF IInv, TypeOK
<1>o. \A q \in Procs \ {p} : op'[q] = op[q]
  BY <1>t DEF Change, StartReplace, StartUse, SetTargetCredentialKind,
     SetTargetIdentity, DeleteTarget, Enter, Finish
<1>a. op'[p].at # "readIdent"
  <2>1. CASE \E n \in TargetNames : DeleteTarget(p, n)
    BY <2>1 DEF DeleteTarget
  <2>2. CASE SetTargetCredentialKind(p) \/ SetTargetIdentity(p)
    BY <2>2, <1>t DEF SetTargetCredentialKind, SetTargetIdentity, Finish, Idle
  <2> QED
    BY <2>1, <2>2, <1>t DEF Change, StartReplace, StartUse, Enter, Idle
<1>s. stale \ {p} \subseteq stale'
  BY DEF Change, StartReplace, StartUse, SetTargetCredentialKind,
     SetTargetIdentity, DeleteTarget, Enter, Finish, Touch, DeleteByName
<1>1. CASE UNCHANGED <<tgt, idt, used>>
  BY <1>1, <1>t, <1>o, <1>a, <1>s, QuietKeepsOwn
<1>2. CASE ~UNCHANGED <<tgt, idt, used>> /\ SetTargetCredentialKind(p)
  <2>1. op'[p] # op[p]
    BY <1>2, <1>t DEF SetTargetCredentialKind, Finish, Idle
  <2>2. tgt[op[p].id].gen = op[p].gen /\ op[p].id \in Ids
    BY <1>2, <2>1 DEF SetTargetCredentialKind, IInv, TargetKnown, Asked
  <2> QED BY <1>2, <1>t, <1>o, <1>a, <1>s, <2>2, TargetWriteKeepsOwn
             DEF SetTargetCredentialKind, Seal, Live, TargetRow
<1>3. CASE ~UNCHANGED <<tgt, idt, used>> /\ SetTargetIdentity(p)
  <2>1. op'[p] # op[p]
    BY <1>3, <1>t DEF SetTargetIdentity, Finish, Idle
  <2>2. idt[op[p].iid].gen = op[p].igen /\ op[p].id \in Ids
    BY <1>3, <2>1 DEF SetTargetIdentity, IInv, IdentKnown, Asked
  <2> QED BY <1>3, <1>t, <1>o, <1>a, <1>s, <2>2, TargetWriteKeepsOwn
             DEF SetTargetIdentity, NoSecret, Live, TargetRow, Ids
<1>4. CASE ~UNCHANGED <<tgt, idt, used>> /\ \E n \in TargetNames : DeleteTarget(p, n)
  BY <1>4, <1>t, <1>o, <1>a, <1>s, TargetWriteKeepsOwn DEF DeleteTarget, DeleteByName, NoTarget, Live
<1> QED
  BY <1>1, <1>2, <1>3, <1>4 DEF Change, StartReplace, StartUse

LEMMA SavedKeysKeepsOwn ==
  ASSUME IInv, SInv, NEW p \in Procs, SavedKeys(p),
         p \in stale /\ op'[p] # op[p] => UNCHANGED <<tgt, idt, used>>
  PROVE  SInv'
<1>t. /\ op \in [Procs -> Op] /\ idt \in [Ids -> IdentRow]
      /\ TypeOK /\ NoDanglingIdentity
  BY DEF IInv, TypeOK
<1>o. \A q \in Procs \ {p} : op'[q] = op[q]
  BY <1>t DEF SavedKeys, StartAddIdent, StartDeleteIdent, AddSSHIdentity, ReadIdentBack,
     SetSSHIdentitySecret, SealIdentFails, CountUses, DeleteSSHIdentity, Enter, Finish, Leave
<1>a. op'[p].at # "readIdent"
  <2>1. CASE AddSSHIdentity(p) \/ ReadIdentBack(p) \/ SealIdentFails(p) \/ CountUses(p)
    <3>1. CASE AddSSHIdentity(p)
      <4>1. PICK i \in Ids :
              op' = [op EXCEPT ![p].at = "readIdentBack", ![p].iid = i, ![p].igen = gens + 1]
        BY <3>1 DEF AddSSHIdentity
      <4> QED BY <4>1, <1>t DEF Op
    <3>2. CASE ReadIdentBack(p) \/ SealIdentFails(p) \/ CountUses(p)
      BY <3>2, <1>t DEF ReadIdentBack, SealIdentFails, CountUses, Op
    <3> QED BY <2>1, <3>1, <3>2
  <2>2. CASE SetSSHIdentitySecret(p) \/ DeleteSSHIdentity(p)
    BY <2>2, <1>t DEF SetSSHIdentitySecret, DeleteSSHIdentity, Finish, Leave, Idle
  <2> QED
    BY <2>1, <2>2, <1>t DEF SavedKeys, StartAddIdent, StartDeleteIdent, Enter, Idle
<1>s. stale \ {p} \subseteq stale'
  BY DEF SavedKeys, StartAddIdent, StartDeleteIdent, AddSSHIdentity, ReadIdentBack,
     SetSSHIdentitySecret, SealIdentFails, CountUses, DeleteSSHIdentity, Enter, Finish, Leave
<1>1. CASE UNCHANGED <<tgt, idt, used>>
  BY <1>1, <1>t, <1>o, <1>a, <1>s, QuietKeepsOwn
<1>2. CASE ~UNCHANGED <<tgt, idt, used>> /\ AddSSHIdentity(p)
  <2> DEFINE r == [NoIdent EXCEPT !.gen = gens + 1, !.name = op[p].name]
  <2>1. PICK i \in Ids : /\ IsNextId(idt, i)
                         /\ idt' = [idt EXCEPT ![i] = r]
                         /\ IdentHolders(p, i) \subseteq stale'
    BY <1>2 DEF AddSSHIdentity
  <2>2. r.sealed.id # i
    BY DEF NoIdent, NoSecret, Ids
  <2>3. ~Referenced(i)
    BY <2>1, <1>t DEF IsNextId, Referenced, NoDanglingIdentity, Ids
  <2>4. UNCHANGED <<tgt, used>>
    BY <1>2 DEF AddSSHIdentity
  <2> HIDE DEF r
  <2> QED BY <1>t, <1>o, <1>a, <1>s, <2>1, <2>2, <2>3, <2>4, IdentWriteKeepsOwn
<1>3. CASE ~UNCHANGED <<tgt, idt, used>> /\ SetSSHIdentitySecret(p)
  <2>1. op'[p] # op[p]
    BY <1>3, <1>t DEF SetSSHIdentitySecret, Leave, Finish, Idle
  <2>2. PICK i \in Ids : i = op[p].iid /\ idt[i].gen = op[p].igen
    BY <1>3, <2>1 DEF SetSSHIdentitySecret, IInv, IdentKnown, Asked
  <2>3. PICK r : r = [idt[i] EXCEPT !.sealed = Seal(i, "identity", op[p].igen)]
    OBVIOUS
  <2>4. /\ r.gen = idt[i].gen
        /\ r.sealed.gen = r.gen
    BY <2>2, <2>3, <1>t DEF Seal, IdentRow
  <2>5. idt' = [idt EXCEPT ![i] = r] /\ UNCHANGED <<tgt, used>>
    BY <1>3, <2>2, <2>3, <1>t DEF SetSSHIdentitySecret
  <2> QED BY <1>t, <1>o, <1>a, <1>s, <2>4, <2>5, IdentWriteKeepsOwn
<1>4. CASE ~UNCHANGED <<tgt, idt, used>> /\ DeleteSSHIdentity(p)
  <2>1. PICK i \in Ids : /\ Deletable(i)
                         /\ idt' = [idt EXCEPT ![i] = NoIdent]
                         /\ IdentHolders(p, i) \subseteq stale'
    BY <1>4 DEF DeleteSSHIdentity
  <2>2. NoIdent.gen = 0
    BY DEF NoIdent
  <2>3. UNCHANGED <<tgt, used>>
    BY <1>4 DEF DeleteSSHIdentity
  <2> QED BY <1>t, <1>o, <1>a, <1>s, <2>1, <2>2, <2>3, IdentWriteKeepsOwn DEF Deletable
<1> QED
  BY <1>1, <1>2, <1>3, <1>4
     DEF SavedKeys, StartAddIdent, StartDeleteIdent, ReadIdentBack, SealIdentFails, CountUses
LEMMA ConnectKeepsOwn ==
  ASSUME IInv, SInv, NEW p \in Procs, Connect(p),
         p \in stale /\ op'[p] # op[p] => UNCHANGED <<tgt, idt, used>>
  PROVE  SInv'
<1>t. /\ op \in [Procs -> Op] /\ tgt \in [Ids -> TargetRow]
      /\ \A q \in Procs \ {p} : op'[q] = op[q]
      /\ stale \ {p} \subseteq stale'
      /\ UNCHANGED <<tgt, idt>>
  BY DEF IInv, TypeOK, Connect, ConnectOwn, ConnectStored, ReadIdent, Enter, Finish, Leave
<1>u. UsesOwnSecret'
  BY ConnectOwnStep, ConnectStoredStep, ReadIdentStep DEF Connect, IInv
<1>1. CASE \E i \in Ids : ConnectOwn(p, i)
  <2>1. OwnSecretUsed'
    BY <1>1, <1>u DEF ConnectOwn, Opens, SInv, SealedForRow, OwnSecretUsed, UsesOwnSecret
  <2>2. (SealedForRow /\ SelectedForRow /\ ReadsSelected)'
    BY <1>1 DEF ConnectOwn, SInv, SealedForRow, SelectedForRow, ReadsSelected, Live
  <2> QED BY <2>1, <2>2 DEF SInv
<1>2. CASE \E i \in Ids : ConnectStored(p, i)
  <2>1. PICK i \in Ids : ConnectStored(p, i)
    BY <1>2
  <2>2. op'[p].iid = tgt[i].ident /\ op'[p].igen = tgt[i].igen
    BY <2>1, <1>t DEF ConnectStored, Enter, Idle
  <2>3. idt[tgt[i].ident].gen = tgt[i].igen
    BY <2>1 DEF ConnectStored, SInv, SelectedForRow
  <2>4. UNCHANGED used
    BY <2>1 DEF ConnectStored
  <2> QED BY <1>t, <2>2, <2>3, <2>4, QuietKeepsOwn
<1>3. CASE ReadIdent(p)
  <2>1. op'[p] = Idle /\ op'[p] # op[p]
    BY <1>3, <1>t DEF ReadIdent, Leave, Finish, Idle
  <2>2. CASE UNCHANGED used
    BY <2>1, <2>2, <1>t, QuietKeepsOwn DEF Idle
  <2>3. CASE p \notin stale
    <3>1. used'.got = used'.want
      BY <1>3, <2>3 DEF ReadIdent, Opens, SInv, SealedForRow, ReadsSelected, IInv, Asked
    <3>2. OwnSecretUsed'
      BY <3>1, <1>u DEF OwnSecretUsed, UsesOwnSecret
    <3>3. (SealedForRow /\ SelectedForRow)'
      BY <1>t DEF SInv, SealedForRow, SelectedForRow, Live
    <3>4. ReadsSelected'
      BY <1>t, <2>1 DEF SInv, ReadsSelected, Idle
    <3> QED BY <3>2, <3>3, <3>4 DEF SInv
  <2> QED BY <2>1, <2>2, <2>3
<1> QED BY <1>1, <1>2, <1>3 DEF Connect

LEMMA ErrorKeepsOwn ==
  ASSUME IInv, SInv, NEW p \in Procs, ReturnError(p) \/ Kill(p)
  PROVE  SInv'
<1>1. /\ op' = [op EXCEPT ![p] = Idle]
      /\ stale' = stale \ {p}
      /\ UNCHANGED <<tgt, idt, used>>
  BY DEF ReturnError, AfterError, Kill, Leave, Finish
<1>2. op \in [Procs -> Op]
  BY DEF IInv, TypeOK
<1> QED BY <1>1, <1>2, QuietKeepsOwn DEF Idle

\* Every connection uses the secret that was entered for its target, or the
\* saved key that was selected for it, whatever is killed, fails or reuses an
\* id, as long as overtaken operations end in an error: SetTargetCredential,
\* SetTargetIdentity and SetSSHIdentitySecret write by an id and look at
\* nothing else, which is the only way to connect with another row's secret.
THEOREM CredentialsOwnUnlessOvertaken == Spec /\ OvertakenGiveUp => []OwnSecretUsed
<1> DEFINE G == \A p \in stale : op'[p] # op[p] => UNCHANGED <<tgt, idt, used>>
<1>1. Init => SInv
  BY DEF Init, SInv, SealedForRow, SelectedForRow, ReadsSelected, OwnSecretUsed, Live,
     NoTarget, NoIdent, Idle, NothingUsed
<1>2. IInv /\ SInv /\ [Next]_vars /\ [G]_vars => SInv'
  <2>1. CASE UNCHANGED vars
    BY <2>1 DEF vars, SInv, SealedForRow, SelectedForRow, ReadsSelected, OwnSecretUsed, Live
  <2>2. SUFFICES ASSUME IInv, SInv, Next, G PROVE SInv'
    BY <2>1
  <2>3. PICK p \in Procs : Add(p) \/ Change(p) \/ SavedKeys(p) \/ Connect(p)
                           \/ ReturnError(p) \/ Kill(p)
    BY <2>2 DEF Next
  <2>4. p \in stale /\ op'[p] # op[p] => UNCHANGED <<tgt, idt, used>>
    BY <2>2
  <2> QED BY <2>2, <2>3, <2>4, AddKeepsOwn, ChangeKeepsOwn, SavedKeysKeepsOwn,
             ConnectKeepsOwn, ErrorKeepsOwn
<1>3. SInv => OwnSecretUsed
  BY DEF SInv
<1> QED BY <1>1, <1>2, <1>3, SpecIInv, PTL DEF Spec, OvertakenGiveUp


\* One process at a time is never overtaken, so that its kills, errors and
\* reused ids alone never make a connection use another secret.
THEOREM SequentialConnectionsOwn ==
  ASSUME \A p, q \in Procs : p = q
  PROVE  Spec => []OwnSecretUsed
<1>1. Init => stale = {}
  BY DEF Init
<1>2. stale = {} /\ [Next]_vars => (stale = {})'
  <2>1. CASE UNCHANGED vars
    BY <2>1 DEF vars
  <2>2. SUFFICES ASSUME stale = {}, NEW p \in Procs,
                        Add(p) \/ Change(p) \/ SavedKeys(p) \/ Connect(p)
                          \/ ReturnError(p) \/ Kill(p)
                 PROVE  stale' = {}
    BY <2>1 DEF Next
  <2>3. Procs \ {p} = {}
    OBVIOUS
  <2>4. \A i : Holders(p, i) = {} /\ IdentHolders(p, i) = {}
    BY <2>3 DEF Holders, IdentHolders
  <2>5. \A n : DeleteByName(p, n) => stale' = {}
    BY <2>2, <2>3 DEF DeleteByName
  <2>6. CASE Add(p)
    BY <2>2, <2>4, <2>5, <2>6 DEF Add, StartAdd, StartAddStored, Insert, ReadBack, InsertStored,
       SetTargetCredential, SealFails, Cleanup, CleanupFails, Leave, Touch
  <2>7. CASE Change(p)
    BY <2>2, <2>4, <2>5, <2>7 DEF Change, StartReplace, StartUse, SetTargetCredentialKind,
       SetTargetIdentity, DeleteTarget, Touch
  <2>8. CASE SavedKeys(p)
    BY <2>2, <2>4, <2>8 DEF SavedKeys, StartAddIdent, StartDeleteIdent, AddSSHIdentity, ReadIdentBack,
       SetSSHIdentitySecret, SealIdentFails, CountUses, DeleteSSHIdentity, Leave
  <2>9. CASE Connect(p) \/ ReturnError(p) \/ Kill(p)
    BY <2>2, <2>9 DEF Connect, ConnectOwn, ConnectStored, ReadIdent, ReturnError,
       AfterError, Kill, Leave
  <2> QED BY <2>2, <2>6, <2>7, <2>8, <2>9
<1>3. stale = {} =>
        [\A p \in stale : op'[p] # op[p] => UNCHANGED <<tgt, idt, used>>]_vars
  OBVIOUS
<1> QED BY <1>1, <1>2, <1>3, CredentialsOwnUnlessOvertaken, PTL DEF Spec, OvertakenGiveUp
=============================================================================
