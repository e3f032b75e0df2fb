------------------------------ MODULE SetupProofs ------------------------------
(***************************************************************************)
(* Proofs about Setup and Migrations, for any number of processes, starts, *)
(* database files and schema versions.                                     *)
(***************************************************************************)
EXTENDS Setup, TLAPS

\* The stages in which a process holds the write lock.
InTx == Statements \cup {"commit"}

\* A process has a file open exactly when it is not closed, and holds the lock
\* of that file, and of no other, exactly in its transaction.
Locks ==
  /\ \A p \in Procs : at[p] = "closed" <=> file[p] = 0
  /\ \A p \in Procs : at[p] \in InTx => lock[file[p]] = p
  /\ \A p \in Procs, f \in Files : lock[f] = p => at[p] \in InTx /\ file[p] = f

\* What the transaction of p has done to its view w of the committed d.
WorkOf(p, w, d) ==
  /\ w.admin = d.admin /\ w.key = d.key /\ w.dangling = d.dangling
  /\ at[p] \in {"copy", "create"} =>
       w.applied = d.applied /\ w.recorded = d.recorded
         /\ w.live = d.live /\ w.copy = d.copy
  /\ at[p] = "drop" =>
       w.applied = d.applied /\ w.recorded = d.recorded
         /\ w.live = d.live /\ w.copy = d.live
  /\ at[p] = "rename" =>
       w.applied = d.applied /\ w.recorded = d.recorded /\ w.copy = d.live
  /\ at[p] \in {"record", "commit"} =>
       w.applied = [d.applied EXCEPT ![version[p]] = @ + 1]
         /\ w.live = d.live /\ w.copy = "absent"
  /\ at[p] = "record" => w.recorded = d.recorded
  /\ at[p] = "commit" =>
       w.recorded = d.recorded \cup {version[p]} /\ version[p] \notin d.recorded

WorkIsDisk == \A p \in Procs : at[p] \in InTx => WorkOf(p, work[p], disk[file[p]])

\* All of version 1 is there before it is recorded.
BaseFirst ==
  \A f \in Files : 1 \in disk[f].recorded => disk[f].applied[1] = BaseStatements

\* The versions a process has behind it are recorded.
Progress ==
  \A p \in Procs :
    /\ at[p] \in InTx \cup {"count", "begin"} =>
         1..(version[p] - 1) \subseteq disk[file[p]].recorded
    /\ at[p] = "fkcheck" => 1..version[p] \subseteq disk[file[p]].recorded
    /\ at[p] = "ready" => Versions \subseteq disk[file[p]].recorded

\* A file with dangling references that got past a checked version is being
\* checked, or was reported.
Reported ==
  \A f \in Files :
    disk[f].dangling /\ Checked \cap disk[f].recorded # {} =>
      warned \/ \E q \in Procs : at[q] = "fkcheck" /\ file[q] = f

StoreInv ==
  /\ StoreTypeOK /\ Locks /\ WorkIsDisk /\ MigrationsAreAtomic
  /\ BaseFirst /\ Progress /\ Reported

\* The store is open between Open and the return, and ready once it returned.
Holding ==
  \A p \in Procs :
    /\ pc[p] \in {"addUser", "addKey", "master", "hostkey", "serving"} => at[p] = "ready"
    /\ at[p] # "closed" =>
         pc[p] \in {"initOpen", "open", "addUser", "addKey", "master", "hostkey", "serving"}

\* Files that were not created yet are new.
Fresh ==
  /\ dbPath <= nfiles
  /\ \A p \in Procs : file[p] <= nfiles
  /\ \A f \in Files : f > nfiles => ~disk[f].key

\* An init that has seen no database, and was not overtaken by the end of
\* another one, has no finished installation before it.
Late(p) ==
  \/ pc[p] \in InitSteps \ {"stat"}
  \/ pc[p] = "stat" /\ cur[p] \in {"key", "host"}

NotOvertaken ==
  \A p \in Procs : Late(p) /\ p \notin racers => dbPath = 0 \/ ~disk[dbPath].key

\* One process at a time that is not killed and can remove its configuration:
\* a configuration file means a bootstrap administrator, except to the init
\* that is writing or removing it.
Configured == fs["cfg"] # "absent" => dbPath # 0 /\ disk[dbPath].key

Undone == {"write", "initOpen", "addUser", "addKey", "remove"}

OneRuns == \A p, q \in Procs : pc[p] # "idle" /\ pc[q] # "idle" => p = q

Found(p) ==
  /\ pc[p] = "stat" /\ cur[p] # "cfg" => fs["cfg"] = "absent"
  /\ pc[p] = "create" => fs["cfg"] = "absent"
  /\ pc[p] = "write" /\ cur[p] # "cfg" => fs["cfg"] = "absent"
  /\ pc[p] = "remove" /\ cur[p] = "db" => fs["cfg"] = "absent"
  /\ pc[p] \in {"initOpen", "addUser", "addKey"} /\ at[p] # "closed" =>
       file[p] = dbPath
  /\ pc[p] \in {"open", "master", "hostkey", "serving"} =>
       IF at[p] = "closed" THEN dbPath # 0 /\ disk[dbPath].key
                           ELSE disk[file[p]].key

Sequential ==
  killed \/ overlapped \/ cfgStayed \/
    /\ OneRuns
    /\ Configured \/ \E p \in Procs : pc[p] \in Undone
    /\ \A p \in Procs : Found(p)

IInv == TypeOK /\ StoreInv /\ Holding /\ Fresh /\ NotOvertaken /\ Sequential

-----------------------------------------------------------------------------
(* The effect of statements on databases.                                  *)

LEMMA VersionFacts ==
  /\ 1 \in Versions /\ LastVersion \in Versions
  /\ \A v \in 2..LastVersion : v \in Versions /\ v \in Nat /\ v > 1
  /\ Files \subseteq Nat \ {0} /\ 1 \in Files
  BY MigrationAssumption DEF Versions, Files

LEMMA NewFields ==
  /\ NewDatabase \in Database
  /\ NewDatabase.applied = [v \in Versions |-> 0] /\ NewDatabase.recorded = {}
  /\ NewDatabase.copy = "absent" /\ NewDatabase.key = FALSE
  /\ NewDatabase.dangling = FALSE
  BY DEF NewDatabase, Database, Contents

LEMMA EffectFields ==
  ASSUME NEW d \in Database, NEW v \in Versions, NEW s \in Statements
  PROVE  /\ Effect(d, v, s) \in Database
         /\ Effect(d, v, s).admin = d.admin
         /\ Effect(d, v, s).key = d.key
         /\ Effect(d, v, s).dangling = d.dangling
         /\ Effect(d, v, s).applied =
              IF s \in {"rename", "create"} THEN [d.applied EXCEPT ![v] = @ + 1]
                                            ELSE d.applied
         /\ Effect(d, v, s).recorded =
              IF s = "record" THEN d.recorded \cup {v} ELSE d.recorded
         /\ Effect(d, v, s).live =
              IF s = "drop" THEN "absent" ELSE IF s = "rename" THEN d.copy ELSE d.live
         /\ Effect(d, v, s).copy =
              IF s = "copy" THEN d.live ELSE IF s = "rename" THEN "absent" ELSE d.copy
<1>1. CASE s = "copy"
  BY <1>1 DEF Effect, Database, Contents
<1>2. CASE s = "drop"
  BY <1>2 DEF Effect, Database, Contents
<1>3. CASE s = "rename"
  <2> DEFINE a == [d.applied EXCEPT ![v] = @ + 1]
  <2>1. a \in [Versions -> Nat]
    BY DEF Database
  <2>2. Effect(d, v, s) = [d EXCEPT !.live = d.copy, !.copy = "absent", !.applied = a]
    BY <1>3 DEF Effect, Database
  <2> HIDE DEF a
  <2>3. /\ Effect(d, v, s) \in Database
        /\ Effect(d, v, s).admin = d.admin
        /\ Effect(d, v, s).key = d.key
        /\ Effect(d, v, s).dangling = d.dangling
        /\ Effect(d, v, s).applied = a
        /\ Effect(d, v, s).recorded = d.recorded
        /\ Effect(d, v, s).live = d.copy
        /\ Effect(d, v, s).copy = "absent"
    BY <2>1, <2>2 DEF Database, Contents
  <2> QED BY <2>3, <1>3 DEF a
<1>4. CASE s = "create"
  BY <1>4 DEF Effect, Database, Contents
<1>5. CASE s = "record"
  BY <1>5 DEF Effect, Database, Contents
<1> QED BY <1>1, <1>2, <1>3, <1>4, <1>5 DEF Statements

\* What the writes outside a transaction do to a database.
LEMMA WriteFields ==
  ASSUME NEW d \in Database
  PROVE  /\ LET e == BaseStatement(d)
            IN  /\ e \in Database
                /\ e.admin = d.admin /\ e.key = d.key /\ e.dangling = d.dangling
                /\ e.recorded = d.recorded /\ e.copy = d.copy
                /\ e.applied = [d.applied EXCEPT ![1] = @ + 1]
                /\ e.live = IF d.applied[1] + 1 = RebuiltAt /\ d.live = "absent"
                            THEN "empty" ELSE d.live
         /\ LET e == [d EXCEPT !.recorded = @ \cup {1}]
            IN  /\ e \in Database
                /\ e.admin = d.admin /\ e.key = d.key /\ e.dangling = d.dangling
                /\ e.recorded = d.recorded \cup {1} /\ e.copy = d.copy
                /\ e.applied = d.applied /\ e.live = d.live
         /\ LET e == [d EXCEPT !.admin = TRUE]
            IN  /\ e \in Database
                /\ e.admin = TRUE /\ e.key = d.key /\ e.dangling = d.dangling
                /\ e.recorded = d.recorded /\ e.copy = d.copy
                /\ e.applied = d.applied /\ e.live = d.live
         /\ LET e == [d EXCEPT !.key = TRUE]
            IN  /\ e \in Database
                /\ e.admin = d.admin /\ e.key = TRUE /\ e.dangling = d.dangling
                /\ e.recorded = d.recorded /\ e.copy = d.copy
                /\ e.applied = d.applied /\ e.live = d.live
<1> USE VersionFacts
<1>1. LET e == BaseStatement(d)
      IN  /\ e \in Database
          /\ e.admin = d.admin /\ e.key = d.key /\ e.dangling = d.dangling
          /\ e.recorded = d.recorded /\ e.copy = d.copy
          /\ e.applied = [d.applied EXCEPT ![1] = @ + 1]
          /\ e.live = IF d.applied[1] + 1 = RebuiltAt /\ d.live = "absent"
                      THEN "empty" ELSE d.live
  <2> DEFINE l == IF d.applied[1] + 1 = RebuiltAt /\ d.live = "absent"
                  THEN "empty" ELSE d.live
             a == [d.applied EXCEPT ![1] = @ + 1]
  <2>1. l \in Contents /\ a \in [Versions -> Nat]
    BY DEF Database, Contents
  <2>2. BaseStatement(d) = [d EXCEPT !.live = l, !.applied = a]
    BY DEF BaseStatement, Database
  <2> HIDE DEF l, a
  <2>3. LET e == BaseStatement(d)
        IN  /\ e \in Database
            /\ e.admin = d.admin /\ e.key = d.key /\ e.dangling = d.dangling
            /\ e.recorded = d.recorded /\ e.copy = d.copy
            /\ e.applied = a /\ e.live = l
    BY <2>1, <2>2 DEF Database
  <2> QED BY <2>3 DEF a, l
<1>2. LET e == [d EXCEPT !.recorded = @ \cup {1}]
      IN  /\ e \in Database
          /\ e.admin = d.admin /\ e.key = d.key /\ e.dangling = d.dangling
          /\ e.recorded = d.recorded \cup {1} /\ e.copy = d.copy
          /\ e.applied = d.applied /\ e.live = d.live
  BY DEF Database, Contents
<1>3. LET e == [d EXCEPT !.admin = TRUE]
      IN  /\ e \in Database
          /\ e.admin = TRUE /\ e.key = d.key /\ e.dangling = d.dangling
          /\ e.recorded = d.recorded /\ e.copy = d.copy
          /\ e.applied = d.applied /\ e.live = d.live
  BY DEF Database, Contents
<1>4. LET e == [d EXCEPT !.key = TRUE]
      IN  /\ e \in Database
          /\ e.admin = d.admin /\ e.key = TRUE /\ e.dangling = d.dangling
          /\ e.recorded = d.recorded /\ e.copy = d.copy
          /\ e.applied = d.applied /\ e.live = d.live
  BY DEF Database, Contents
<1> QED BY <1>1, <1>2, <1>3, <1>4

-----------------------------------------------------------------------------
(* The steps of Open preserve StoreInv.                                    *)

\* A process with a file open has one of Files open.
LEMMA OpenFileKnown ==
  ASSUME StoreTypeOK, Locks
  PROVE  \A q \in Procs : at[q] # "closed" => file[q] \in Files
  BY MigrationAssumption DEF StoreTypeOK, Locks, Files

\* A write to a file that nobody holds the lock of disturbs no transaction.
LEMMA NobodyInTx ==
  ASSUME StoreTypeOK, Locks, NEW f \in Files, lock[f] = NoProc
  PROVE  \A q \in Procs : at[q] \in InTx => file[q] # f
  BY MigrationAssumption DEF Locks

LEMMA BaseTableStep ==
  ASSUME StoreInv, NEW p \in Procs, BaseTable(p)
  PROVE  /\ StoreInv'
         /\ \A f \in Files :
              /\ disk'[f].admin = disk[f].admin /\ disk'[f].key = disk[f].key
              /\ disk[f].live = "full" => disk'[f].live = "full"
<1> DEFINE g == file[p]
           e == BaseStatement(disk[g])
<1>1. at[p] = "schema" /\ g \in Files /\ lock[g] = NoProc
  BY OpenFileKnown DEF StoreInv, BaseTable, CanWrite
<1>2. disk[g] \in Database
  BY <1>1 DEF StoreInv, StoreTypeOK
<1>3. /\ e \in Database
      /\ e.admin = disk[g].admin /\ e.key = disk[g].key /\ e.dangling = disk[g].dangling
      /\ e.recorded = disk[g].recorded /\ e.copy = disk[g].copy
      /\ e.applied = [disk[g].applied EXCEPT ![1] = @ + 1]
      /\ e.live = IF disk[g].applied[1] + 1 = RebuiltAt /\ disk[g].live = "absent"
                  THEN "empty" ELSE disk[g].live
  BY <1>2, WriteFields
<1>4. disk' = [disk EXCEPT ![g] = e] /\ disk' \in [Files -> Database]
  BY <1>1, <1>3 DEF BaseTable, StoreInv, StoreTypeOK
<1> HIDE DEF e
<1>5. \A f \in Files : disk'[f] = IF f = g THEN e ELSE disk[f]
  BY <1>4 DEF StoreInv, StoreTypeOK
<1>6. at' = at
  BY DEF BaseTable
<1>7. disk[g].applied[1] # BaseStatements
  <2>1. disk[g].applied[1] < BaseStatements /\ disk[g].applied[1] \in Nat
    BY <1>2, VersionFacts DEF BaseTable, Database
  <2> QED BY <2>1, MigrationAssumption
<1>8. lock' = lock /\ file' = file /\ version' = version /\ work' = work /\ warned' = warned
  BY DEF BaseTable
<1>9. \A q \in Procs : at[q] \in InTx => file[q] # g
  BY <1>1, NobodyInTx DEF StoreInv
<1>10. \A q \in Procs : at[q] # "closed" => file[q] \in Files
  BY OpenFileKnown DEF StoreInv
<1> HIDE DEF g
<1>a. StoreTypeOK'
  BY <1>4, <1>6, <1>8 DEF StoreInv, StoreTypeOK
<1>b. Locks'
  BY <1>1, <1>6, <1>8 DEF StoreInv, Locks, InTx, Statements
<1>c. WorkIsDisk'
  BY <1>5, <1>6, <1>8, <1>9, <1>10 DEF StoreInv, WorkIsDisk, WorkOf, InTx, Statements
<1>d. MigrationsAreAtomic'
  <2>1. /\ \A v \in 2..LastVersion : e.applied[v] = disk[g].applied[v]
        /\ e.recorded = disk[g].recorded /\ e.copy = disk[g].copy
    BY <1>2, <1>3, VersionFacts DEF Database
  <2>2. ASSUME NEW f \in Files
        PROVE  /\ \A v \in 2..LastVersion :
                    disk'[f].applied[v] = IF v \in disk'[f].recorded THEN 1 ELSE 0
               /\ disk'[f].copy = "absent"
    <3>1. CASE f = g
      <4>1. disk'[f] = e
        BY <1>5, <3>1
      <4>2. /\ \A v \in 2..LastVersion :
                 disk[g].applied[v] = IF v \in disk[g].recorded THEN 1 ELSE 0
            /\ disk[g].copy = "absent"
        BY <1>1 DEF StoreInv, MigrationsAreAtomic
      <4> QED BY <4>1, <4>2, <2>1
    <3>2. CASE f # g
      BY <1>5, <3>2 DEF StoreInv, MigrationsAreAtomic
    <3> QED BY <3>1, <3>2
  <2> QED BY <2>2 DEF MigrationsAreAtomic
<1>e. BaseFirst'
  <2>1. 1 \notin disk[g].recorded
    BY <1>1, <1>7 DEF StoreInv, BaseFirst
  <2> QED BY <1>3, <1>5, <2>1 DEF StoreInv, BaseFirst
<1>f. Progress'
  BY <1>3, <1>5, <1>6, <1>8, <1>10 DEF StoreInv, Progress, InTx, Statements
<1>g. Reported'
  BY <1>1, <1>3, <1>5, <1>6, <1>8 DEF StoreInv, Reported
<1>h. \A f \in Files :
        /\ disk'[f].admin = disk[f].admin /\ disk'[f].key = disk[f].key
        /\ disk[f].live = "full" => disk'[f].live = "full"
  BY <1>3, <1>5
<1> QED BY <1>a, <1>b, <1>c, <1>d, <1>e, <1>f, <1>g, <1>h DEF StoreInv

LEMMA RecordBaseStep ==
  ASSUME StoreInv, NEW p \in Procs, RecordBase(p)
  PROVE  /\ StoreInv'
         /\ \A f \in Files :
              /\ disk'[f].admin = disk[f].admin /\ disk'[f].key = disk[f].key
              /\ disk[f].live = "full" => disk'[f].live = "full"
<1> DEFINE g == file[p]
           e == [disk[g] EXCEPT !.recorded = @ \cup {1}]
<1>1. at[p] = "schema" /\ g \in Files /\ lock[g] = NoProc
  BY OpenFileKnown DEF StoreInv, RecordBase, CanWrite
<1>2. disk[g] \in Database
  BY <1>1 DEF StoreInv, StoreTypeOK
<1>3. /\ e \in Database
      /\ e.admin = disk[g].admin /\ e.key = disk[g].key /\ e.dangling = disk[g].dangling
      /\ e.recorded = disk[g].recorded \cup {1} /\ e.copy = disk[g].copy
      /\ e.applied = disk[g].applied /\ e.live = disk[g].live
  BY <1>2, WriteFields
<1>4. disk' = [disk EXCEPT ![g] = e]
  BY <1>1, <1>2 DEF RecordBase, StoreInv, StoreTypeOK
<1> HIDE DEF e
<1>5. \A f \in Files : disk'[f] = IF f = g THEN e ELSE disk[f]
  BY <1>4 DEF StoreInv, StoreTypeOK
<1>6. \A q \in Procs : /\ at'[q] = IF q = p THEN "count" ELSE at[q]
                       /\ version'[q] = IF q = p THEN 2 ELSE version[q]
  BY DEF RecordBase, StoreInv, StoreTypeOK
<1>7. at' \in [Procs -> Stages] /\ version' \in [Procs -> 2..LastVersion]
  BY MigrationAssumption DEF RecordBase, StoreInv, StoreTypeOK, Stages
<1>8. lock' = lock /\ file' = file /\ work' = work /\ warned' = warned
  BY DEF RecordBase
<1>9. \A q \in Procs : at[q] \in InTx => file[q] # g
  BY <1>1, NobodyInTx DEF StoreInv
<1>10. \A q \in Procs : at[q] # "closed" => file[q] \in Files
  BY OpenFileKnown DEF StoreInv
<1>11. disk[g].applied[1] = BaseStatements
  BY DEF RecordBase
<1> HIDE DEF g
<1>a. StoreTypeOK'
  BY <1>1, <1>3, <1>4, <1>7, <1>8 DEF StoreInv, StoreTypeOK
<1>b. Locks'
  BY <1>1, <1>6, <1>8 DEF StoreInv, Locks, InTx, Statements
<1>c. WorkIsDisk'
  <2>1. \A q \in Procs : at'[q] \in InTx => /\ q # p /\ at'[q] = at[q] /\ version'[q] = version[q]
                                            /\ disk'[file'[q]] = disk[file[q]]
    BY <1>5, <1>6, <1>8, <1>9, <1>10 DEF InTx, Statements
  <2> QED BY <1>8, <2>1 DEF StoreInv, WorkIsDisk, WorkOf
<1>d. MigrationsAreAtomic'
  <2>1. \A v \in 2..LastVersion : v \in e.recorded <=> v \in disk[g].recorded
    BY <1>3, VersionFacts
  <2>2. ASSUME NEW f \in Files
        PROVE  /\ \A v \in 2..LastVersion :
                    disk'[f].applied[v] = IF v \in disk'[f].recorded THEN 1 ELSE 0
               /\ disk'[f].copy = "absent"
    <3>1. CASE f = g
      <4>1. disk'[f] = e /\ e.applied = disk[g].applied /\ e.copy = disk[g].copy
        BY <1>3, <1>5, <3>1
      <4>2. /\ \A v \in 2..LastVersion :
                 disk[g].applied[v] = IF v \in disk[g].recorded THEN 1 ELSE 0
            /\ disk[g].copy = "absent"
        BY <1>1 DEF StoreInv, MigrationsAreAtomic
      <4> QED BY <4>1, <4>2, <2>1
    <3>2. CASE f # g
      BY <1>5, <3>2 DEF StoreInv, MigrationsAreAtomic
    <3> QED BY <3>1, <3>2
  <2> QED BY <2>2 DEF MigrationsAreAtomic
<1>e. BaseFirst'
  BY <1>3, <1>5, <1>11 DEF StoreInv, BaseFirst
<1>f. Progress'
  <2>1. \A q \in Procs : at'[q] # "closed" =>
          file'[q] \in Files /\ disk[file[q]].recorded \subseteq disk'[file'[q]].recorded
    BY <1>1, <1>3, <1>5, <1>6, <1>8, <1>10
  <2>2. 1..(version'[p] - 1) \subseteq disk'[file'[p]].recorded
    BY <1>1, <1>3, <1>5, <1>6, <1>8 DEF g
  <2>3. at'[p] = "count"
    BY <1>6
  <2>4. ASSUME NEW q \in Procs, q # p
        PROVE  /\ at'[q] \in InTx \cup {"count", "begin"} =>
                    1..(version'[q] - 1) \subseteq disk'[file'[q]].recorded
               /\ at'[q] = "fkcheck" => 1..version'[q] \subseteq disk'[file'[q]].recorded
               /\ at'[q] = "ready" => Versions \subseteq disk'[file'[q]].recorded
    BY <1>6, <2>1, <2>4 DEF StoreInv, Progress, InTx, Statements
  <2> QED BY <2>2, <2>3, <2>4 DEF Progress, InTx, Statements
<1>g. Reported'
  <2>1. 1 \notin Checked
    BY MigrationAssumption
  <2>2. \A f \in Files : /\ disk'[f].dangling = disk[f].dangling
                         /\ Checked \cap disk'[f].recorded = Checked \cap disk[f].recorded
    BY <1>3, <1>5, <2>1
  <2> QED BY <1>1, <1>6, <1>8, <2>2 DEF StoreInv, Reported
<1>h. \A f \in Files :
        /\ disk'[f].admin = disk[f].admin /\ disk'[f].key = disk[f].key
        /\ disk[f].live = "full" => disk'[f].live = "full"
  BY <1>3, <1>5
<1> QED BY <1>a, <1>b, <1>c, <1>d, <1>e, <1>f, <1>g, <1>h DEF StoreInv

\* A row written outside a transaction, by a process that keeps the store open
\* or closes it.
LEMMA RowStep ==
  ASSUME StoreInv, NEW p \in Procs, at[p] = "ready", CanWrite(p),
         NEW e \in Database,
         disk' = [disk EXCEPT ![file[p]] = e],
         e.dangling = disk[file[p]].dangling, e.recorded = disk[file[p]].recorded,
         e.copy = disk[file[p]].copy, e.applied = disk[file[p]].applied,
         UNCHANGED <<lock, version, work, warned>>,
         \/ UNCHANGED <<file, at>>
         \/ file' = [file EXCEPT ![p] = 0] /\ at' = [at EXCEPT ![p] = "closed"]
  PROVE  StoreInv'
<1> DEFINE g == file[p]
<1>1. g \in Files /\ lock[g] = NoProc
  BY OpenFileKnown DEF StoreInv, CanWrite
<1>5. \A f \in Files : disk'[f] = IF f = g THEN e ELSE disk[f]
  BY DEF StoreInv, StoreTypeOK
<1>6. \/ \A q \in Procs : at'[q] = at[q] /\ file'[q] = file[q]
      \/ \A q \in Procs : /\ at'[q] = IF q = p THEN "closed" ELSE at[q]
                          /\ file'[q] = IF q = p THEN 0 ELSE file[q]
  BY DEF StoreInv, StoreTypeOK
<1>7. at' \in [Procs -> Stages] /\ file' \in [Procs -> 0..MaxFiles]
  BY MigrationAssumption DEF StoreInv, StoreTypeOK, Stages
<1>9. \A q \in Procs : at[q] \in InTx => file[q] # g
  BY <1>1, NobodyInTx DEF StoreInv
<1>10. \A q \in Procs : at[q] # "closed" => file[q] \in Files
  BY OpenFileKnown DEF StoreInv
<1>11. ASSUME NEW q \in Procs, at'[q] # "closed"
       PROVE  /\ at'[q] = at[q] /\ file'[q] = file[q] /\ file'[q] \in Files
              /\ disk'[file'[q]].recorded = disk[file[q]].recorded
              /\ disk'[file'[q]].applied = disk[file[q]].applied
  BY <1>1, <1>5, <1>6, <1>10, <1>11
<1> HIDE DEF g
<1>a. StoreTypeOK'
  BY <1>1, <1>7 DEF StoreInv, StoreTypeOK, g
<1>b. Locks'
  BY <1>6 DEF StoreInv, Locks, InTx, Statements
<1>c. WorkIsDisk'
  <2>1. \A q \in Procs : at'[q] \in InTx => /\ at'[q] = at[q]
                                            /\ disk'[file'[q]] = disk[file[q]]
    BY <1>5, <1>6, <1>9, <1>10 DEF InTx, Statements
  <2> QED BY <2>1 DEF StoreInv, WorkIsDisk, WorkOf
<1>d. MigrationsAreAtomic'
  <2>1. ASSUME NEW f \in Files
        PROVE  /\ disk'[f].applied = disk[f].applied
               /\ disk'[f].recorded = disk[f].recorded
               /\ disk'[f].copy = disk[f].copy
    BY <1>5 DEF g
  <2> QED BY <2>1 DEF StoreInv, MigrationsAreAtomic
<1>e. BaseFirst'
  <2>1. ASSUME NEW f \in Files
        PROVE  /\ disk'[f].applied = disk[f].applied
               /\ disk'[f].recorded = disk[f].recorded
    BY <1>5 DEF g
  <2> QED BY <2>1, <1>11 DEF StoreInv, BaseFirst
<1>f. Progress'
  BY <1>11 DEF StoreInv, Progress, InTx, Statements
<1>g. Reported'
  <2>1. \A f \in Files : /\ disk'[f].dangling = disk[f].dangling
                         /\ disk'[f].recorded = disk[f].recorded
    BY <1>5 DEF g
  <2> QED BY <1>6, <2>1 DEF StoreInv, Reported
<1> QED BY <1>a, <1>b, <1>c, <1>d, <1>e, <1>f, <1>g DEF StoreInv

LEMMA CloseStoreStep ==
  ASSUME StoreInv, NEW p \in Procs, CloseStore(p)
  PROVE  StoreInv'
<1>1. \A f \in Files : lock'[f] = IF lock[f] = p THEN NoProc ELSE lock[f]
  BY DEF CloseStore, Unlock
<1>2. lock' \in [Files -> Procs \cup {NoProc}]
  BY DEF CloseStore, Unlock, StoreInv, StoreTypeOK
<1>3. \A q \in Procs : /\ at'[q] = IF q = p THEN "closed" ELSE at[q]
                       /\ file'[q] = IF q = p THEN 0 ELSE file[q]
  BY DEF CloseStore, StoreInv, StoreTypeOK
<1>4. at' \in [Procs -> Stages] /\ file' \in [Procs -> 0..MaxFiles]
  BY MigrationAssumption DEF CloseStore, StoreInv, StoreTypeOK, Stages
<1>5. disk' = disk /\ warned' = (warned \/ at[p] = "fkcheck")
  BY DEF CloseStore
<1>7. version' \in [Procs -> 2..LastVersion] /\ work' \in [Procs -> Database]
  BY NewFields, MigrationAssumption DEF CloseStore, StoreInv, StoreTypeOK
<1>8. \A q \in Procs : q # p => version'[q] = version[q] /\ work'[q] = work[q]
  BY DEF CloseStore, StoreInv, StoreTypeOK
<1>6. warned' \in BOOLEAN
  BY <1>5
<1>10. \A q \in Procs : at[q] # "closed" => file[q] \in Files
  BY OpenFileKnown DEF StoreInv
<1>a. StoreTypeOK'
  BY <1>2, <1>4, <1>5, <1>6, <1>7 DEF StoreInv, StoreTypeOK
<1>b. Locks'
  BY <1>1, <1>3, <1>10, MigrationAssumption DEF StoreInv, Locks, InTx, Statements
<1>c. WorkIsDisk'
  BY <1>3, <1>5, <1>8 DEF StoreInv, WorkIsDisk, WorkOf, InTx, Statements
<1>d. MigrationsAreAtomic' /\ BaseFirst'
  BY <1>3, <1>5 DEF StoreInv, MigrationsAreAtomic, BaseFirst
<1>f. Progress'
  BY <1>3, <1>5, <1>8 DEF StoreInv, Progress, InTx, Statements
<1>g. Reported'
  <2>1. CASE at[p] = "fkcheck"
    BY <1>5, <2>1 DEF Reported
  <2>2. CASE at[p] # "fkcheck"
    <3>1. \A q \in Procs : at[q] = "fkcheck" => at'[q] = "fkcheck" /\ file'[q] = file[q]
      BY <1>3, <2>2
    <3>2. warned => warned'
      BY <1>5
    <3> QED BY <1>5, <3>1, <3>2 DEF StoreInv, Reported
  <2> QED BY <2>1, <2>2
<1> QED BY <1>a, <1>b, <1>c, <1>d, <1>f, <1>g DEF StoreInv

LEMMA OpenFileStep ==
  ASSUME StoreInv, NEW p \in Procs, NEW f \in Files, OpenFile(p, f)
  PROVE  StoreInv'
<1>3. \A q \in Procs : /\ at'[q] = IF q = p THEN "schema" ELSE at[q]
                       /\ file'[q] = IF q = p THEN f ELSE file[q]
  BY DEF OpenFile, StoreInv, StoreTypeOK
<1>4. at' \in [Procs -> Stages] /\ file' \in [Procs -> 0..MaxFiles]
  BY MigrationAssumption DEF OpenFile, StoreInv, StoreTypeOK, Stages, Files
<1>5. at[p] = "closed" /\ disk' = disk /\ version' = version /\ work' = work
      /\ warned' = warned /\ lock' = lock
  BY DEF OpenFile
<1>a. StoreTypeOK'
  BY <1>4, <1>5 DEF StoreInv, StoreTypeOK
<1>b. Locks'
  BY <1>3, <1>5, VersionFacts DEF StoreInv, Locks, InTx, Statements
<1>c. WorkIsDisk'
  BY <1>3, <1>5 DEF StoreInv, WorkIsDisk, WorkOf, InTx, Statements
<1>d. MigrationsAreAtomic' /\ BaseFirst'
  BY <1>3, <1>5 DEF StoreInv, MigrationsAreAtomic, BaseFirst
<1>f. Progress'
  BY <1>3, <1>5 DEF StoreInv, Progress, InTx, Statements
<1>g. Reported'
  BY <1>3, <1>5 DEF StoreInv, Reported
<1> QED BY <1>a, <1>b, <1>c, <1>d, <1>f, <1>g DEF StoreInv

LEMMA StoreUnchanged ==
  ASSUME StoreInv, UNCHANGED storeVars
  PROVE  StoreInv'
<1>1. /\ disk' = disk /\ lock' = lock /\ file' = file /\ at' = at
      /\ version' = version /\ work' = work /\ warned' = warned
  BY DEF storeVars
<1>2. StoreTypeOK' /\ Locks'
  BY <1>1 DEF StoreInv, StoreTypeOK, Locks
<1>3. WorkIsDisk'
  BY <1>1 DEF StoreInv, WorkIsDisk, WorkOf
<1>4. MigrationsAreAtomic' /\ BaseFirst' /\ Progress' /\ Reported'
  BY <1>1 DEF StoreInv, MigrationsAreAtomic, BaseFirst, Progress, Reported
<1> QED BY <1>2, <1>3, <1>4 DEF StoreInv

\* On to the next version, once the current one is recorded.
LEMMA AdvanceStep ==
  ASSUME StoreInv, NEW p \in Procs, at[p] \in {"count", "fkcheck"}, Advance(p),
         1..version[p] \subseteq disk[file[p]].recorded,
         at[p] = "fkcheck" => ~disk[file[p]].dangling,
         UNCHANGED <<disk, lock, file, work, warned>>
  PROVE  StoreInv'
<1>1. version[p] \in 2..LastVersion
  BY DEF StoreInv, StoreTypeOK
<1>2. \A q \in Procs : q # p => at'[q] = at[q] /\ version'[q] = version[q]
  BY DEF Advance, StoreInv, StoreTypeOK
<1>3. \/ version[p] = LastVersion /\ at'[p] = "ready" /\ version'[p] = version[p]
      \/ version[p] # LastVersion /\ at'[p] = "count" /\ version'[p] = version[p] + 1
  BY DEF Advance, StoreInv, StoreTypeOK
<1>4. at' \in [Procs -> Stages] /\ version' \in [Procs -> 2..LastVersion]
  <2>1. CASE version[p] = LastVersion
    BY <2>1 DEF Advance, StoreInv, StoreTypeOK, Stages
  <2>2. CASE version[p] # LastVersion
    <3>1. version[p] + 1 \in 2..LastVersion
      BY <1>1, <2>2, MigrationAssumption
    <3> QED BY <2>2, <3>1 DEF Advance, StoreInv, StoreTypeOK, Stages
  <2> QED BY <2>1, <2>2
<1>a. StoreTypeOK'
  BY <1>4 DEF StoreInv, StoreTypeOK
<1>b. Locks'
  BY <1>2, <1>3 DEF StoreInv, Locks, InTx, Statements
<1>c. WorkIsDisk'
  <2>1. \A q \in Procs : at'[q] \in InTx => q # p
    BY <1>3 DEF InTx, Statements
  <2> QED BY <1>2, <2>1 DEF StoreInv, WorkIsDisk, WorkOf
<1>d. MigrationsAreAtomic' /\ BaseFirst'
  BY <1>2, <1>3 DEF StoreInv, MigrationsAreAtomic, BaseFirst
<1>f. Progress'
  <2>1. /\ at'[p] = "count" => 1..(version'[p] - 1) \subseteq disk[file[p]].recorded
        /\ at'[p] = "ready" => Versions \subseteq disk[file[p]].recorded
    BY <1>1, <1>3 DEF Versions
  <2> QED BY <1>2, <1>3, <2>1 DEF StoreInv, Progress, InTx, Statements
<1>g. Reported'
  BY <1>2 DEF StoreInv, Reported
<1> QED BY <1>a, <1>b, <1>c, <1>d, <1>f, <1>g DEF StoreInv

LEMMA CountStep ==
  ASSUME StoreInv, NEW p \in Procs, Count(p)
  PROVE  StoreInv'
<1>1. at[p] = "count" /\ UNCHANGED <<disk, lock, file, work, warned>>
  BY DEF Count
<1>2. CASE version[p] \in disk[file[p]].recorded
  <2>1. version[p] \in Nat /\ 1..(version[p] - 1) \subseteq disk[file[p]].recorded
    BY <1>1 DEF StoreInv, StoreTypeOK, Progress
  <2>2. 1..version[p] \subseteq disk[file[p]].recorded
    BY <1>2, <2>1
  <2>3. Advance(p)
    BY <1>2 DEF Count
  <2> QED BY <1>1, <2>2, <2>3, AdvanceStep
<1>3. CASE version[p] \notin disk[file[p]].recorded
  <2>1. at' = [at EXCEPT ![p] = "begin"] /\ version' = version
    BY <1>3 DEF Count
  <2>2. \A q \in Procs : at'[q] = IF q = p THEN "begin" ELSE at[q]
    BY <2>1 DEF StoreInv, StoreTypeOK
  <2>a. StoreTypeOK'
    BY <1>1, <2>1 DEF StoreInv, StoreTypeOK, Stages
  <2>b. Locks'
    BY <1>1, <2>2 DEF StoreInv, Locks, InTx, Statements
  <2>c. WorkIsDisk'
    BY <1>1, <2>1, <2>2 DEF StoreInv, WorkIsDisk, WorkOf, InTx, Statements
  <2>d. MigrationsAreAtomic' /\ BaseFirst'
    BY <1>1, <2>2 DEF StoreInv, MigrationsAreAtomic, BaseFirst
  <2>f. Progress'
    BY <1>1, <2>1, <2>2 DEF StoreInv, Progress, InTx, Statements
  <2>g. Reported'
    BY <1>1, <2>2 DEF StoreInv, Reported
  <2> QED BY <2>a, <2>b, <2>c, <2>d, <2>f, <2>g DEF StoreInv
<1> QED BY <1>2, <1>3

LEMMA FkCheckStep ==
  ASSUME StoreInv, NEW p \in Procs, FkCheckPasses(p)
  PROVE  StoreInv'
<1>1. 1..version[p] \subseteq disk[file[p]].recorded
  BY DEF StoreInv, Progress, FkCheckPasses
<1> QED BY <1>1, AdvanceStep DEF FkCheckPasses

LEMMA BeginStep ==
  ASSUME StoreInv, NEW p \in Procs, Begin(p)
  PROVE  StoreInv'
<1>1. at[p] = "begin" /\ file[p] \in Files /\ lock[file[p]] = NoProc
  BY OpenFileKnown DEF StoreInv, Begin, CanWrite
<1>2. First(version[p]) \in {"copy", "create"}
  BY DEF First
<1>3. \A q \in Procs : /\ at'[q] = IF q = p THEN First(version[p]) ELSE at[q]
                       /\ work'[q] = IF q = p THEN disk[file[p]] ELSE work[q]
  BY DEF Begin, StoreInv, StoreTypeOK
<1>4. \A f \in Files : lock'[f] = IF f = file[p] THEN p ELSE lock[f]
  BY DEF Begin, StoreInv, StoreTypeOK
<1>5. disk' = disk /\ file' = file /\ version' = version /\ warned' = warned
  BY DEF Begin
<1>6. First(version[p]) \in Stages
  BY <1>2 DEF Stages, Statements
<1>10. \A q \in Procs : at[q] # "closed" => file[q] \in Files
  BY OpenFileKnown DEF StoreInv
<1>a. StoreTypeOK'
  BY <1>1, <1>6, <1>5 DEF Begin, StoreInv, StoreTypeOK
<1>b. Locks'
  BY <1>1, <1>2, <1>3, <1>4, <1>5, <1>10, MigrationAssumption
  DEF StoreInv, Locks, InTx, Statements
<1>c. WorkIsDisk'
  BY <1>2, <1>3, <1>5 DEF StoreInv, WorkIsDisk, WorkOf, InTx, Statements
<1>d. MigrationsAreAtomic' /\ BaseFirst'
  BY <1>2, <1>3, <1>5 DEF StoreInv, MigrationsAreAtomic, BaseFirst
<1>f. Progress'
  BY <1>1, <1>2, <1>3, <1>5 DEF StoreInv, Progress, InTx, Statements
<1>g. Reported'
  BY <1>1, <1>2, <1>3, <1>5 DEF StoreInv, Reported
<1> QED BY <1>a, <1>b, <1>c, <1>d, <1>f, <1>g DEF StoreInv

\* A statement keeps the account of what its transaction has done.
LEMMA StatementWork ==
  ASSUME StoreInv, NEW p \in Procs, Statement(p)
  PROVE  WorkOf(p, work[p], disk[file[p]])'
<1> DEFINE w == work[p]
           d == disk[file[p]]
           v == version[p]
           s == at[p]
           e == Effect(w, v, s)
<1>1. s \in Statements /\ file[p] \in Files
  BY OpenFileKnown DEF StoreInv, Statement, Statements
<1>2. w \in Database /\ v \in Versions
  BY VersionFacts DEF StoreInv, StoreTypeOK
<1>4. /\ work'[p] = e /\ at'[p] = After(s) /\ version'[p] = v
      /\ disk'[file'[p]] = d
  BY DEF Statement, Execute, StoreInv, StoreTypeOK
<1>5. s = "record" => v \notin w.recorded
  BY DEF Statement, Refused
<1>6. d.copy = "absent"
  BY <1>1 DEF StoreInv, MigrationsAreAtomic
<1>7. /\ w.admin = d.admin /\ w.key = d.key /\ w.dangling = d.dangling
      /\ s \in {"copy", "create"} =>
           w.applied = d.applied /\ w.recorded = d.recorded
             /\ w.live = d.live /\ w.copy = d.copy
      /\ s = "drop" =>
           w.applied = d.applied /\ w.recorded = d.recorded
             /\ w.live = d.live /\ w.copy = d.live
      /\ s = "rename" =>
           w.applied = d.applied /\ w.recorded = d.recorded /\ w.copy = d.live
      /\ s = "record" =>
           w.applied = [d.applied EXCEPT ![v] = @ + 1]
             /\ w.live = d.live /\ w.copy = "absent" /\ w.recorded = d.recorded
  BY <1>1 DEF StoreInv, WorkIsDisk, WorkOf, InTx
<1> HIDE DEF w, d, v, s
<1>3. /\ e.admin = w.admin /\ e.key = w.key /\ e.dangling = w.dangling
      /\ e.applied = IF s \in {"rename", "create"} THEN [w.applied EXCEPT ![v] = @ + 1]
                                                   ELSE w.applied
      /\ e.recorded = IF s = "record" THEN w.recorded \cup {v} ELSE w.recorded
      /\ e.live = IF s = "drop" THEN "absent" ELSE IF s = "rename" THEN w.copy ELSE w.live
      /\ e.copy = IF s = "copy" THEN w.live ELSE IF s = "rename" THEN "absent" ELSE w.copy
  BY <1>1, <1>2, EffectFields
<1> HIDE DEF e
<1>8. CASE s = "copy"
  BY <1>3, <1>4, <1>6, <1>7, <1>8 DEF WorkOf, After
<1>9. CASE s = "drop"
  BY <1>3, <1>4, <1>6, <1>7, <1>9 DEF WorkOf, After
<1>10. CASE s = "rename"
  BY <1>3, <1>4, <1>6, <1>7, <1>10 DEF WorkOf, After
<1>11. CASE s = "create"
  BY <1>3, <1>4, <1>6, <1>7, <1>11 DEF WorkOf, After
<1>12. CASE s = "record"
  BY <1>3, <1>4, <1>5, <1>6, <1>7, <1>12 DEF WorkOf, After
<1> QED BY <1>1, <1>8, <1>9, <1>10, <1>11, <1>12 DEF Statements

LEMMA StatementStep ==
  ASSUME StoreInv, NEW p \in Procs, Statement(p)
  PROVE  StoreInv'
<1>1. at[p] \in Statements
  BY DEF Statement
<1>2. After(at[p]) \in InTx \ {"copy", "create"} /\ After(at[p]) \in Stages
  BY <1>1 DEF Statements, After, InTx, Stages
<1>3. \A q \in Procs : /\ at'[q] = IF q = p THEN After(at[p]) ELSE at[q]
                       /\ q # p => work'[q] = work[q]
  BY DEF Statement, Execute, StoreInv, StoreTypeOK
<1>4. lock' = lock /\ file' = file /\ version' = version /\ warned' = warned /\ disk' = disk
  BY DEF Statement, Execute
<1>5. work' \in [Procs -> Database]
  <2>1. work[p] \in Database /\ version[p] \in Versions
    BY VersionFacts DEF StoreInv, StoreTypeOK
  <2>2. Effect(work[p], version[p], at[p]) \in Database
    BY <1>1, <2>1, EffectFields
  <2> QED BY <2>2 DEF Statement, Execute, StoreInv, StoreTypeOK
<1>6. at' \in [Procs -> Stages]
  BY <1>2 DEF Statement, StoreInv, StoreTypeOK
<1>a. StoreTypeOK'
  BY <1>4, <1>5, <1>6 DEF StoreInv, StoreTypeOK
<1>b. Locks'
  BY <1>1, <1>2, <1>3, <1>4 DEF StoreInv, Locks, InTx, Statements
<1>c. WorkIsDisk'
  <2>1. ASSUME NEW q \in Procs, q # p, at'[q] \in InTx
        PROVE  WorkOf(q, work[q], disk[file[q]])'
    BY <1>3, <1>4, <2>1 DEF StoreInv, WorkIsDisk, WorkOf
  <2> QED BY <2>1, StatementWork DEF WorkIsDisk
<1>d. MigrationsAreAtomic' /\ BaseFirst'
  BY <1>2, <1>3, <1>4 DEF StoreInv, MigrationsAreAtomic, BaseFirst, InTx, Statements
<1>f. Progress'
  BY <1>1, <1>2, <1>3, <1>4 DEF StoreInv, Progress, InTx, Statements
<1>g. Reported'
  BY <1>1, <1>2, <1>3, <1>4 DEF StoreInv, Reported, InTx, Statements
<1> QED BY <1>a, <1>b, <1>c, <1>d, <1>f, <1>g DEF StoreInv

LEMMA CommitStep ==
  ASSUME StoreInv, NEW p \in Procs, Commit(p)
  PROVE  /\ StoreInv'
         /\ \A f \in Files :
              /\ disk'[f].admin = disk[f].admin /\ disk'[f].key = disk[f].key
              /\ disk[f].live = "full" => disk'[f].live = "full"
<1> DEFINE g == file[p]
           e == work[p]
           v == version[p]
<1>1. at[p] = "commit" /\ g \in Files /\ lock[g] = p
  BY OpenFileKnown DEF StoreInv, Commit, Locks, InTx
<1>2. disk[g] \in Database /\ e \in Database /\ v \in 2..LastVersion
  BY <1>1 DEF StoreInv, StoreTypeOK
<1>3. /\ e.admin = disk[g].admin /\ e.key = disk[g].key /\ e.dangling = disk[g].dangling
      /\ e.applied = [disk[g].applied EXCEPT ![v] = @ + 1]
      /\ e.live = disk[g].live /\ e.copy = "absent"
      /\ e.recorded = disk[g].recorded \cup {v} /\ v \notin disk[g].recorded
  BY <1>1 DEF StoreInv, WorkIsDisk, WorkOf, InTx
<1>4. \A f \in Files : /\ disk'[f] = IF f = g THEN e ELSE disk[f]
                       /\ lock'[f] = IF f = g THEN NoProc ELSE lock[f]
  BY DEF Commit, StoreInv, StoreTypeOK
<1>5. disk' \in [Files -> Database] /\ lock' \in [Files -> Procs \cup {NoProc}]
  BY <1>2 DEF Commit, StoreInv, StoreTypeOK
<1>6. \A q \in Procs : q # p => at'[q] = at[q] /\ version'[q] = version[q]
  BY DEF Commit, Advance, StoreInv, StoreTypeOK
<1>7. \/ v \in Checked /\ at'[p] = "fkcheck" /\ version'[p] = v
      \/ v \notin Checked /\ v = LastVersion /\ at'[p] = "ready" /\ version'[p] = v
      \/ v \notin Checked /\ v # LastVersion /\ at'[p] = "count" /\ version'[p] = v + 1
  BY DEF Commit, Advance, StoreInv, StoreTypeOK
<1>8. at' \in [Procs -> Stages] /\ version' \in [Procs -> 2..LastVersion]
  <2>1. CASE v \in Checked \/ v = LastVersion
    BY <2>1 DEF Commit, Advance, StoreInv, StoreTypeOK, Stages
  <2>2. CASE v \notin Checked /\ v # LastVersion
    <3>1. v + 1 \in 2..LastVersion
      BY <1>2, <2>2, MigrationAssumption
    <3> QED BY <2>2, <3>1 DEF Commit, Advance, StoreInv, StoreTypeOK, Stages
  <2> QED BY <2>1, <2>2
<1>9. file' = file /\ warned' = warned
  BY DEF Commit
<1>13. /\ work' \in [Procs -> Database]
       /\ \A q \in Procs : q # p => work'[q] = work[q]
  BY NewFields DEF Commit, StoreInv, StoreTypeOK
<1>10. \A q \in Procs : at[q] # "closed" => file[q] \in Files
  BY OpenFileKnown DEF StoreInv
<1>11. \A q \in Procs : q # p /\ at[q] \in InTx => file[q] # g
  BY <1>1 DEF StoreInv, Locks
<1>12. at'[p] \in {"fkcheck", "ready", "count"}
  BY <1>7
<1> HIDE DEF e, v
<1>a. StoreTypeOK'
  BY <1>5, <1>8, <1>9, <1>13 DEF StoreInv, StoreTypeOK
<1>b. Locks'
  BY <1>1, <1>4, <1>6, <1>9, <1>10, <1>11, <1>12, MigrationAssumption
  DEF StoreInv, Locks, InTx, Statements
<1> HIDE DEF g
<1>c. WorkIsDisk'
  <2>1. \A q \in Procs : at'[q] \in InTx =>
          /\ q # p /\ at'[q] = at[q] /\ version'[q] = version[q]
          /\ disk'[file'[q]] = disk[file[q]] /\ work'[q] = work[q]
    BY <1>4, <1>6, <1>9, <1>10, <1>11, <1>12, <1>13 DEF InTx, Statements
  <2> QED BY <2>1 DEF StoreInv, WorkIsDisk, WorkOf
<1>d. MigrationsAreAtomic'
  <2>1. /\ \A u \in 2..LastVersion :
             disk[g].applied[u] = IF u \in disk[g].recorded THEN 1 ELSE 0
        /\ disk[g].applied \in [Versions -> Nat]
    BY <1>1, <1>2 DEF StoreInv, MigrationsAreAtomic, Database
  <2>2. ASSUME NEW u \in 2..LastVersion
        PROVE  e.applied[u] = IF u \in e.recorded THEN 1 ELSE 0
    <3>1. u \in Versions
      BY VersionFacts
    <3>2. CASE u = v
      BY <1>3, <2>1, <3>1, <3>2
    <3>3. CASE u # v
      BY <1>3, <2>1, <3>1, <3>3
    <3> QED BY <3>2, <3>3
  <2>3. ASSUME NEW f \in Files
        PROVE  /\ \A u \in 2..LastVersion :
                    disk'[f].applied[u] = IF u \in disk'[f].recorded THEN 1 ELSE 0
               /\ disk'[f].copy = "absent"
    <3>1. CASE f = g
      BY <1>3, <1>4, <2>2, <3>1
    <3>2. CASE f # g
      BY <1>4, <3>2 DEF StoreInv, MigrationsAreAtomic
    <3> QED BY <3>1, <3>2
  <2> QED BY <2>3 DEF MigrationsAreAtomic
<1>e. BaseFirst'
  <2>1. v # 1 /\ disk[g].applied \in [Versions -> Nat] /\ 1 \in Versions
    BY <1>2, VersionFacts DEF Database
  <2>2. \A f \in Files : /\ disk'[f].applied[1] = disk[f].applied[1]
                         /\ 1 \in disk'[f].recorded => 1 \in disk[f].recorded
    BY <1>3, <1>4, <2>1
  <2> QED BY <1>6, <1>9, <1>10, <1>12, <2>2 DEF StoreInv, BaseFirst
<1>f. Progress'
  <2>1. \A q \in Procs : at[q] # "closed" =>
          disk[file[q]].recorded \subseteq disk'[file'[q]].recorded
    BY <1>1, <1>3, <1>4, <1>9, <1>10
  <2>2. 1..(v - 1) \subseteq disk[g].recorded
    BY <1>1 DEF StoreInv, Progress, InTx, g, v
  <2>3. 1..v \subseteq disk'[file'[p]].recorded
    BY <1>1, <1>2, <1>3, <1>4, <1>9, <2>2 DEF g
  <2>4. /\ at'[p] = "count" => 1..(version'[p] - 1) \subseteq disk'[file'[p]].recorded
        /\ at'[p] = "fkcheck" => 1..version'[p] \subseteq disk'[file'[p]].recorded
        /\ at'[p] = "ready" => Versions \subseteq disk'[file'[p]].recorded
    BY <1>2, <1>7, <2>3 DEF Versions
  <2>5. ASSUME NEW q \in Procs, q # p
        PROVE  /\ at'[q] \in InTx \cup {"count", "begin"} =>
                    1..(version'[q] - 1) \subseteq disk'[file'[q]].recorded
               /\ at'[q] = "fkcheck" => 1..version'[q] \subseteq disk'[file'[q]].recorded
               /\ at'[q] = "ready" => Versions \subseteq disk'[file'[q]].recorded
    BY <1>6, <2>1, <2>5 DEF StoreInv, Progress, InTx, Statements
  <2> QED BY <1>12, <2>4, <2>5 DEF Progress, InTx, Statements
<1>g. Reported'
  <2>1. CASE v \in Checked
    <3>1. at'[p] = "fkcheck" /\ file'[p] = g
      BY <1>7, <1>9, <2>1 DEF g
    <3> QED BY <1>1, <1>4, <1>6, <1>9, <3>1 DEF StoreInv, Reported
  <2>2. CASE v \notin Checked
    <3>1. \A f \in Files : /\ disk'[f].dangling = disk[f].dangling
                           /\ Checked \cap disk'[f].recorded = Checked \cap disk[f].recorded
      BY <1>3, <1>4, <2>2
    <3> QED BY <1>1, <1>6, <1>9, <3>1 DEF StoreInv, Reported
  <2> QED BY <2>1, <2>2
<1>h. \A f \in Files :
        /\ disk'[f].admin = disk[f].admin /\ disk'[f].key = disk[f].key
        /\ disk[f].live = "full" => disk'[f].live = "full"
  BY <1>3, <1>4
<1> QED BY <1>a, <1>b, <1>c, <1>d, <1>e, <1>f, <1>g, <1>h DEF StoreInv

\* A step of Open preserves the invariant, writes no account and loses no row.
LEMMA OpenStepInv ==
  ASSUME StoreInv, NEW p \in Procs, OpenStep(p)
  PROVE  /\ StoreInv'
         /\ \A f \in Files :
              /\ disk'[f].admin = disk[f].admin /\ disk'[f].key = disk[f].key
              /\ disk[f].live = "full" => disk'[f].live = "full"
<1>1. CASE BaseTable(p)
  BY <1>1, BaseTableStep
<1>2. CASE RecordBase(p)
  BY <1>2, RecordBaseStep
<1>3. CASE Count(p)
  BY <1>3, CountStep DEF Count
<1>4. CASE Begin(p)
  BY <1>4, BeginStep DEF Begin
<1>5. CASE Statement(p)
  BY <1>5, StatementStep DEF Statement, Execute
<1>6. CASE Commit(p)
  BY <1>6, CommitStep
<1>7. CASE FkCheckPasses(p)
  BY <1>7, FkCheckStep DEF FkCheckPasses
<1> QED BY <1>1, <1>2, <1>3, <1>4, <1>5, <1>6, <1>7 DEF OpenStep

\* Which processes a step of Open moves, and what it leaves alone.
LEMMA OpenStepFrame ==
  ASSUME StoreInv, NEW p \in Procs, OpenStep(p)
  PROVE  /\ at[p] \notin {"closed", "ready"} /\ at'[p] # "closed"
         /\ \A q \in Procs : q # p => at'[q] = at[q]
         /\ file' = file /\ warned' = warned
<1>1. CASE BaseTable(p)
  BY <1>1 DEF BaseTable, StoreInv, StoreTypeOK
<1>2. CASE RecordBase(p)
  BY <1>2 DEF RecordBase, StoreInv, StoreTypeOK
<1>3. CASE Count(p)
  BY <1>3 DEF Count, Advance, StoreInv, StoreTypeOK
<1>4. CASE Begin(p)
  BY <1>4 DEF Begin, First, StoreInv, StoreTypeOK
<1>5. CASE Statement(p)
  BY <1>5 DEF Statement, Statements, After, StoreInv, StoreTypeOK
<1>6. CASE Commit(p)
  BY <1>6 DEF Commit, Advance, StoreInv, StoreTypeOK
<1>7. CASE FkCheckPasses(p)
  BY <1>7 DEF FkCheckPasses, Advance, StoreInv, StoreTypeOK
<1> QED BY <1>1, <1>2, <1>3, <1>4, <1>5, <1>6, <1>7 DEF OpenStep

-----------------------------------------------------------------------------
(* The initial states.                                                     *)

LEMMA OldFields ==
  ASSUME NEW b \in BOOLEAN
  PROVE  /\ OldDatabase(b) \in Database
         /\ OldDatabase(b).applied = [v \in Versions |-> IF v = 1 THEN BaseStatements ELSE 0]
         /\ OldDatabase(b).recorded = {1}
         /\ OldDatabase(b).copy = "absent" /\ OldDatabase(b).key = TRUE
<1>1. [v \in Versions |-> IF v = 1 THEN BaseStatements ELSE 0] \in [Versions -> Nat]
  BY MigrationAssumption
<1>2. {1} \subseteq Versions
  BY VersionFacts
<1> QED BY <1>1, <1>2 DEF OldDatabase, Database, Contents

\* A store that nobody has open, on databases that no version but the first
\* was applied to.
LEMMA StoreInitInv ==
  ASSUME NEW d \in [Files -> Database], StoreInit(d),
         \A f \in Files :
           \/ d[f] = NewDatabase
           \/ d[f] = OldDatabase(TRUE) \/ d[f] = OldDatabase(FALSE)
  PROVE  StoreInv
<1>1. \A f \in Files :
        /\ d[f].recorded \subseteq {1} /\ d[f].copy = "absent"
        /\ \A v \in 2..LastVersion : d[f].applied[v] = 0
        /\ 1 \in d[f].recorded => d[f].applied[1] = BaseStatements
  <2> SUFFICES ASSUME NEW f \in Files
               PROVE  /\ d[f].recorded \subseteq {1} /\ d[f].copy = "absent"
                      /\ \A v \in 2..LastVersion : d[f].applied[v] = 0
                      /\ 1 \in d[f].recorded => d[f].applied[1] = BaseStatements
    OBVIOUS
  <2>1. CASE d[f] = NewDatabase
    BY <2>1, NewFields, VersionFacts
  <2>2. ASSUME NEW b \in BOOLEAN, d[f] = OldDatabase(b)
        PROVE  /\ d[f].recorded \subseteq {1} /\ d[f].copy = "absent"
               /\ \A v \in 2..LastVersion : d[f].applied[v] = 0
               /\ 1 \in d[f].recorded => d[f].applied[1] = BaseStatements
    <3>1. /\ d[f].applied = [v \in Versions |-> IF v = 1 THEN BaseStatements ELSE 0]
          /\ d[f].recorded = {1} /\ d[f].copy = "absent"
      BY <2>2, OldFields
    <3> QED BY <3>1, VersionFacts
  <2> QED BY <2>1, <2>2
<1>2. StoreTypeOK
  <2>1. disk \in [Files -> Database] /\ work \in [Procs -> Database]
    BY NewFields DEF StoreInit
  <2>2. lock \in [Files -> Procs \cup {NoProc}] /\ at \in [Procs -> Stages]
    BY DEF StoreInit, Stages
  <2>3. file \in [Procs -> 0..MaxFiles] /\ version \in [Procs -> 2..LastVersion]
    BY MigrationAssumption DEF StoreInit
  <2>4. warned \in BOOLEAN
    BY DEF StoreInit
  <2> QED BY <2>1, <2>2, <2>3, <2>4 DEF StoreTypeOK
<1>3. \A p \in Procs : at[p] = "closed" /\ file[p] = 0
  BY DEF StoreInit
<1>4. Locks
  BY <1>3, MigrationAssumption DEF StoreInit, Locks, InTx, Statements
<1>5. WorkIsDisk /\ Progress
  BY <1>3 DEF WorkIsDisk, Progress, InTx, Statements
<1>6. MigrationsAreAtomic
  BY <1>1, VersionFacts DEF StoreInit, MigrationsAreAtomic
<1>7. BaseFirst
  BY <1>1, <1>3 DEF StoreInit, BaseFirst
<1>8. Reported
  BY <1>1, MigrationAssumption DEF StoreInit, Reported
<1> QED BY <1>2, <1>4, <1>5, <1>6, <1>7, <1>8 DEF StoreInv

LEMMA InitInv ==
  ASSUME Init
  PROVE  IInv
<1>1. PICK d \in [Files -> Database] :
        /\ StoreInit(d)
        /\ \A f \in Files : \/ d[f] = NewDatabase
                            \/ d[f] = OldDatabase(TRUE) \/ d[f] = OldDatabase(FALSE)
        /\ \/ /\ fs = [n \in Names |-> "absent"]
              /\ dbPath = 0 /\ nfiles = 0 /\ unit = FALSE
              /\ \A f \in Files : d[f] = NewDatabase
           \/ /\ fs = [n \in Names |-> "written"]
              /\ dbPath = 1 /\ nfiles = 1 /\ unit = TRUE
              /\ \A f \in Files : f # 1 => d[f] = NewDatabase
              /\ d[1] = OldDatabase(TRUE) \/ d[1] = OldDatabase(FALSE)
  <2>1. CASE /\ fs = [n \in Names |-> "absent"]
             /\ dbPath = 0 /\ nfiles = 0 /\ unit = FALSE
             /\ StoreInit([f \in Files |-> NewDatabase])
    <3> DEFINE d == [f \in Files |-> NewDatabase]
    <3>1. d \in [Files -> Database] /\ \A f \in Files : d[f] = NewDatabase
      BY NewFields
    <3> HIDE DEF d
    <3> QED BY <2>1, <3>1 DEF d
  <2>2. CASE /\ fs = [n \in Names |-> "written"]
             /\ dbPath = 1 /\ nfiles = 1 /\ unit = TRUE
             /\ \E dangling \in BOOLEAN :
                  StoreInit([[f \in Files |-> NewDatabase] EXCEPT
                               ![1] = OldDatabase(dangling)])
    <3>1. PICK b \in BOOLEAN : StoreInit([[f \in Files |-> NewDatabase] EXCEPT
                                            ![1] = OldDatabase(b)])
      BY <2>2
    <3> DEFINE d == [[f \in Files |-> NewDatabase] EXCEPT ![1] = OldDatabase(b)]
    <3>2. d \in [Files -> Database] /\ \A f \in Files : f # 1 => d[f] = NewDatabase
      BY NewFields, OldFields
    <3>3. d[1] = OldDatabase(b)
      BY VersionFacts
    <3>4. d[1] = OldDatabase(TRUE) \/ d[1] = OldDatabase(FALSE)
      BY <3>3
    <3> HIDE DEF d
    <3> QED BY <2>2, <3>1, <3>2, <3>4 DEF d
  <2> QED BY <2>1, <2>2 DEF Init
<1>2. StoreInv
  BY <1>1, StoreInitInv
<1>3. /\ pc = [p \in Procs |-> "idle"] /\ job = [p \in Procs |-> "init"]
      /\ cur = [p \in Procs |-> "cfg"] /\ starts = 0
      /\ killed = FALSE /\ overlapped = FALSE /\ cfgStayed = FALSE /\ racers = {}
  BY DEF Init
<1>4. /\ fs \in [Names -> {"absent", "written"}]
      /\ dbPath \in {0, 1} /\ nfiles = dbPath /\ unit \in BOOLEAN
  BY <1>1
<1>5. TypeOK
  <2>1. StoreTypeOK
    BY <1>2 DEF StoreInv
  <2>2. fs \in [Names -> {"absent", "written"} \cup Procs]
    BY <1>4
  <2>3. dbPath \in 0..MaxFiles /\ nfiles \in 0..MaxFiles /\ starts \in 0..MaxStarts
    BY <1>3, <1>4, MigrationAssumption, SetupAssumption
  <2>4. pc \in [Procs -> Steps] /\ job \in [Procs -> Jobs] /\ cur \in [Procs -> Paths]
    BY <1>3 DEF Steps, Jobs, Paths, Names
  <2>5. /\ unit \in BOOLEAN /\ killed \in BOOLEAN /\ overlapped \in BOOLEAN
        /\ cfgStayed \in BOOLEAN /\ racers \subseteq Procs
    BY <1>3, <1>4
  <2> QED BY <2>1, <2>2, <2>3, <2>4, <2>5 DEF TypeOK
<1>6. Holding
  BY <1>1, <1>3 DEF Holding, StoreInit
<1>7. disk = d /\ file = [p \in Procs |-> 0]
  BY <1>1 DEF StoreInit
<1>8. Fresh
  <2>1. \A f \in Files : f > nfiles => d[f] = NewDatabase
    <3>1. CASE \A f \in Files : d[f] = NewDatabase
      BY <3>1
    <3>2. CASE nfiles = 1 /\ \A f \in Files : f # 1 => d[f] = NewDatabase
      BY <3>2, VersionFacts
    <3> QED BY <1>1, <3>1, <3>2
  <2>2. dbPath <= nfiles /\ \A p \in Procs : file[p] <= nfiles
    BY <1>4, <1>7
  <2> QED BY <1>7, <2>1, <2>2, NewFields DEF Fresh
<1>9. NotOvertaken
  BY <1>3 DEF NotOvertaken, Late, InitSteps
<1>10. Configured
  <2>1. CASE fs = [n \in Names |-> "absent"]
    BY <2>1 DEF Configured, Names
  <2>2. CASE dbPath = 1 /\ (d[1] = OldDatabase(TRUE) \/ d[1] = OldDatabase(FALSE))
    <3>1. OldDatabase(TRUE).key = TRUE /\ OldDatabase(FALSE).key = TRUE
      BY OldFields
    <3>2. d[1].key = TRUE
      BY <2>2, <3>1
    <3> QED BY <1>7, <2>2, <3>2 DEF Configured
  <2> QED BY <1>1, <2>1, <2>2
<1>11. Sequential
  BY <1>3, <1>10 DEF Sequential, OneRuns, Found
<1> QED BY <1>2, <1>5, <1>6, <1>8, <1>9, <1>11 DEF IInv

-----------------------------------------------------------------------------
(* The steps of Setup and the store.                                       *)

LEMMA AddUserDisk ==
  ASSUME IInv, NEW p \in Procs, AddUser(p)
  PROVE  /\ StoreInv'
         /\ \A f \in Files : disk'[f].key = disk[f].key /\ disk'[f].live = disk[f].live
<1> DEFINE g == file[p]
           e == [disk[g] EXCEPT !.admin = TRUE]
<1>1. at[p] = "ready" /\ CanWrite(p) /\ StoreInv
  BY DEF IInv, Holding, AddUser
<1>2. g \in Files /\ disk[g] \in Database
  BY <1>1, OpenFileKnown DEF StoreInv, StoreTypeOK
<1>3. /\ e \in Database
      /\ e.key = disk[g].key /\ e.dangling = disk[g].dangling
      /\ e.recorded = disk[g].recorded /\ e.copy = disk[g].copy
      /\ e.applied = disk[g].applied /\ e.live = disk[g].live
  BY <1>2, WriteFields
<1>4. disk' = [disk EXCEPT ![g] = e]
  BY <1>1, <1>2 DEF AddUser, StoreInv, StoreTypeOK
<1>5. UNCHANGED <<lock, version, work, warned>> /\ UNCHANGED <<file, at>>
  BY DEF AddUser
<1> HIDE DEF e
<1>6. StoreInv'
  BY <1>1, <1>3, <1>4, <1>5, RowStep
<1> QED BY <1>1, <1>2, <1>3, <1>4, <1>6 DEF StoreInv, StoreTypeOK

LEMMA AddKeyDisk ==
  ASSUME IInv, NEW p \in Procs, AddKey(p)
  PROVE  /\ StoreInv'
         /\ at[p] = "ready" /\ file[p] \in Files
         /\ \A f \in Files :
              /\ disk'[f].key = IF f = file[p] THEN TRUE ELSE disk[f].key
              /\ disk'[f].live = disk[f].live
<1> DEFINE g == file[p]
           e == [disk[g] EXCEPT !.key = TRUE]
<1>1. at[p] = "ready" /\ CanWrite(p) /\ StoreInv
  BY DEF IInv, Holding, AddKey
<1>2. g \in Files /\ disk[g] \in Database
  BY <1>1, OpenFileKnown DEF StoreInv, StoreTypeOK
<1>3. /\ e \in Database
      /\ e.key = TRUE /\ e.dangling = disk[g].dangling
      /\ e.recorded = disk[g].recorded /\ e.copy = disk[g].copy
      /\ e.applied = disk[g].applied /\ e.live = disk[g].live
  BY <1>2, WriteFields
<1>4. disk' = [disk EXCEPT ![g] = e]
  BY <1>1, <1>2 DEF AddKey, StoreInv, StoreTypeOK
<1>5. UNCHANGED <<lock, version, work, warned>>
      /\ file' = [file EXCEPT ![p] = 0] /\ at' = [at EXCEPT ![p] = "closed"]
  BY DEF AddKey
<1> HIDE DEF e
<1>6. StoreInv'
  BY <1>1, <1>3, <1>4, <1>5, RowStep
<1> QED BY <1>1, <1>2, <1>3, <1>4, <1>6 DEF StoreInv, StoreTypeOK

\* The file that Open opens: the one at the path, or a new one.
LEMMA OpenTarget ==
  ASSUME IInv, NEW p \in Procs, Open(p)
  PROVE  /\ dbPath' \in Files /\ dbPath' <= nfiles' /\ nfiles' \in 0..MaxFiles
         /\ nfiles <= nfiles'
         /\ \/ dbPath # 0 /\ dbPath' = dbPath /\ nfiles' = nfiles
            \/ dbPath = 0 /\ dbPath' = nfiles + 1 /\ nfiles' = nfiles + 1
         /\ OpenFile(p, dbPath')
<1>1. dbPath \in 0..MaxFiles /\ nfiles \in 0..MaxFiles /\ dbPath <= nfiles
  BY DEF IInv, TypeOK, Fresh
<1> QED BY <1>1, MigrationAssumption DEF Open, Files

LEMMA NextStore ==
  ASSUME IInv, Next
  PROVE  /\ StoreInv'
         /\ \A f \in Files : disk[f].live = "full" => disk'[f].live = "full"
<1> USE DEF IInv
<1>1. PICK p \in Procs : \/ \E j \in Jobs : Start(p, j)
                         \/ Step(p) \/ SystemError(p) \/ RemoveFails(p) \/ Stop(p) \/ Kill(p)
  BY DEF Next
<1>2. ASSUME UNCHANGED storeVars
      PROVE  /\ StoreInv'
             /\ \A f \in Files : disk[f].live = "full" => disk'[f].live = "full"
  BY <1>2, StoreUnchanged DEF storeVars
<1>3. ASSUME CloseStore(p)
      PROVE  /\ StoreInv'
             /\ \A f \in Files : disk[f].live = "full" => disk'[f].live = "full"
  BY <1>3, CloseStoreStep DEF CloseStore
<1>4. CASE \E j \in Jobs : Start(p, j)
  BY <1>2, <1>4 DEF Start
<1>5. CASE Precheck(p) \/ Prepare(p) \/ Chown(p) \/ Enable(p) \/ Load(p) \/ LoadKey(p)
  BY <1>2, <1>5 DEF Precheck, Prepare, Chown, Enable, Load, LoadKey
<1>6. CASE Stat(p) \/ CreateFile(p) \/ WriteFile(p) \/ Remove(p) \/ RemoveFails(p)
  BY <1>2, <1>6 DEF Stat, CreateFile, WriteFile, Remove, RemoveFails
<1>7. CASE AddUser(p)
  BY <1>7, AddUserDisk
<1>8. CASE AddKey(p)
  BY <1>8, AddKeyDisk
<1>9. CASE Open(p)
  <2>1. dbPath' \in Files /\ OpenFile(p, dbPath')
    BY <1>9, OpenTarget
  <2>2. StoreInv'
    <3> DEFINE f == dbPath'
    <3>1. f \in Files /\ OpenFile(p, f)
      BY <2>1
    <3> HIDE DEF f
    <3> QED BY <3>1, OpenFileStep
  <2> QED BY <2>1, <2>2 DEF OpenFile
<1>10. CASE Migrate(p)
  BY <1>10, OpenStepInv DEF Migrate
<1>11. CASE Opened(p)
  BY <1>2, <1>3, <1>11 DEF Opened
<1>12. CASE Refuse(p) \/ SystemError(p) \/ Stop(p) \/ Kill(p)
  BY <1>3, <1>12 DEF Refuse, SystemError, ReturnError, Stop, Kill
<1> QED BY <1>1, <1>4, <1>5, <1>6, <1>7, <1>8, <1>9, <1>10, <1>11, <1>12 DEF Step

-----------------------------------------------------------------------------
(* Types.                                                                  *)

LEMMA NextSteps ==
  /\ \A j \in Jobs : FirstStep(j) \in Steps
  /\ \A s \in Steps : OnError(s) \in {"remove", "idle"}
  /\ \A n \in Paths : StatNext(n) \in Paths /\ CreateNext(n) \in {"host", "cfg"}
                      /\ RemoveNext(n) \in Paths
  BY DEF FirstStep, Steps, InitSteps, OnError, Paths, Names, StatNext, CreateNext,
         RemoveNext

LEMMA NextType ==
  ASSUME IInv, Next
  PROVE  TypeOK'
<1>0. StoreTypeOK'
  BY NextStore DEF StoreInv
<1>1. TypeOK
  BY DEF IInv
<1>2. PICK p \in Procs : \/ \E j \in Jobs : Start(p, j)
                         \/ Step(p) \/ SystemError(p) \/ RemoveFails(p) \/ Stop(p) \/ Kill(p)
  BY DEF Next
<1> DEFINE Rest == /\ (fs \in [Names -> {"absent", "written"} \cup Procs])'
                   /\ (dbPath \in 0..MaxFiles)' /\ (nfiles \in 0..MaxFiles)'
                   /\ (unit \in BOOLEAN)'
                   /\ (pc \in [Procs -> Steps])' /\ (job \in [Procs -> Jobs])'
                   /\ (cur \in [Procs -> Paths])' /\ (starts \in 0..MaxStarts)'
                   /\ (killed \in BOOLEAN)' /\ (overlapped \in BOOLEAN)'
                   /\ (cfgStayed \in BOOLEAN)' /\ (racers \subseteq Procs)'
<1>3. /\ {"idle", "prepare", "stat", "enable", "create", "write", "initOpen", "addKey",
          "addUser", "load", "chown", "remove", "open", "master", "hostkey",
          "serving"} \subseteq Steps
      /\ {"cfg", "key", "host", "db"} \subseteq Paths /\ Names \subseteq Paths
  BY DEF Steps, InitSteps, Paths, Names
<1>4. pc[p] \in Steps /\ cur[p] \in Paths /\ job[p] \in Jobs
  BY <1>1 DEF TypeOK
<1>5. ASSUME NEW j \in Jobs, Start(p, j) PROVE Rest
  <2>1. starts + 1 \in 0..MaxStarts
    BY <1>1, <1>5, SetupAssumption DEF TypeOK, Start
  <2>2. FirstStep(j) \in Steps
    BY NextSteps
  <2>3. overlapped' \in BOOLEAN
    BY <1>5 DEF Start
  <2> QED BY <1>1, <1>3, <1>5, <2>1, <2>2, <2>3 DEF TypeOK, Start, At, Goto
<1>6. CASE Precheck(p) \/ Prepare(p) \/ Chown(p) \/ Enable(p) \/ Load(p) \/ LoadKey(p)
  <2>1. CASE Precheck(p) \/ Prepare(p) \/ Chown(p)
    <3>1. Rest
      BY <1>1, <1>3, <2>1 DEF TypeOK, Precheck, Prepare, Chown, At, Goto, Quiet
    <3> QED BY <1>0, <3>1 DEF TypeOK
  <2>2. CASE Enable(p)
    <3>1. Rest
      BY <1>1, <1>3, <2>2 DEF TypeOK, Enable, Goto
    <3> QED BY <1>0, <3>1 DEF TypeOK
  <2>3. CASE Load(p) \/ LoadKey(p)
    <3>1. Rest
      BY <1>1, <1>3, <2>3 DEF TypeOK, Load, LoadKey, Goto, Quiet
    <3> QED BY <1>0, <3>1 DEF TypeOK
  <2> QED BY <1>6, <2>1, <2>2, <2>3
<1>7. CASE Stat(p)
  <2>1. Rest
    BY <1>1, <1>3, <1>4, <1>7, NextSteps DEF TypeOK, Stat, At, Goto, Quiet
  <2> QED BY <1>0, <2>1 DEF TypeOK
<1>8. CASE CreateFile(p) \/ WriteFile(p)
  <2>1. fs' \in [Names -> {"absent", "written"} \cup Procs]
    BY <1>1, <1>8 DEF TypeOK, CreateFile, WriteFile
  <2>2. pc' \in [Procs -> Steps] /\ cur' \in [Procs -> Paths]
    <3>1. CASE CreateFile(p)
      BY <1>1, <1>3, <3>1 DEF TypeOK, CreateFile, Goto
    <3>2. CASE WriteFile(p)
      BY <1>1, <1>3, <1>4, <3>2, NextSteps DEF TypeOK, WriteFile, At, Goto
    <3> QED BY <1>8, <3>1, <3>2
  <2>3. UNCHANGED <<dbPath, nfiles, unit, job, starts, killed, overlapped, cfgStayed, racers>>
    BY <1>8 DEF CreateFile, WriteFile, Quiet
  <2>4. Rest
    BY <1>1, <2>1, <2>2, <2>3 DEF TypeOK
  <2> QED BY <1>0, <2>4 DEF TypeOK
<1>9. CASE Remove(p) \/ RemoveFails(p)
  <2>1. /\ fs' \in [Names -> {"absent", "written"} \cup Procs]
        /\ dbPath' \in 0..MaxFiles /\ cfgStayed' \in BOOLEAN
        /\ UNCHANGED <<nfiles, unit, job, starts, killed, overlapped>>
    <3>1. CASE Remove(p)
      BY <1>1, <3>1, MigrationAssumption DEF TypeOK, Remove
    <3>2. CASE RemoveFails(p)
      <4>1. (cfgStayed \/ cur[p] = "cfg") \in BOOLEAN
        OBVIOUS
      <4>2. cfgStayed' \in BOOLEAN
        BY <3>2, <4>1, Zenon DEF RemoveFails
      <4>3. UNCHANGED <<fs, dbPath, nfiles, unit, job, starts, killed, overlapped>>
        BY <3>2 DEF RemoveFails
      <4> QED BY <1>1, <4>2, <4>3 DEF TypeOK
    <3> QED BY <1>9, <3>1, <3>2
  <2>2. NextRemoval(p)
    BY <1>9 DEF Remove, RemoveFails
  <2>3. /\ pc' \in [Procs -> Steps] /\ cur' \in [Procs -> Paths]
        /\ racers' \subseteq Procs
    BY <1>1, <1>3, <1>4, <2>2, NextSteps DEF TypeOK, NextRemoval, At, Goto
  <2>4. Rest
    BY <1>1, <2>1, <2>3 DEF TypeOK
  <2> QED BY <1>0, <2>4 DEF TypeOK
<1>10. CASE AddUser(p)
  <2>1. Rest
    BY <1>1, <1>3, <1>10 DEF TypeOK, AddUser, Goto, Quiet
  <2> QED BY <1>0, <2>1 DEF TypeOK
<1>11. CASE AddKey(p)
  <2>1. Rest
    BY <1>1, <1>3, <1>11 DEF TypeOK, AddKey, Goto
  <2> QED BY <1>0, <2>1 DEF TypeOK
<1>12. CASE Open(p)
  <2>1. dbPath' \in 0..MaxFiles /\ nfiles' \in 0..MaxFiles
    BY <1>12, OpenTarget, MigrationAssumption DEF Files
  <2>2. Rest
    BY <1>1, <1>12, <2>1 DEF TypeOK, Open, Quiet
  <2> QED BY <1>0, <2>2 DEF TypeOK
<1>13. CASE Migrate(p)
  <2>1. Rest
    BY <1>1, <1>13 DEF TypeOK, Migrate, setupVars
  <2> QED BY <1>0, <2>1 DEF TypeOK
<1>14. CASE Opened(p) \/ Stop(p)
  <2>1. Rest
    BY <1>1, <1>3, <1>14 DEF TypeOK, Opened, Stop, Goto, Quiet
  <2> QED BY <1>0, <2>1 DEF TypeOK
<1>15. CASE Refuse(p) \/ SystemError(p)
  <2>1. OnError(pc[p]) \in Steps
    BY <1>3, <1>4, NextSteps
  <2>2. Rest
    BY <1>1, <1>3, <1>15, <2>1 DEF TypeOK, Refuse, SystemError, ReturnError, At, Goto
  <2> QED BY <1>0, <2>2 DEF TypeOK
<1>16. CASE Kill(p)
  <2>1. Rest
    BY <1>1, <1>3, <1>16 DEF TypeOK, Kill, At, Goto
  <2> QED BY <1>0, <2>1 DEF TypeOK
<1>17. CASE \E j \in Jobs : Start(p, j)
  <2>1. Rest
    BY <1>5, <1>17
  <2> QED BY <1>0, <2>1 DEF TypeOK
<1> QED BY <1>2, <1>6, <1>7, <1>8, <1>9, <1>10, <1>11, <1>12, <1>13, <1>14, <1>15,
           <1>16, <1>17 DEF Step

-----------------------------------------------------------------------------
(* A store is open only where the code has one.                            *)

\* What closing the store leaves of it.
LEMMA Closed ==
  ASSUME IInv, NEW p \in Procs, CloseStore(p)
  PROVE  /\ \A q \in Procs : /\ at'[q] = IF q = p THEN "closed" ELSE at[q]
                             /\ file'[q] = IF q = p THEN 0 ELSE file[q]
         /\ disk' = disk
  BY DEF IInv, TypeOK, StoreTypeOK, CloseStore

\* The step each action leaves p at; the other processes stay where they are.
LEMMA NextHolding ==
  ASSUME IInv, Next
  PROVE  Holding'
<1>1. PICK p \in Procs : \/ \E j \in Jobs : Start(p, j)
                         \/ Step(p) \/ SystemError(p) \/ RemoveFails(p) \/ Stop(p) \/ Kill(p)
  BY DEF Next
<1>2. /\ Holding /\ pc \in [Procs -> Steps] /\ at \in [Procs -> Stages]
      /\ pc[p] \in Steps
  BY DEF IInv, TypeOK, StoreTypeOK
<1>3. ASSUME NEW s, pc' = [pc EXCEPT ![p] = s], UNCHANGED at,
             s \in {"addUser", "addKey", "master", "hostkey", "serving"} => at[p] = "ready",
             at[p] = "closed" \/
               s \in {"initOpen", "open", "addUser", "addKey", "master", "hostkey", "serving"}
      PROVE  Holding'
  <2>1. \A q \in Procs : pc'[q] = IF q = p THEN s ELSE pc[q]
    BY <1>2, <1>3
  <2> QED BY <1>2, <1>3, <2>1 DEF Holding
<1>4. ASSUME NEW s, pc' = [pc EXCEPT ![p] = s],
             \A q \in Procs : at'[q] = IF q = p THEN "closed" ELSE at[q],
             s \notin {"addUser", "addKey", "master", "hostkey", "serving"}
      PROVE  Holding'
  <2>1. \A q \in Procs : pc'[q] = IF q = p THEN s ELSE pc[q]
    BY <1>2, <1>4
  <2> QED BY <1>2, <1>4, <2>1 DEF Holding
<1>5. pc[p] \in Steps \ {"initOpen", "open", "addUser", "addKey", "master", "hostkey",
                         "serving"} => at[p] = "closed"
  BY <1>2 DEF Holding
<1>6. ASSUME NEW j \in Jobs, Start(p, j) PROVE Holding'
  <2>1. FirstStep(j) \in {"load", "stat", "precheck"} /\ at[p] = "closed"
    BY <1>2, <1>5, <1>6 DEF FirstStep, Start
  <2>2. pc' = [pc EXCEPT ![p] = FirstStep(j)] /\ UNCHANGED at
    BY <1>6 DEF Start, At, Goto, storeVars
  <2> QED BY <1>3, <2>1, <2>2
<1>7. CASE Precheck(p) \/ Prepare(p) \/ Chown(p) \/ Enable(p)
  BY <1>2, <1>3, <1>5, <1>7 DEF Precheck, Prepare, Chown, Enable, At, Goto, storeVars
<1>8. CASE Load(p) \/ LoadKey(p)
  BY <1>2, <1>3, <1>5, <1>8 DEF Load, LoadKey, Goto, storeVars, Holding
<1>9. CASE Stat(p) \/ CreateFile(p) \/ WriteFile(p)
  BY <1>2, <1>3, <1>5, <1>9 DEF Stat, CreateFile, WriteFile, At, Goto, storeVars
<1>10. CASE Remove(p) \/ RemoveFails(p)
  BY <1>2, <1>3, <1>5, <1>10 DEF Remove, RemoveFails, NextRemoval, At, Goto, storeVars
<1>11. CASE AddUser(p)
  BY <1>2, <1>3, <1>11 DEF AddUser, Goto, Holding
<1>12. CASE AddKey(p)
  <2> DEFINE s == CASE job[p] = "container" -> "load"
                    [] job[p] = "install"   -> "chown"
                    [] OTHER                -> "idle"
  <2>1. s \in {"load", "chown", "idle"}
    OBVIOUS
  <2>2. pc' = [pc EXCEPT ![p] = s]
        /\ \A q \in Procs : at'[q] = IF q = p THEN "closed" ELSE at[q]
    BY <1>2, <1>12 DEF AddKey, Goto
  <2> HIDE DEF s
  <2> QED BY <1>4, <2>1, <2>2
<1>13. CASE Open(p)
  <2>1. pc' = pc /\ at' = [at EXCEPT ![p] = "schema"] /\ pc[p] \in {"initOpen", "open"}
        /\ at[p] = "closed"
    BY <1>13 DEF Open, OpenFile
  <2>2. \A q \in Procs : at'[q] = IF q = p THEN "schema" ELSE at[q]
    BY <1>2, <2>1
  <2> QED BY <1>2, <2>1, <2>2 DEF Holding
<1>14. CASE Migrate(p)
  BY <1>2, <1>14, OpenStepFrame DEF Migrate, setupVars, IInv, Holding
<1>15. CASE Opened(p)
  <2>1. CASE pc[p] = "open" /\ job[p] = "command"
    BY <1>4, <1>15, <2>1, Closed DEF Opened, Goto
  <2>2. CASE ~(pc[p] = "open" /\ job[p] = "command")
    BY <1>3, <1>15, <2>2 DEF Opened, Goto, storeVars
  <2> QED BY <2>1, <2>2
<1>16. CASE Refuse(p) \/ SystemError(p)
  <2>1. CloseStore(p) /\ pc' = [pc EXCEPT ![p] = OnError(pc[p])]
    BY <1>16 DEF Refuse, SystemError, ReturnError, At, Goto
  <2>2. OnError(pc[p]) \in {"remove", "idle"}
    BY <1>2, NextSteps
  <2> QED BY <1>4, <2>1, <2>2, Closed
<1>17. CASE Stop(p) \/ Kill(p)
  BY <1>4, <1>17, Closed DEF Stop, Kill, At, Goto
<1>18. CASE \E j \in Jobs : Start(p, j)
  BY <1>6, <1>18
<1> QED BY <1>1, <1>7, <1>8, <1>9, <1>10, <1>11, <1>12, <1>13, <1>14, <1>15, <1>16,
           <1>17, <1>18 DEF Step

-----------------------------------------------------------------------------
(* The key of the administrator, and the files it is in.                   *)

\* Only AddKey writes a key; only Open and Remove move the path.
LEMMA KeysKept ==
  ASSUME IInv, NEW p \in Procs,
         \/ \E j \in Jobs : Start(p, j)
         \/ Step(p) \/ SystemError(p) \/ RemoveFails(p) \/ Stop(p) \/ Kill(p)
  PROVE  /\ \/ AddKey(p)
            \/ \A f \in Files : disk'[f].key = disk[f].key
         /\ \/ Open(p) \/ Remove(p)
            \/ dbPath' = dbPath /\ nfiles' = nfiles
<1>1. CASE \E j \in Jobs : Start(p, j)
  BY <1>1 DEF Start, storeVars
<1>2. CASE Precheck(p) \/ Prepare(p) \/ Chown(p) \/ Enable(p) \/ Load(p) \/ LoadKey(p)
  BY <1>2 DEF Precheck, Prepare, Chown, Enable, Load, LoadKey, storeVars
<1>3. CASE Stat(p) \/ CreateFile(p) \/ WriteFile(p)
  BY <1>3 DEF Stat, CreateFile, WriteFile, storeVars
<1>4. CASE Remove(p) \/ RemoveFails(p)
  BY <1>4 DEF Remove, RemoveFails, storeVars
<1>5. CASE AddUser(p)
  BY <1>5, AddUserDisk DEF AddUser
<1>6. CASE AddKey(p)
  BY <1>6 DEF AddKey
<1>7. CASE Open(p)
  BY <1>7 DEF Open, OpenFile
<1>8. CASE Migrate(p)
  BY <1>8, OpenStepInv DEF Migrate, setupVars, IInv
<1>9. CASE Opened(p) \/ Stop(p)
  BY <1>9 DEF Opened, Stop, CloseStore, storeVars
<1>10. CASE Refuse(p) \/ SystemError(p) \/ Kill(p)
  BY <1>10 DEF Refuse, SystemError, ReturnError, Kill, CloseStore
<1> QED BY <1>1, <1>2, <1>3, <1>4, <1>5, <1>6, <1>7, <1>8, <1>9, <1>10 DEF Step

\* A process keeps its file, closes it, or opens the one at the path.
LEMMA FilesKept ==
  ASSUME IInv, NEW p \in Procs,
         \/ \E j \in Jobs : Start(p, j)
         \/ Step(p) \/ SystemError(p) \/ RemoveFails(p) \/ Stop(p) \/ Kill(p)
  PROVE  \/ file' = file
         \/ file' = [file EXCEPT ![p] = 0]
         \/ Open(p) /\ file' = [file EXCEPT ![p] = dbPath']
<1>1. CASE \E j \in Jobs : Start(p, j)
  BY <1>1 DEF Start, storeVars
<1>2. CASE Precheck(p) \/ Prepare(p) \/ Chown(p) \/ Enable(p) \/ Load(p) \/ LoadKey(p)
  BY <1>2 DEF Precheck, Prepare, Chown, Enable, Load, LoadKey, storeVars
<1>3. CASE Stat(p) \/ CreateFile(p) \/ WriteFile(p) \/ Remove(p) \/ RemoveFails(p)
  BY <1>3 DEF Stat, CreateFile, WriteFile, Remove, RemoveFails, storeVars
<1>5. CASE AddUser(p) \/ AddKey(p)
  BY <1>5 DEF AddUser, AddKey
<1>7. CASE Open(p)
  BY <1>7 DEF Open, OpenFile
<1>8. CASE Migrate(p)
  BY <1>8, OpenStepFrame DEF Migrate, IInv
<1>9. CASE Opened(p) \/ Stop(p)
  BY <1>9 DEF Opened, Stop, CloseStore, storeVars
<1>10. CASE Refuse(p) \/ SystemError(p) \/ Kill(p)
  BY <1>10 DEF Refuse, SystemError, ReturnError, Kill, CloseStore
<1> QED BY <1>1, <1>2, <1>3, <1>5, <1>7, <1>8, <1>9, <1>10 DEF Step

LEMMA NextFresh ==
  ASSUME IInv, Next
  PROVE  Fresh'
<1>1. PICK p \in Procs : \/ \E j \in Jobs : Start(p, j)
                         \/ Step(p) \/ SystemError(p) \/ RemoveFails(p) \/ Stop(p) \/ Kill(p)
  BY DEF Next
<1>2. /\ Fresh /\ file \in [Procs -> 0..MaxFiles]
      /\ dbPath \in 0..MaxFiles /\ nfiles \in 0..MaxFiles
  BY DEF IInv, TypeOK, StoreTypeOK
<1>3. dbPath' <= nfiles' /\ nfiles <= nfiles' /\ nfiles' \in Nat /\ dbPath' \in Nat
  <2>1. CASE Open(p)
    BY <2>1, OpenTarget, MigrationAssumption DEF Files
  <2>2. CASE Remove(p)
    BY <1>2, <2>2 DEF Remove, Fresh
  <2>3. CASE ~Open(p) /\ ~Remove(p)
    BY <1>1, <1>2, <2>3, KeysKept DEF Fresh
  <2> QED BY <2>1, <2>2, <2>3
<1>4. ASSUME NEW q \in Procs PROVE file'[q] <= nfiles'
  <2>1. file'[q] \in {file[q], 0, dbPath'}
    BY <1>1, <1>2, FilesKept
  <2> QED BY <1>2, <1>3, <2>1 DEF Fresh
<1>5. ASSUME NEW f \in Files, f > nfiles' PROVE ~disk'[f].key
  <2>1. f > nfiles
    BY <1>2, <1>3, <1>5, VersionFacts
  <2>2. ~disk[f].key
    BY <1>2, <2>1 DEF Fresh
  <2>3. CASE AddKey(p)
    <3>1. f # file[p]
      BY <1>2, <2>1, VersionFacts DEF Fresh
    <3> QED BY <2>2, <2>3, <3>1, AddKeyDisk
  <2>4. CASE ~AddKey(p)
    BY <1>1, <2>2, <2>4, KeysKept
  <2> QED BY <2>3, <2>4
<1> QED BY <1>3, <1>4, <1>5 DEF Fresh

-----------------------------------------------------------------------------
(* An init that was not overtaken removes no finished installation.        *)

\* The other processes stay where they are.
LEMMA OthersStay ==
  ASSUME IInv, NEW p \in Procs,
         \/ \E j \in Jobs : Start(p, j)
         \/ Step(p) \/ SystemError(p) \/ RemoveFails(p) \/ Stop(p) \/ Kill(p)
  PROVE  /\ \A q \in Procs : q # p => pc'[q] = pc[q] /\ cur'[q] = cur[q]
         /\ \A q \in Procs : q # p /\ q \in racers => q \in racers'
<1>0. pc \in [Procs -> Steps] /\ cur \in [Procs -> Paths]
  BY DEF IInv, TypeOK
<1> USE <1>0
<1>1. CASE \E j \in Jobs : Start(p, j)
  BY <1>1 DEF Start, At, Goto
<1>2. CASE Precheck(p) \/ Prepare(p) \/ Chown(p) \/ Enable(p)
  BY <1>2 DEF Precheck, Prepare, Chown, Enable, At, Goto, Quiet
<1>3. CASE Load(p) \/ LoadKey(p)
  BY <1>3 DEF Load, LoadKey, Goto, Quiet
<1>4. CASE Stat(p) \/ CreateFile(p) \/ WriteFile(p)
  BY <1>4 DEF Stat, CreateFile, WriteFile, At, Goto, Quiet
<1>5. CASE Remove(p) \/ RemoveFails(p)
  BY <1>5 DEF Remove, RemoveFails, NextRemoval, At, Goto
<1>6. CASE AddUser(p) \/ AddKey(p)
  BY <1>6 DEF AddUser, AddKey, Goto, Quiet
<1>7. CASE Open(p) \/ Migrate(p)
  BY <1>7 DEF Open, Migrate, Quiet, setupVars
<1>8. CASE Opened(p) \/ Stop(p)
  BY <1>8 DEF Opened, Stop, Goto, Quiet
<1>9. CASE Refuse(p) \/ SystemError(p)
  BY <1>9 DEF Refuse, SystemError, ReturnError, At, Goto
<1>10. CASE Kill(p)
  BY <1>10 DEF Kill, At, Goto
<1> QED BY <1>1, <1>2, <1>3, <1>4, <1>5, <1>6, <1>7, <1>8, <1>9, <1>10 DEF Step

\* A process is late because it was, or because it saw that there is no
\* database; once late it stays overtaken until it ends.
LEMMA BecomesLate ==
  ASSUME IInv, NEW p \in Procs,
         \/ \E j \in Jobs : Start(p, j)
         \/ Step(p) \/ SystemError(p) \/ RemoveFails(p) \/ Stop(p) \/ Kill(p),
         Late(p)', p \notin racers'
  PROVE  (Late(p) /\ p \notin racers /\ ~AddKey(p)) \/ (dbPath = 0 /\ Stat(p))
<1>0. pc \in [Procs -> Steps] /\ cur \in [Procs -> Paths] /\ pc[p] \in Steps /\ cur[p] \in Paths
  BY DEF IInv, TypeOK
<1> USE <1>0 DEF Late, InitSteps
<1>1. CASE \E j \in Jobs : Start(p, j)
  BY <1>1 DEF Start, At, Goto, FirstStep, Jobs
<1>2. CASE Precheck(p) \/ Prepare(p) \/ Chown(p) \/ Enable(p)
  BY <1>2 DEF Precheck, Prepare, Chown, Enable, At, Goto
<1>3. CASE Load(p) \/ LoadKey(p)
  BY <1>3 DEF Load, LoadKey, Goto
<1>4. CASE Stat(p)
  <2>1. cur[p] = "cfg" => ~Late(p)'
    BY <1>4 DEF Stat, At, Goto, StatNext
  <2>2. cur[p] = "db" => dbPath = 0
    BY <1>4 DEF Stat, Exists
  <2>3. pc[p] = "stat" /\ racers' = racers /\ ~AddKey(p)
    BY <1>4 DEF Stat, Quiet, AddKey
  <2> QED BY <1>4, <2>1, <2>2, <2>3 DEF Paths, Names
<1>5. CASE CreateFile(p) \/ WriteFile(p)
  BY <1>5 DEF CreateFile, WriteFile, Quiet, AddKey
<1>6. CASE Remove(p) \/ RemoveFails(p)
  BY <1>6 DEF Remove, RemoveFails, NextRemoval, At, Goto, AddKey
<1>7. CASE AddUser(p)
  BY <1>7 DEF AddUser, Quiet, AddKey
<1>8. CASE AddKey(p)
  BY <1>8 DEF AddKey, Goto
<1>9. CASE Open(p) \/ Migrate(p)
  <2>1. pc' = pc /\ cur' = cur /\ racers' = racers
    BY <1>9 DEF Open, Migrate, Quiet, setupVars
  <2>2. Late(p) /\ p \notin racers
    BY <2>1
  <2>3. Open(p) => ~AddKey(p)
    BY DEF Open, AddKey
  <2>4. Migrate(p) => ~AddKey(p)
    BY OpenStepFrame DEF Migrate, AddKey, IInv, Holding
  <2> QED BY <1>9, <2>2, <2>3, <2>4
<1>10. CASE Opened(p) \/ Stop(p)
  BY <1>10 DEF Opened, Stop, Goto, Quiet, AddKey
<1>11. CASE Refuse(p) \/ SystemError(p)
  <2>1. pc'[p] = OnError(pc[p]) /\ (OnError(pc[p]) = "remove" => racers' = racers)
    BY <1>11 DEF Refuse, SystemError, ReturnError, At, Goto
  <2>2. pc[p] \in InitSteps \ {"stat"} /\ p \notin racers
    BY <2>1, NextSteps DEF OnError
  <2>3. ~AddKey(p)
    BY <1>0, <2>1, <2>2 DEF AddKey, Goto, OnError
  <2> QED BY <2>2, <2>3
<1>12. CASE Kill(p)
  BY <1>12 DEF Kill, At, Goto
<1> QED BY <1>1, <1>2, <1>3, <1>4, <1>5, <1>6, <1>7, <1>8, <1>9, <1>10, <1>11, <1>12 DEF Step

LEMMA NextNotOvertaken ==
  ASSUME IInv, Next
  PROVE  NotOvertaken'
<1>1. PICK p \in Procs : \/ \E j \in Jobs : Start(p, j)
                         \/ Step(p) \/ SystemError(p) \/ RemoveFails(p) \/ Stop(p) \/ Kill(p)
  BY DEF Next
<1>2. /\ NotOvertaken /\ Fresh
      /\ dbPath \in 0..MaxFiles /\ nfiles \in 0..MaxFiles
      /\ (dbPath # 0 => dbPath \in Files)
  BY MigrationAssumption DEF IInv, TypeOK, StoreTypeOK, Files
<1> SUFFICES ASSUME NEW q \in Procs, Late(q)', q \notin racers',
                    dbPath' # 0
             PROVE  ~disk'[dbPath'].key
  BY DEF NotOvertaken
<1>3. CASE Open(p)
  <2>1. dbPath' \in Files /\ disk' = disk
    BY <1>3, OpenTarget DEF OpenFile
  <2>2. CASE dbPath = 0
    BY <1>2, <1>3, <2>1, <2>2, OpenTarget DEF Fresh
  <2>3. CASE dbPath # 0
    <3>1. dbPath' = dbPath
      BY <1>3, <2>3, OpenTarget
    <3>2. Late(q) /\ q \notin racers
      BY <1>3 DEF Open, Quiet, Late
    <3> QED BY <1>2, <2>1, <2>3, <3>1, <3>2 DEF NotOvertaken
  <2> QED BY <2>2, <2>3
<1>4. CASE ~Open(p)
  <2>1. dbPath' = dbPath
    <3>1. CASE Remove(p)
      BY <3>1 DEF Remove
    <3>2. CASE ~Remove(p)
      BY <1>1, <1>4, <3>2, KeysKept
    <3> QED BY <3>1, <3>2
  <2>2. dbPath \in Files
    BY <1>2, <2>1
  <2>3. Late(q) /\ q \notin racers /\ ~AddKey(p)
    <3>1. CASE q = p
      BY <1>1, <2>1, <3>1, BecomesLate
    <3>2. CASE q # p
      <4>1. pc'[q] = pc[q] /\ cur'[q] = cur[q] /\ q \notin racers
        BY <1>1, <3>2, OthersStay
      <4>2. Late(q)
        BY <4>1 DEF Late
      <4>3. AddKey(p) => q \in racers'
        BY <3>2, <4>2 DEF AddKey, Late, InitSteps
      <4> QED BY <4>1, <4>2, <4>3
    <3> QED BY <3>1, <3>2
  <2>4. disk'[dbPath].key = disk[dbPath].key
    BY <1>1, <2>2, <2>3, KeysKept
  <2> QED BY <1>2, <2>1, <2>3, <2>4 DEF NotOvertaken
<1> QED BY <1>3, <1>4

-----------------------------------------------------------------------------
(* Processes that follow one another.                                      *)

LEMMA RunningAlone ==
  ASSUME IInv, NEW p \in Procs,
         \/ \E j \in Jobs : Start(p, j)
         \/ Step(p) \/ SystemError(p) \/ RemoveFails(p) \/ Stop(p) \/ Kill(p),
         ~killed', ~overlapped', ~cfgStayed'
  PROVE  /\ OneRuns /\ Found(p)
         /\ Configured \/ pc[p] \in Undone
         /\ \A q \in Procs : q # p => pc[q] = "idle" /\ pc'[q] = "idle"
         /\ ~Kill(p)
<1>1. ~Kill(p) /\ ~killed /\ ~overlapped /\ ~cfgStayed
  <2>1. ~Kill(p)
    BY DEF Kill
  <2>2. CASE \E j \in Jobs : Start(p, j)
    <3>1. /\ killed' = killed /\ cfgStayed' = cfgStayed
          /\ overlapped' = (overlapped \/ \E q \in Procs : pc[q] # "idle")
      BY <2>2 DEF Start
    <3> QED BY <2>1, <3>1, Zenon
  <2>3. CASE Precheck(p) \/ Prepare(p) \/ Chown(p) \/ Enable(p) \/ Load(p) \/ LoadKey(p)
    BY <2>1, <2>3 DEF Precheck, Prepare, Chown, Enable, Load, LoadKey, Quiet
  <2>4. CASE Stat(p) \/ CreateFile(p) \/ WriteFile(p) \/ Remove(p)
    BY <2>1, <2>4 DEF Stat, CreateFile, WriteFile, Remove, Quiet
  <2>7. CASE RemoveFails(p)
    <3>1. /\ killed' = killed /\ overlapped' = overlapped
          /\ cfgStayed' = (cfgStayed \/ cur[p] = "cfg")
      BY <2>7 DEF RemoveFails
    <3> QED BY <2>1, <3>1, Zenon
  <2>5. CASE AddUser(p) \/ AddKey(p) \/ Open(p) \/ Migrate(p)
    BY <2>1, <2>5 DEF AddUser, AddKey, Open, Migrate, Quiet, setupVars
  <2>6. CASE Opened(p) \/ Stop(p) \/ Refuse(p) \/ SystemError(p)
    BY <2>1, <2>6 DEF Opened, Stop, Refuse, SystemError, ReturnError, Quiet
  <2> QED BY <2>1, <2>2, <2>3, <2>4, <2>5, <2>6, <2>7 DEF Step
<1>2. /\ OneRuns /\ Found(p)
      /\ Configured \/ \E q \in Procs : pc[q] \in Undone
  BY <1>1 DEF IInv, Sequential
<1>3. \/ \E j \in Jobs : Start(p, j)
      \/ pc[p] # "idle"
  <2>1. CASE Precheck(p) \/ Prepare(p) \/ Chown(p) \/ Enable(p) \/ Load(p) \/ LoadKey(p)
    BY <2>1 DEF Precheck, Prepare, Chown, Enable, Load, LoadKey
  <2>2. CASE Stat(p) \/ CreateFile(p) \/ WriteFile(p) \/ Remove(p) \/ RemoveFails(p)
    BY <2>2 DEF Stat, CreateFile, WriteFile, Remove, RemoveFails
  <2>3. CASE AddUser(p) \/ AddKey(p) \/ Open(p)
    BY <2>3 DEF AddUser, AddKey, Open
  <2>4. CASE Migrate(p)
    BY <2>4, OpenStepFrame DEF Migrate, IInv, Holding
  <2>5. CASE Opened(p) \/ Stop(p) \/ Refuse(p) \/ SystemError(p)
    BY <2>5 DEF Opened, Stop, Refuse, SystemError, ReturnError
  <2> QED BY <1>1, <2>1, <2>2, <2>3, <2>4, <2>5 DEF Step
<1>4. \A q \in Procs : q # p => pc[q] = "idle"
  <2>1. CASE \E j \in Jobs : Start(p, j)
    BY <2>1 DEF Start
  <2>2. CASE pc[p] # "idle"
    BY <1>2, <2>2 DEF OneRuns
  <2> QED BY <1>3, <2>1, <2>2
<1>5. \A q \in Procs : q # p => pc'[q] = "idle"
  BY <1>4, OthersStay
<1> QED BY <1>1, <1>2, <1>4, <1>5 DEF Undone

LEMMA NextSequential ==
  ASSUME IInv, Next, Holding'
  PROVE  Sequential'
<1> SUFFICES ASSUME ~killed', ~overlapped', ~cfgStayed'
             PROVE  /\ OneRuns'
                    /\ Configured' \/ \E p \in Procs : pc'[p] \in Undone
                    /\ \A p \in Procs : Found(p)'
  BY DEF Sequential
<1>1. PICK p \in Procs : \/ \E j \in Jobs : Start(p, j)
                         \/ Step(p) \/ SystemError(p) \/ RemoveFails(p) \/ Stop(p) \/ Kill(p)
  BY DEF Next
<1>2. /\ Found(p)
      /\ Configured \/ pc[p] \in Undone
      /\ \A q \in Procs : q # p => pc'[q] = "idle"
      /\ ~Kill(p)
  BY <1>1, RunningAlone
<1>3. SUFFICES /\ Configured' \/ pc'[p] \in Undone
               /\ Found(p)'
  BY <1>2 DEF OneRuns, Found
<1>4. /\ pc \in [Procs -> Steps] /\ cur \in [Procs -> Paths]
      /\ fs \in [Names -> {"absent", "written"} \cup Procs]
      /\ at \in [Procs -> Stages] /\ file \in [Procs -> 0..MaxFiles]
      /\ pc[p] \in Steps /\ cur[p] \in Paths /\ "cfg" \in Names
      /\ (dbPath # 0 => dbPath \in Files)
  BY MigrationAssumption DEF IInv, TypeOK, StoreTypeOK, Names, Files
<1>5. /\ pc[p] \in {"addUser", "addKey", "master", "hostkey", "serving"} => at[p] = "ready"
      /\ at[p] # "closed" => file[p] \in Files
      /\ at[p] # "closed" =>
           pc[p] \in {"initOpen", "open", "addUser", "addKey", "master", "hostkey", "serving"}
  BY OpenFileKnown DEF IInv, StoreInv, Holding
<1>6. CASE \E j \in Jobs : Start(p, j)
  BY <1>2, <1>4, <1>6 DEF Start, At, Goto, FirstStep, Jobs, Found, Configured, Undone, storeVars
<1>7. CASE Precheck(p) \/ Prepare(p) \/ Chown(p) \/ Enable(p)
  BY <1>2, <1>4, <1>7 DEF Precheck, Prepare, Chown, Enable, At, Goto, Found, Configured,
                          Undone, storeVars
<1>8. CASE Stat(p)
  BY <1>2, <1>4, <1>8 DEF Stat, At, Goto, Exists, StatNext, Found, Configured, Undone, storeVars
<1>9. CASE CreateFile(p)
  BY <1>2, <1>4, <1>9 DEF CreateFile, Goto, Found, Undone
<1>10. CASE WriteFile(p)
  <2>1. /\ at'[p] = "closed" /\ dbPath' = dbPath /\ disk' = disk
        /\ cur[p] # "cfg" => fs'["cfg"] = fs["cfg"]
    BY <1>4, <1>5, <1>10 DEF WriteFile, storeVars
  <2>2. CASE cur[p] = "cfg"
    <3>1. pc'[p] = "initOpen"
      BY <1>4, <1>10, <2>2 DEF WriteFile, At, Goto
    <3> QED BY <2>1, <3>1 DEF Found, Undone
  <2>3. CASE cur[p] # "cfg"
    <3>1. pc'[p] = "create" /\ fs["cfg"] = "absent"
      BY <1>2, <1>4, <1>10, <2>3 DEF WriteFile, At, Goto, Found
    <3> QED BY <2>1, <2>3, <3>1 DEF Found, Configured
  <2> QED BY <2>2, <2>3
<1>11. CASE Remove(p) \/ RemoveFails(p)
  <2>1. CASE cur[p] = "db"
    <3>1. pc'[p] = "idle" /\ fs'["cfg"] = "absent"
      BY <1>2, <1>4, <1>11, <2>1 DEF Remove, RemoveFails, NextRemoval, Goto, Found
    <3> QED BY <3>1 DEF Found, Configured
  <2>2. CASE cur[p] # "db"
    <3>1. pc'[p] = "remove" /\ cur'[p] = RemoveNext(cur[p])
      BY <1>4, <1>11, <2>2 DEF Remove, RemoveFails, NextRemoval, At, Goto
    <3>2. cur'[p] = "db" => cur[p] = "cfg"
      BY <1>4, <2>2, <3>1 DEF RemoveNext, Paths, Names
    <3>3. cur[p] = "cfg" => fs'["cfg"] = "absent"
      BY <1>4, <1>11, <2>2 DEF Remove, RemoveFails
    <3> QED BY <3>1, <3>2, <3>3 DEF Found, Undone
  <2> QED BY <2>1, <2>2
<1>12. CASE AddUser(p)
  <2>1. /\ pc[p] = "addUser" /\ pc'[p] = "addKey" /\ file' = file /\ at' = at
        /\ dbPath' = dbPath
    BY <1>4, <1>12 DEF AddUser, Goto
  <2> QED BY <1>2, <1>5, <2>1 DEF Found, Undone
<1>13. CASE AddKey(p)
  <2>1. dbPath' = dbPath /\ dbPath = file[p] /\ file[p] \in Files
    BY <1>2, <1>5, <1>13, AddKeyDisk DEF AddKey, Found
  <2>2. disk'[dbPath].key = TRUE /\ dbPath # 0
    BY <1>13, <2>1, AddKeyDisk, VersionFacts
  <2>3. pc'[p] \in {"load", "chown", "idle"}
    BY <1>4, <1>13 DEF AddKey, Goto
  <2> QED BY <2>1, <2>2, <2>3 DEF Configured, Found
<1>14. CASE Load(p)
  BY <1>2, <1>4, <1>5, <1>14 DEF Load, Goto, Exists, Found, Configured, Undone, storeVars
<1>15. CASE Open(p)
  <2>1. /\ pc' = pc /\ fs' = fs /\ disk' = disk /\ at'[p] = "schema" /\ file'[p] = dbPath'
        /\ pc[p] \in {"initOpen", "open"} /\ at[p] = "closed"
    BY <1>4, <1>15 DEF Open, OpenFile
  <2>2. dbPath # 0 => dbPath' = dbPath
    BY <1>15 DEF Open
  <2> QED BY <1>2, <2>1, <2>2 DEF Found, Configured, Undone
<1>16. CASE Migrate(p)
  <2>1. /\ at[p] # "closed" /\ at'[p] # "closed" /\ file' = file
        /\ \A f \in Files : disk'[f].key = disk[f].key
    BY <1>16, OpenStepFrame, OpenStepInv DEF Migrate, IInv
  <2>2. pc' = pc /\ cur' = cur /\ fs' = fs /\ dbPath' = dbPath
    BY <1>16 DEF Migrate, setupVars
  <2>3. Configured => Configured'
    BY <1>4, <2>1, <2>2 DEF Configured
  <2>4. Found(p)'
    <3>1. disk'[file[p]].key = disk[file[p]].key
      BY <1>5, <2>1
    <3> QED BY <1>2, <1>5, <2>1, <2>2, <3>1 DEF Found
  <2> QED BY <1>2, <2>2, <2>3, <2>4
<1>17. CASE Opened(p)
  <2>1. fs' = fs /\ dbPath' = dbPath /\ disk' = disk /\ at[p] = "ready"
    BY <1>17 DEF Opened, CloseStore, storeVars
  <2>2. CASE pc[p] = "initOpen"
    <3>1. pc'[p] = "addUser" /\ file' = file
      BY <1>4, <1>17, <2>2 DEF Opened, Goto, storeVars
    <3> QED BY <1>2, <2>1, <2>2, <3>1 DEF Found, Undone
  <2>3. CASE pc[p] = "open" /\ job[p] # "command"
    <3>1. pc'[p] = "master" /\ file' = file /\ at' = at
      BY <1>4, <1>17, <2>3 DEF Opened, Goto, storeVars
    <3>2. Configured'
      BY <1>2, <2>1, <2>3 DEF Configured, Undone
    <3> QED BY <1>2, <2>1, <2>3, <3>1, <3>2 DEF Found
  <2>4. CASE pc[p] = "open" /\ job[p] = "command"
    <3>1. pc'[p] = "idle"
      BY <1>4, <1>17, <2>4 DEF Opened, Goto
    <3>2. Configured'
      BY <1>2, <2>1, <2>4 DEF Configured, Undone
    <3> QED BY <3>1, <3>2 DEF Found
  <2> QED BY <1>17, <2>2, <2>3, <2>4 DEF Opened
<1>18. CASE LoadKey(p)
  BY <1>2, <1>4, <1>5, <1>18 DEF LoadKey, Goto, Found, Configured, Undone, storeVars
<1>19. CASE Stop(p)
  BY <1>2, <1>4, <1>19 DEF Stop, Goto, CloseStore, Found, Configured, Undone
<1>20. CASE Refuse(p) \/ SystemError(p)
  <2>1. /\ pc'[p] = OnError(pc[p]) /\ cur'[p] = "key"
        /\ fs' = fs /\ dbPath' = dbPath /\ disk' = disk
    BY <1>4, <1>20 DEF Refuse, SystemError, ReturnError, At, Goto, CloseStore
  <2>2. OnError(pc[p]) = IF pc[p] \in InitSteps \ {"stat"} THEN "remove" ELSE "idle"
    BY DEF OnError
  <2> QED BY <1>2, <2>1, <2>2 DEF Found, Configured, Undone, InitSteps
<1> QED BY <1>1, <1>2, <1>6, <1>7, <1>8, <1>9, <1>10, <1>11, <1>12, <1>13, <1>14, <1>15,
           <1>16, <1>17, <1>18, <1>19, <1>20 DEF Step

-----------------------------------------------------------------------------
(* A finished installation loses a file only to a removal.                 *)

LEMMA AdminKept ==
  ASSUME IInv, NEW p \in Procs,
         \/ \E j \in Jobs : Start(p, j)
         \/ Step(p) \/ SystemError(p) \/ RemoveFails(p) \/ Stop(p) \/ Kill(p)
  PROVE  \A f \in Files : disk[f].admin => disk'[f].admin
<1>1. CASE \E j \in Jobs : Start(p, j)
  BY <1>1 DEF Start, storeVars
<1>2. CASE Precheck(p) \/ Prepare(p) \/ Chown(p) \/ Enable(p) \/ Load(p) \/ LoadKey(p)
  BY <1>2 DEF Precheck, Prepare, Chown, Enable, Load, LoadKey, storeVars
<1>3. CASE Stat(p) \/ CreateFile(p) \/ WriteFile(p) \/ Remove(p) \/ RemoveFails(p)
  BY <1>3 DEF Stat, CreateFile, WriteFile, Remove, RemoveFails, storeVars
<1>4. CASE AddUser(p) \/ AddKey(p)
  <2>1. file[p] \in Files /\ disk \in [Files -> Database]
    BY <1>4, OpenFileKnown DEF AddUser, AddKey, IInv, Holding, StoreInv, StoreTypeOK
  <2>2. disk[file[p]] \in Database
    BY <2>1
  <2> DEFINE d == disk[file[p]]
             e == [d EXCEPT !.admin = TRUE]
             k == [d EXCEPT !.key = TRUE]
  <2>3. e.admin = TRUE /\ k.admin = d.admin
    BY <2>2, WriteFields
  <2>4. disk' = [disk EXCEPT ![file[p]] = e] \/ disk' = [disk EXCEPT ![file[p]] = k]
    BY <1>4, <2>1 DEF AddUser, AddKey
  <2> HIDE DEF e, k
  <2> QED BY <2>1, <2>3, <2>4
<1>7. CASE Open(p)
  BY <1>7 DEF Open, OpenFile
<1>8. CASE Migrate(p)
  BY <1>8, OpenStepInv DEF Migrate, IInv
<1>9. CASE Opened(p) \/ Stop(p)
  BY <1>9 DEF Opened, Stop, CloseStore, storeVars
<1>10. CASE Refuse(p) \/ SystemError(p) \/ Kill(p)
  BY <1>10 DEF Refuse, SystemError, ReturnError, Kill, CloseStore
<1> QED BY <1>1, <1>2, <1>3, <1>4, <1>7, <1>8, <1>9, <1>10 DEF Step

LEMMA WrittenKept ==
  ASSUME IInv, NEW p \in Procs,
         \/ \E j \in Jobs : Start(p, j)
         \/ Step(p) \/ SystemError(p) \/ RemoveFails(p) \/ Stop(p) \/ Kill(p),
         ~Remove(p)
  PROVE  \A n \in Names : fs[n] = "written" => fs'[n] = "written"
<1>0. fs \in [Names -> {"absent", "written"} \cup Procs]
  BY DEF IInv, TypeOK
<1>1. CASE \E j \in Jobs : Start(p, j)
  BY <1>1 DEF Start
<1>2. CASE Precheck(p) \/ Prepare(p) \/ Chown(p) \/ Enable(p) \/ Load(p) \/ LoadKey(p)
  BY <1>2 DEF Precheck, Prepare, Chown, Enable, Load, LoadKey
<1>3. CASE \/ Stat(p) \/ AddUser(p) \/ AddKey(p) \/ Open(p) \/ Migrate(p)
           \/ RemoveFails(p)
  BY <1>3 DEF Stat, AddUser, AddKey, Open, Migrate, RemoveFails, setupVars
<1>4. CASE CreateFile(p) \/ WriteFile(p)
  BY <1>0, <1>4 DEF CreateFile, WriteFile
<1>5. CASE Opened(p) \/ Stop(p) \/ Refuse(p) \/ SystemError(p) \/ Kill(p)
  BY <1>5 DEF Opened, Stop, Refuse, SystemError, ReturnError, Kill
<1> QED BY <1>1, <1>2, <1>3, <1>4, <1>5 DEF Step

LEMMA InstallationKept ==
  ASSUME IInv, Next, Installed, ~Installed'
  PROVE  \E p \in racers : pc[p] = "remove"
<1>1. PICK p \in Procs : \/ \E j \in Jobs : Start(p, j)
                         \/ Step(p) \/ SystemError(p) \/ RemoveFails(p) \/ Stop(p) \/ Kill(p)
  BY DEF Next
<1>2. /\ \A n \in Names : fs[n] = "written"
      /\ dbPath # 0 /\ dbPath \in Files
      /\ disk[dbPath].admin /\ disk[dbPath].key
  BY MigrationAssumption DEF Installed, IInv, TypeOK, Files
<1>3. CASE Remove(p)
  <2>1. pc[p] = "remove" /\ Late(p)
    BY <1>3 DEF Remove, Late, InitSteps
  <2>2. p \in racers
    BY <1>2, <2>1 DEF IInv, NotOvertaken
  <2> QED BY <2>1, <2>2
<1>4. CASE ~Remove(p)
  <2>1. \A n \in Names : fs'[n] = "written"
    BY <1>1, <1>2, <1>4, WrittenKept
  <2>2. dbPath' = dbPath
    BY <1>1, <1>2, <1>4, KeysKept DEF Open
  <2>3. disk'[dbPath].admin
    BY <1>1, <1>2, AdminKept
  <2>4. disk'[dbPath].key
    <3>1. CASE AddKey(p)
      BY <1>2, <3>1, AddKeyDisk
    <3>2. CASE ~AddKey(p)
      BY <1>1, <1>2, <3>2, KeysKept
    <3> QED BY <3>1, <3>2
  <2>5. Installed'
    BY <1>2, <2>1, <2>2, <2>3, <2>4 DEF Installed
  <2> QED BY <2>5
<1> QED BY <1>3, <1>4
-----------------------------------------------------------------------------
(* The theorems.                                                           *)

LEMMA IInvUnchanged ==
  ASSUME IInv, UNCHANGED vars
  PROVE  IInv'
<1>1. UNCHANGED storeVars /\ UNCHANGED setupVars
  BY DEF vars
<1>2. StoreInv'
  BY <1>1, StoreUnchanged DEF IInv
<1>3. /\ disk' = disk /\ file' = file /\ at' = at
      /\ fs' = fs /\ dbPath' = dbPath /\ nfiles' = nfiles /\ unit' = unit /\ pc' = pc
      /\ job' = job /\ cur' = cur /\ starts' = starts /\ killed' = killed
      /\ overlapped' = overlapped /\ cfgStayed' = cfgStayed /\ racers' = racers
  BY <1>1 DEF storeVars, setupVars
<1>4. TypeOK'
  BY <1>2, <1>3 DEF IInv, StoreInv, TypeOK
<1>5. Holding' /\ Fresh' /\ NotOvertaken'
  BY <1>3 DEF IInv, Holding, Fresh, NotOvertaken, Late
<1>6. Sequential'
  BY <1>3 DEF IInv, Sequential, OneRuns, Configured, Found
<1> QED BY <1>2, <1>4, <1>5, <1>6 DEF IInv

LEMMA IInvNext ==
  ASSUME IInv, [Next]_vars
  PROVE  IInv'
<1>1. CASE Next
  <2>1. Holding'
    BY <1>1, NextHolding
  <2> QED BY <1>1, <2>1, NextStore, NextType, NextFresh, NextNotOvertaken, NextSequential
          DEF IInv
<1>2. CASE UNCHANGED vars
  BY <1>2, IInvUnchanged
<1> QED BY <1>1, <1>2

LEMMA Invariance == Spec => []IInv
<1>1. Init => IInv
  BY InitInv
<1>2. IInv /\ [Next]_vars => IInv'
  BY IInvNext
<1> QED BY <1>1, <1>2, PTL DEF Spec

\* Every variable of the installation and of the stores on it keeps its type,
\* through every failure, kill and overlap of processes.
THEOREM SetupTypeCorrect == Spec => []TypeOK
<1>1. IInv => TypeOK
  BY DEF IInv
<1> QED BY <1>1, Invariance, PTL

\* migrate: whichever processes migrate a file, raced or died on the way, a
\* committed database has each later version exactly when it is recorded, and
\* no half-built table.
THEOREM SetupMigrationsAreAtomic == Spec => []MigrationsAreAtomic
<1>1. IInv => MigrationsAreAtomic
  BY DEF IInv, StoreInv
<1> QED BY <1>1, Invariance, PTL

\* Open: a store that was returned has all base tables and every later version,
\* each applied once.
THEOREM SetupOpenedIsMigrated == Spec => []OpenedIsMigrated
<1>1. ASSUME IInv, NEW p \in Procs, at[p] = "ready"
      PROVE  /\ disk[file[p]].recorded = Versions
             /\ disk[file[p]].applied[1] = BaseStatements
             /\ \A v \in 2..LastVersion : disk[file[p]].applied[v] = 1
  <2>1. file[p] \in Files
    BY <1>1, OpenFileKnown DEF IInv, StoreInv
  <2>2. disk[file[p]].recorded \subseteq Versions
    BY <1>1, <2>1 DEF IInv, StoreInv, StoreTypeOK, Database
  <2>3. Versions \subseteq disk[file[p]].recorded
    BY <1>1 DEF IInv, StoreInv, Progress
  <2>4. disk[file[p]].applied[1] = BaseStatements
    BY <1>1, <2>1, <2>3, VersionFacts DEF IInv, StoreInv, BaseFirst
  <2>5. \A v \in 2..LastVersion : disk[file[p]].applied[v] = 1
    BY <1>1, <2>1, <2>3, VersionFacts DEF IInv, StoreInv, MigrationsAreAtomic
  <2> QED BY <2>2, <2>3, <2>4, <2>5
<1>2. IInv => OpenedIsMigrated
  BY <1>1 DEF OpenedIsMigrated
<1> QED BY <1>2, Invariance, PTL

\* serve: a database with dangling references is served only after a start
\* that reported them or ended before the check, or while one is at it.
THEOREM SetupDanglingWasReported == Spec => []DanglingWasReported
<1>1. ASSUME IInv, NEW p \in Procs, pc[p] = "serving", disk[file[p]].dangling
      PROVE  warned \/ \E q \in Procs : at[q] = "fkcheck"
  <2>1. at[p] = "ready"
    BY <1>1 DEF IInv, Holding
  <2>2. file[p] \in Files
    BY <1>1, <2>1, OpenFileKnown DEF IInv, StoreInv
  <2>3. Versions \subseteq disk[file[p]].recorded
    BY <1>1, <2>1 DEF IInv, StoreInv, Progress
  <2>4. Checked \cap disk[file[p]].recorded # {}
    BY <2>3, VersionFacts, MigrationAssumption
  <2> QED BY <1>1, <2>2, <2>4 DEF IInv, StoreInv, Reported
<1>2. IInv => DanglingWasReported
  BY <1>1 DEF DanglingWasReported
<1> QED BY <1>2, Invariance, PTL

\* initCommand and serve: where no process is killed, none overlaps and no
\* failed init was unable to remove its configuration, a gateway that serves
\* has its bootstrap administrator, whatever else failed before.
THEOREM SetupServesAnAdministrator == Spec => []ServesAnAdministrator
<1>1. ASSUME IInv, NEW p \in Procs, pc[p] = "serving", ~killed, ~overlapped,
             ~cfgStayed
      PROVE  disk[file[p]].key
  <2>1. at[p] = "ready" /\ Found(p)
    BY <1>1 DEF IInv, Holding, Sequential
  <2> QED BY <1>1, <2>1 DEF Found
<1>2. IInv => ServesAnAdministrator
  BY <1>1 DEF ServesAnAdministrator
<1> QED BY <1>2, Invariance, PTL

\* migrate: no statement that is committed loses the rows of a table.
THEOREM SetupRowsKept == Spec => RowsKept
<1>1. IInv /\ [Next]_vars =>
        [\A f \in Files : disk[f].live = "full" => disk'[f].live = "full"]_vars
  BY NextStore
<1> QED BY <1>1, Invariance, PTL DEF Spec, RowsKept

\* initCommand: a finished installation loses a file only to the removal of an
\* init that was under way when it was finished.
THEOREM SetupFinishedSurvives == Spec => FinishedSurvives
<1>1. IInv /\ [Next]_vars =>
        [Installed /\ ~Installed' => \E p \in racers : pc[p] = "remove"]_vars
  BY InstallationKept
<1> QED BY <1>1, Invariance, PTL DEF Spec, FinishedSurvives

-----------------------------------------------------------------------------
(* Opening and migrating implements SchemaUpgrade.  Beyond the invariant it *)
(* takes that the rebuilt table is there once its statement of the base     *)
(* script is, and that the versions recorded in a file have no gap.         *)

TablesFirst ==
  \A f \in Files : disk[f].live = "absent" <=> disk[f].applied[1] < RebuiltAt

NoGap == \A f \in Files : \A w \in disk[f].recorded : 1..w \subseteq disk[f].recorded

UInv == TablesFirst /\ NoGap

\* What a file shows of itself.
SameSchema(f) ==
  /\ disk'[f].applied = disk[f].applied /\ disk'[f].recorded = disk[f].recorded
  /\ disk'[f].live = disk[f].live /\ disk'[f].copy = disk[f].copy

LEMMA InitUInv == Init => UInv
<1> SUFFICES ASSUME Init PROVE UInv
  OBVIOUS
<1>1. ASSUME NEW f \in Files
      PROVE  disk[f] = NewDatabase \/ \E b \in BOOLEAN : disk[f] = OldDatabase(b)
  BY VersionFacts DEF Init, StoreInit
<1>2. ASSUME NEW f \in Files
      PROVE  /\ disk[f].live = "absent" <=> disk[f].applied[1] < RebuiltAt
             /\ \A w \in disk[f].recorded : 1..w \subseteq disk[f].recorded
  <2>1. CASE disk[f] = NewDatabase
    <3>1. disk[f].live = "absent" /\ disk[f].recorded = {} /\ disk[f].applied[1] = 0
      BY <2>1, VersionFacts DEF NewDatabase
    <3> QED
      BY <3>1, MigrationAssumption
  <2>2. CASE \E b \in BOOLEAN : disk[f] = OldDatabase(b)
    <3>1. disk[f].live = "full" /\ disk[f].recorded = {1}
          /\ disk[f].applied[1] = BaseStatements
      BY <2>2, VersionFacts DEF OldDatabase
    <3> QED
      BY <3>1, MigrationAssumption
  <2> QED
    BY <1>1, <2>1, <2>2
<1> QED
  BY <1>2 DEF UInv, TablesFirst, NoGap

\* What a step writes to the schema of a file.
LEMMA SchemaWrites ==
  ASSUME IInv, Next
  PROVE  \/ \A f \in Files : SameSchema(f)
         \/ \E p \in Procs : BaseTable(p) \/ RecordBase(p) \/ Commit(p)
<1>1. PICK p \in Procs : \/ \E j \in Jobs : Start(p, j)
                         \/ Step(p) \/ SystemError(p) \/ RemoveFails(p) \/ Stop(p) \/ Kill(p)
  BY DEF Next
<1>2. CASE disk' = disk
  BY <1>2 DEF SameSchema
<1>3. CASE AddUser(p) \/ AddKey(p)
  <2>1. file[p] \in Files /\ disk \in [Files -> Database]
    BY <1>3, OpenFileKnown DEF AddUser, AddKey, IInv, Holding, StoreInv, StoreTypeOK
  <2>2. disk[file[p]] \in Database
    BY <2>1
  <2> DEFINE d == disk[file[p]]
             e == [d EXCEPT !.admin = TRUE]
             k == [d EXCEPT !.key = TRUE]
  <2>3. /\ e.applied = d.applied /\ e.recorded = d.recorded
        /\ e.live = d.live /\ e.copy = d.copy
        /\ k.applied = d.applied /\ k.recorded = d.recorded
        /\ k.live = d.live /\ k.copy = d.copy
    BY <2>2, WriteFields
  <2>4. disk' = [disk EXCEPT ![file[p]] = e] \/ disk' = [disk EXCEPT ![file[p]] = k]
    BY <1>3, <2>1 DEF AddUser, AddKey
  <2> HIDE DEF e, k
  <2> QED
    BY <2>1, <2>3, <2>4 DEF SameSchema
<1>4. CASE Migrate(p)
  <2>1. BaseTable(p) \/ RecordBase(p) \/ Commit(p) \/ UNCHANGED disk
    BY <1>4 DEF Migrate, OpenStep, Count, Begin, Statement, Execute, FkCheckPasses
  <2> QED
    BY <1>2, <2>1
<1>5. AddUser(p) \/ AddKey(p) \/ Migrate(p) \/ UNCHANGED disk
  BY <1>1 DEF Step, Start, Precheck, Prepare, Chown, Enable, Stat, CreateFile,
     WriteFile, Remove, RemoveFails, Load, Open, OpenFile, Opened, LoadKey, Stop, Refuse,
     SystemError, ReturnError, Kill, CloseStore, storeVars
<1> QED
  BY <1>2, <1>3, <1>4, <1>5

\* The three writes, with what they do to the file of p, and the others.
Shows(f, applied, recorded, live) ==
  /\ disk'[f].applied = applied /\ disk'[f].recorded = recorded
  /\ disk'[f].live = live

\* A file that records a version has the whole base.
LEMMA RecordedHasBase ==
  ASSUME IInv, UInv, NEW f \in Files, disk[f].recorded # {}
  PROVE  disk[f].applied[1] = BaseStatements /\ disk[f].live # "absent"
<1>1. PICK w \in disk[f].recorded : TRUE
  OBVIOUS
<1>2. disk[f] \in Database
  BY DEF IInv, StoreInv, StoreTypeOK
<1>3. 1 \in 1..w
  BY <1>2, MigrationAssumption DEF Database, Versions
<1>4. 1 \in disk[f].recorded
  BY <1>3 DEF UInv, NoGap
<1>5. disk[f].applied[1] = BaseStatements
  BY <1>4 DEF IInv, StoreInv, BaseFirst
<1> QED
  BY <1>5, MigrationAssumption DEF UInv, TablesFirst

LEMMA BaseTableWrites ==
  ASSUME IInv, UInv, NEW p \in Procs, BaseTable(p)
  PROVE  /\ file[p] \in Files
         /\ \A f \in Files \ {file[p]} : SameSchema(f)
         /\ LET d == disk[file[p]]
            IN  /\ d.applied \in [Versions -> Nat]
                /\ d.recorded = {} /\ d.applied[1] < BaseStatements
                /\ Shows(file[p], [d.applied EXCEPT ![1] = @ + 1], {},
                         IF d.applied[1] + 1 = RebuiltAt THEN "empty" ELSE d.live)
<1> DEFINE g == file[p]
           d == disk[g]
           e == BaseStatement(d)
<1>1. g \in Files /\ disk \in [Files -> Database]
  BY OpenFileKnown DEF IInv, StoreInv, StoreTypeOK, BaseTable
<1>2. d \in Database /\ d.applied \in [Versions -> Nat] /\ d.applied[1] \in Nat
  BY <1>1, VersionFacts DEF Database
<1>3. /\ e.recorded = d.recorded /\ e.copy = d.copy
      /\ e.applied = [d.applied EXCEPT ![1] = @ + 1]
      /\ e.live = IF d.applied[1] + 1 = RebuiltAt /\ d.live = "absent"
                  THEN "empty" ELSE d.live
  BY <1>2, WriteFields
<1>4. disk'[g] = e /\ \A f \in Files \ {g} : disk'[f] = disk[f]
  BY <1>1 DEF BaseTable
<1>5. d.applied[1] < BaseStatements
  BY DEF BaseTable
<1>6. d.recorded = {}
  BY <1>1, <1>2, <1>5, RecordedHasBase, MigrationAssumption
<1>7. d.applied[1] + 1 = RebuiltAt => d.live = "absent"
  BY <1>1, <1>2, MigrationAssumption DEF UInv, TablesFirst
<1> HIDE DEF e
<1>8. Shows(g, [d.applied EXCEPT ![1] = @ + 1], {},
            IF d.applied[1] + 1 = RebuiltAt THEN "empty" ELSE d.live)
  BY <1>3, <1>4, <1>6, <1>7 DEF Shows
<1> QED
  BY <1>1, <1>2, <1>4, <1>5, <1>6, <1>8 DEF SameSchema

LEMMA RecordBaseWrites ==
  ASSUME IInv, UInv, NEW p \in Procs, RecordBase(p)
  PROVE  /\ file[p] \in Files
         /\ \A f \in Files \ {file[p]} : SameSchema(f)
         /\ disk[file[p]].applied[1] = BaseStatements
         /\ LET d == disk[file[p]]
            IN  IF 1 \in d.recorded
                THEN SameSchema(file[p])
                ELSE d.recorded = {} /\ Shows(file[p], d.applied, {1}, d.live)
<1> DEFINE g == file[p]
           d == disk[g]
           e == [d EXCEPT !.recorded = @ \cup {1}]
<1>1. g \in Files /\ disk \in [Files -> Database]
  BY OpenFileKnown DEF IInv, StoreInv, StoreTypeOK, RecordBase
<1>2. d \in Database
  BY <1>1
<1>3. /\ e.recorded = d.recorded \cup {1} /\ e.copy = d.copy
      /\ e.applied = d.applied /\ e.live = d.live
  BY <1>2, WriteFields
<1>4. disk'[g] = e /\ \A f \in Files \ {g} : disk'[f] = disk[f]
  BY <1>1 DEF RecordBase
<1>5. d.applied[1] = BaseStatements
  BY DEF RecordBase
<1>7. 1 \notin d.recorded => d.recorded = {}
  <2>1. \A w \in d.recorded : 1 \in 1..w
    BY <1>2, MigrationAssumption DEF Database, Versions
  <2> QED
    BY <1>1, <2>1 DEF UInv, NoGap
<1> HIDE DEF e
<1> QED
  BY <1>1, <1>3, <1>4, <1>5, <1>7 DEF SameSchema, Shows

LEMMA UpTo ==
  ASSUME NEW n \in Nat, n > 1
  PROVE  (1..(n - 1)) \cup {n} = 1..n /\ 1..(n - 1) # {}
<1>1. \A w : w \in (1..(n - 1)) \cup {n} <=> w \in 1..n
  OBVIOUS
<1>2. 1 \in 1..(n - 1)
  OBVIOUS
<1>3. (1..(n - 1)) \cup {n} = 1..n
  BY <1>1
<1> QED
  BY <1>2, <1>3

LEMMA CommitWrites ==
  ASSUME IInv, UInv, NEW p \in Procs, Commit(p)
  PROVE  /\ file[p] \in Files
         /\ \A f \in Files \ {file[p]} : SameSchema(f)
         /\ LET d == disk[file[p]]
                v == version[p]
            IN  /\ v \in 2..LastVersion
                /\ d.applied[v] = 0 /\ d.recorded = 1..(v - 1) /\ d.live # "absent"
                /\ Shows(file[p], [d.applied EXCEPT ![v] = @ + 1], 1..v, d.live)
<1> DEFINE g == file[p]
           d == disk[g]
           v == version[p]
<1>1. g \in Files /\ disk \in [Files -> Database] /\ at[p] = "commit"
  BY OpenFileKnown DEF IInv, StoreInv, StoreTypeOK, Commit
<1>2. d \in Database /\ v \in 2..LastVersion
  BY <1>1 DEF IInv, StoreInv, StoreTypeOK
<1>3. /\ work[p].applied = [d.applied EXCEPT ![v] = @ + 1]
      /\ work[p].live = d.live
      /\ work[p].recorded = d.recorded \cup {v} /\ v \notin d.recorded
  BY <1>1 DEF IInv, StoreInv, WorkIsDisk, WorkOf, InTx
<1>4. disk'[g] = work[p] /\ \A f \in Files \ {g} : disk'[f] = disk[f]
  BY <1>1 DEF Commit
<1>5. d.applied[v] = 0
  BY <1>1, <1>2, <1>3 DEF IInv, StoreInv, MigrationsAreAtomic
<1>7. d.recorded = 1..(v - 1) /\ v \in Nat /\ v > 1
  <2>1. 1..(v - 1) \subseteq d.recorded
    BY <1>1 DEF IInv, StoreInv, Progress, InTx
  <2>2. ASSUME NEW w \in d.recorded PROVE w \in 1..(v - 1)
    <3>0. w \in 1..LastVersion
      BY <1>2, <2>2 DEF Database, Versions
    <3>1. w \in Nat /\ w >= 1 /\ v \in Nat /\ v > 1
      BY <1>2, <3>0, VersionFacts, MigrationAssumption
    <3>2. 1..w \subseteq d.recorded
      BY <1>1 DEF UInv, NoGap
    <3> QED
      BY <1>3, <3>1, <3>2
  <2>3. d.recorded = 1..(v - 1)
    BY <2>1, <2>2
  <2> QED
    BY <1>2, <2>3, VersionFacts
<1>8. d.recorded \cup {v} = 1..v /\ d.recorded # {}
  BY <1>7, UpTo
<1>9. d.live # "absent"
  BY <1>1, <1>8, RecordedHasBase
<1> QED
  BY <1>1, <1>2, <1>3, <1>4, <1>5, <1>7, <1>8, <1>9 DEF SameSchema, Shows

LEMMA UInvStep ==
  ASSUME IInv, UInv, [Next]_vars
  PROVE  UInv'
<1>1. ASSUME NEW f \in Files, SameSchema(f)
      PROVE  /\ disk'[f].live = "absent" <=> disk'[f].applied[1] < RebuiltAt
             /\ \A w \in disk'[f].recorded : 1..w \subseteq disk'[f].recorded
  BY <1>1 DEF SameSchema, UInv, TablesFirst, NoGap
<1>2. ASSUME NEW g \in Files, \A f \in Files \ {g} : SameSchema(f),
             disk'[g].live = "absent" <=> disk'[g].applied[1] < RebuiltAt,
             \A w \in disk'[g].recorded : 1..w \subseteq disk'[g].recorded
      PROVE  UInv'
  BY <1>1, <1>2 DEF UInv, TablesFirst, NoGap
<1>3. CASE \A f \in Files : SameSchema(f)
  BY <1>1, <1>3 DEF UInv, TablesFirst, NoGap
<1>4. ASSUME NEW p \in Procs, BaseTable(p) PROVE UInv'
  <2> DEFINE g == file[p]
             d == disk[g]
  <2>1. /\ g \in Files /\ \A f \in Files \ {g} : SameSchema(f)
        /\ Shows(g, [d.applied EXCEPT ![1] = @ + 1], {},
                 IF d.applied[1] + 1 = RebuiltAt THEN "empty" ELSE d.live)
        /\ d.applied \in [Versions -> Nat]
    BY <1>4, BaseTableWrites
  <2>2. disk'[g].applied[1] = d.applied[1] + 1 /\ d.applied[1] \in Nat
    BY <2>1, VersionFacts DEF Shows
  <2>3. d.live = "absent" <=> d.applied[1] < RebuiltAt
    BY <2>1 DEF UInv, TablesFirst
  <2>4. disk'[g].live = "absent" <=> disk'[g].applied[1] < RebuiltAt
    BY <2>1, <2>2, <2>3, MigrationAssumption DEF Shows
  <2> QED
    BY <1>2, <2>1, <2>4 DEF Shows
<1>5. ASSUME NEW p \in Procs, RecordBase(p) PROVE UInv'
  <2> DEFINE g == file[p]
             d == disk[g]
  <2>1. CASE 1 \in d.recorded
    BY <1>3, <1>5, <2>1, RecordBaseWrites
  <2>2. CASE 1 \notin d.recorded
    <3>1. /\ g \in Files /\ \A f \in Files \ {g} : SameSchema(f)
          /\ Shows(g, d.applied, {1}, d.live)
      BY <1>5, <2>2, RecordBaseWrites
    <3>2. \A w \in {1} : 1..w \subseteq {1}
      OBVIOUS
    <3>3. disk'[g].live = "absent" <=> disk'[g].applied[1] < RebuiltAt
      BY <3>1 DEF Shows, UInv, TablesFirst
    <3> QED
      BY <1>2, <3>1, <3>2, <3>3 DEF Shows
  <2> QED
    BY <2>1, <2>2
<1>6. ASSUME NEW p \in Procs, Commit(p) PROVE UInv'
  <2> DEFINE g == file[p]
             d == disk[g]
             v == version[p]
  <2>1. /\ g \in Files /\ \A f \in Files \ {g} : SameSchema(f)
        /\ Shows(g, [d.applied EXCEPT ![v] = @ + 1], 1..v, d.live)
        /\ v \in 2..LastVersion
    BY <1>6, CommitWrites
  <2>2. d.applied \in [Versions -> Nat]
    BY <2>1 DEF IInv, StoreInv, StoreTypeOK, Database
  <2>3. disk'[g].applied[1] = d.applied[1]
    <3>1. disk'[g].applied = [d.applied EXCEPT ![v] = @ + 1]
      BY <2>1 DEF Shows
    <3>2. 1 \in Versions /\ v # 1
      BY <2>1, VersionFacts
    <3> HIDE DEF d, v
    <3> QED BY <2>2, <3>1, <3>2
  <2>4. \A w \in 1..v : 1..w \subseteq 1..v
    BY <2>1, VersionFacts
  <2>5. disk'[g].live = "absent" <=> disk'[g].applied[1] < RebuiltAt
    BY <2>1, <2>3 DEF Shows, UInv, TablesFirst
  <2> QED
    BY <1>2, <2>1, <2>4, <2>5 DEF Shows
<1>7. CASE UNCHANGED vars
  BY <1>3, <1>7 DEF vars, storeVars, SameSchema
<1> QED
  BY <1>3, <1>4, <1>5, <1>6, <1>7, SchemaWrites

LEMMA SchemaOf ==
  ASSUME IInv, IInv'
  PROVE  /\ Schema = [f \in Files |-> Schema[f]]
         /\ Schema' = [f \in Files |-> Schema'[f]]
         /\ \A f \in Files : /\ Schema[f] = [applied |-> disk[f].applied,
                                             recorded |-> disk[f].recorded,
                                             rows |-> disk[f].live]
                             /\ Schema'[f] = [applied |-> disk'[f].applied,
                                              recorded |-> disk'[f].recorded,
                                              rows |-> disk'[f].live]
BY DEF Schema, IInv, StoreInv, MigrationsAreAtomic

\* A change of one file.
LEMMA SchemaChange ==
  ASSUME IInv, IInv', NEW g \in Files, NEW a, NEW r, NEW l,
         Shows(g, a, r, l), \A f \in Files \ {g} : SameSchema(f)
  PROVE  Schema' = [Schema EXCEPT ![g] = [applied |-> a, recorded |-> r, rows |-> l]]
<1> DEFINE T == [Schema EXCEPT ![g] = [applied |-> a, recorded |-> r, rows |-> l]]
<1>1. \A f \in Files : Schema'[f] = T[f]
  <2>1. Schema'[g] = [applied |-> a, recorded |-> r, rows |-> l]
    BY SchemaOf DEF Shows
  <2>2. \A f \in Files \ {g} : Schema'[f] = Schema[f]
    BY SchemaOf DEF SameSchema
  <2>3. Schema = [f \in Files |-> Schema[f]]
    BY SchemaOf
  <2> QED
    BY <2>1, <2>2, <2>3
<1>2. T = [f \in Files |-> T[f]] /\ Schema' = [f \in Files |-> Schema'[f]]
  BY SchemaOf
<1> HIDE DEF T
<1>3. Schema' = T
  BY <1>1, <1>2
<1> QED
  BY <1>3 DEF T

LEMMA SchemaSame ==
  ASSUME IInv, IInv', \A f \in Files : SameSchema(f)
  PROVE  Schema' = Schema
<1>1. \A f \in Files : Schema'[f] = Schema[f]
  BY SchemaOf DEF SameSchema
<1>2. Schema = [f \in Files |-> Schema[f]] /\ Schema' = [f \in Files |-> Schema'[f]]
  BY SchemaOf
<1> QED
  BY <1>1, <1>2

LEMMA SchemaInit == Init => Upgrades!Init
<1> SUFFICES ASSUME Init PROVE Upgrades!Init
  OBVIOUS
<1>1. ASSUME NEW f \in Files
      PROVE  Schema[f] \in {Upgrades!Empty, Upgrades!Old}
  <2>1. disk[f] = NewDatabase \/ \E b \in BOOLEAN : disk[f] = OldDatabase(b)
    BY VersionFacts DEF Init, StoreInit
  <2>2. Schema[f] = [applied |-> disk[f].applied, recorded |-> disk[f].recorded,
                     rows |-> IF disk[f].copy = "absent" THEN disk[f].live ELSE "half"]
    BY DEF Schema
  <2>3. CASE disk[f] = NewDatabase
    BY <2>2, <2>3 DEF NewDatabase, Upgrades!Empty, Upgrades!Versions, Versions
  <2>4. CASE \E b \in BOOLEAN : disk[f] = OldDatabase(b)
    BY <2>2, <2>4 DEF OldDatabase, Upgrades!Old, Upgrades!Versions, Versions
  <2> QED
    BY <2>1, <2>3, <2>4
<1>2. Schema = [f \in Files |-> Schema[f]]
  BY DEF Schema
<1> HIDE DEF Schema
<1>3. Schema \in [Files -> {Upgrades!Empty, Upgrades!Old}]
  BY <1>1, <1>2
<1> QED
  BY <1>3 DEF Upgrades!Init

\* Every step is one step of the upgrade of one file, or none.
LEMMA SchemaStep ==
  ASSUME IInv, IInv', UInv, [Next]_vars
  PROVE  [Upgrades!Next]_Schema
<1>1. CASE \A f \in Files : SameSchema(f)
  BY <1>1, SchemaSame
<1>2. ASSUME NEW p \in Procs, BaseTable(p) PROVE [Upgrades!Next]_Schema
  <2> DEFINE g == file[p]
             d == disk[g]
             l == IF d.applied[1] + 1 = RebuiltAt THEN "empty" ELSE d.live
  <2>1. /\ g \in Files /\ \A f \in Files \ {g} : SameSchema(f)
        /\ Shows(g, [d.applied EXCEPT ![1] = @ + 1], {}, l)
        /\ d.recorded = {} /\ d.applied[1] < BaseStatements
    BY <1>2, BaseTableWrites
  <2>2. Schema' = [Schema EXCEPT ![g] = [applied |-> [d.applied EXCEPT ![1] = @ + 1],
                                         recorded |-> {}, rows |-> l]]
    <3> DEFINE a == [d.applied EXCEPT ![1] = @ + 1]
    <3>1. Shows(g, a, {}, l)
      BY <2>1
    <3> HIDE DEF a, g, l
    <3> QED BY <2>1, <3>1, SchemaChange
  <2>3. Schema[g] = [applied |-> d.applied, recorded |-> {}, rows |-> d.live]
    BY <2>1, SchemaOf
  <2>4. Upgrades!CreateNext(g)
    <3>1. /\ Schema[g].applied = d.applied
          /\ Schema[g].recorded = {} /\ Schema[g].rows = d.live
      BY <2>3
    <3>2. Upgrades!Applied(g, 1) = [d.applied EXCEPT ![1] = @ + 1]
      BY <3>1, Zenon DEF Upgrades!Applied
    <3>3. l = IF Schema[g].applied[1] + 1 = RebuiltAt THEN "empty" ELSE Schema[g].rows
      BY <3>1
    <3>4. Schema[g].applied[1] < BaseStatements
      BY <2>1, <3>1
    <3> HIDE DEF g, d, l
    <3>5. Schema' = [Schema EXCEPT ![g] =
                       [applied |-> Upgrades!Applied(g, 1), recorded |-> {},
                        rows |-> IF Schema[g].applied[1] + 1 = RebuiltAt
                                 THEN "empty" ELSE Schema[g].rows]]
      BY <2>2, <3>2, <3>3, Zenon
    <3> QED BY <3>1, <3>4, <3>5, Zenon DEF Upgrades!CreateNext
  <2> QED
    BY <2>1, <2>4 DEF Upgrades!Next
<1>3. ASSUME NEW p \in Procs, RecordBase(p) PROVE [Upgrades!Next]_Schema
  <2> DEFINE g == file[p]
             d == disk[g]
  <2>1. CASE 1 \in d.recorded
    BY <1>1, <1>3, <2>1, RecordBaseWrites
  <2>2. CASE 1 \notin d.recorded
    <3>1. /\ g \in Files /\ \A f \in Files \ {g} : SameSchema(f)
          /\ Shows(g, d.applied, {1}, d.live)
          /\ d.applied[1] = BaseStatements /\ d.recorded = {}
      BY <1>3, <2>2, RecordBaseWrites
    <3>2. Schema' = [Schema EXCEPT ![g] = [applied |-> d.applied, recorded |-> {1},
                                           rows |-> d.live]]
      BY <3>1, SchemaChange
    <3>3. Schema[g] = [applied |-> d.applied, recorded |-> {}, rows |-> d.live]
      BY <3>1, SchemaOf
    <3>4. Upgrades!RecordFirst(g)
      BY <3>1, <3>2, <3>3 DEF Upgrades!RecordFirst
    <3> QED
      BY <3>1, <3>4 DEF Upgrades!Next
  <2> QED
    BY <2>1, <2>2
<1>4. ASSUME NEW p \in Procs, Commit(p) PROVE [Upgrades!Next]_Schema
  <2> DEFINE g == file[p]
             d == disk[g]
             v == version[p]
  <2>1. /\ g \in Files /\ \A f \in Files \ {g} : SameSchema(f)
        /\ Shows(g, [d.applied EXCEPT ![v] = @ + 1], 1..v, d.live)
        /\ v \in 2..LastVersion /\ d.applied[v] = 0 /\ d.recorded = 1..(v - 1)
    BY <1>4, CommitWrites
  <2>2. Schema' = [Schema EXCEPT ![g] = [applied |-> [d.applied EXCEPT ![v] = @ + 1],
                                         recorded |-> 1..v, rows |-> d.live]]
    BY <2>1, SchemaChange
  <2>3. Schema[g] = [applied |-> d.applied, recorded |-> 1..(v - 1), rows |-> d.live]
    BY <2>1, SchemaOf
  <2>4. Upgrades!Upgrade(g, v)
    <3>1. /\ Schema[g].applied = d.applied
          /\ Schema[g].recorded = 1..(v - 1) /\ Schema[g].rows = d.live
      BY <2>3
    <3>2. Upgrades!Applied(g, v) = [d.applied EXCEPT ![v] = @ + 1]
      BY <3>1, Zenon DEF Upgrades!Applied
    <3> HIDE DEF g, d, v
    <3>3. Schema' = [Schema EXCEPT ![g] = [applied |-> Upgrades!Applied(g, v),
                                           recorded |-> 1..v, rows |-> Schema[g].rows]]
      BY <2>2, <3>1, <3>2, Zenon
    <3>4. Schema[g].applied[v] = 0
      BY <2>1, <3>1, Zenon
    <3> QED BY <3>1, <3>3, <3>4, Zenon DEF Upgrades!Upgrade
  <2> QED
    BY <2>1, <2>4 DEF Upgrades!Next
<1>5. CASE UNCHANGED vars
  BY <1>1, <1>5 DEF vars, storeVars, SameSchema
<1> QED
  BY <1>1, <1>2, <1>3, <1>4, <1>5, SchemaWrites

\* migrate, by any number of processes that race, fail and are killed, makes the
\* base tables one after the other and then upgrades a database version by
\* version: each in one step, in order, once, and with the rows it had.
THEOREM SetupUpgradesInOrder == Spec => UpgradesInOrder
<1>1. Spec => [](IInv /\ UInv)
  <2>1. Init => UInv
    BY InitUInv
  <2>2. IInv /\ UInv /\ [Next]_vars => UInv'
    BY UInvStep
  <2> QED
    BY <2>1, <2>2, Invariance, PTL DEF Spec
<1>2. Init => Upgrades!Init
  BY SchemaInit
<1>3. IInv /\ UInv /\ IInv' /\ [Next]_vars => [Upgrades!Next]_Schema
  BY SchemaStep
<1> QED
  BY <1>1, <1>2, <1>3, PTL DEF Spec, UpgradesInOrder, Upgrades!Spec


\* The write lock of a database belongs to a running process that is between
\* the statements of its own migration of that file: a start that fails, ends
\* or is killed leaves none behind, a serving gateway holds none, and nobody
\* who holds one waits for another.
LockHolderMigrates ==
  \A p \in Procs, f \in Files : lock[f] = p =>
    /\ pc[p] \in {"initOpen", "open"}
    /\ at[p] \in InTx /\ file[p] = f
    /\ \A g \in Files : lock[g] = p => g = f

\* Open with its busy_timeout: whom a start waits for can always go on, which
\* is why the wait ends (StartsSettle).
THEOREM SetupLockHolderMigrates == Spec => []LockHolderMigrates
<1>1. ASSUME IInv, NEW p \in Procs, NEW f \in Files, lock[f] = p
      PROVE  /\ pc[p] \in {"initOpen", "open"}
             /\ at[p] \in InTx /\ file[p] = f
             /\ \A g \in Files : lock[g] = p => g = f
  <2>1. at[p] \in InTx /\ \A g \in Files : lock[g] = p => file[p] = g
    BY <1>1 DEF IInv, StoreInv, Locks
  <2>2. at[p] # "closed" /\ at[p] # "ready"
    BY <2>1 DEF InTx, Statements
  <2> QED BY <1>1, <2>1, <2>2 DEF IInv, Holding
<1>2. IInv => LockHolderMigrates
  BY <1>1 DEF LockHolderMigrates
<1> QED BY <1>2, Invariance, PTL
=============================================================================
