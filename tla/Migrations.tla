------------------------------ MODULE Migrations ------------------------------
(***************************************************************************)
(* store.Open and migrate: what one process does to a database file from   *)
(* opening it to having every schema version, statement by statement.      *)
(*                                                                         *)
(* Version 1 is a script of CREATE ... IF NOT EXISTS that commits          *)
(* statement by statement, so a process that dies leaves part of it, and   *)
(* the next one goes on with what is missing.  Every later version is looked up in            *)
(* schema_migrations first and then runs in a transaction: some versions   *)
(* only add tables and columns, others (Rebuilds) copy a table into a new  *)
(* one, drop it and rename the copy.  After the commit the versions in     *)
(* Checked look for dangling references.  Uncommitted statements are       *)
(* private to the process (work) and SQLite admits one writer per file     *)
(* (lock).  A database file is a number: removing its path does not        *)
(* disturb the processes that have it open.                                *)
(***************************************************************************)
EXTENDS Naturals

CONSTANTS
  Procs,        \* processes that may have a store open
  NoProc,
  MaxFiles,     \* bound on the database files ever created
  BaseStatements, \* CREATE statements of the base script: 12
  RebuiltAt,    \* the one of them that makes the rebuilt table
  LastVersion,  \* 7 in the code
  Rebuilds,     \* versions that rebuild a table: 2, 3 and 5
  Checked       \* versions that check foreign keys after the commit: 2 and 3

ASSUME MigrationAssumption ==
  /\ NoProc \notin Procs
  /\ MaxFiles \in Nat /\ MaxFiles >= 1
  /\ BaseStatements \in Nat /\ RebuiltAt \in 1..BaseStatements
  /\ LastVersion \in Nat /\ LastVersion >= 2
  /\ Rebuilds \subseteq 2..LastVersion
  /\ Checked \subseteq Rebuilds /\ Checked # {}

VARIABLES
  disk,    \* disk[f]: the committed content of database file f
  lock,    \* lock[f]: the process that writes file f, or NoProc
  file,    \* file[p]: the file p has open, 0 for none
  at,      \* at[p]: where p is in Open
  version, \* version[p]: the migration p is at
  work,    \* work[p]: the content as p's open transaction sees it
  warned   \* history: dangling references were reported, or the process
           \* was stopped between the commit and the check

storeVars == <<disk, lock, file, at, version, work, warned>>

Files    == 1..MaxFiles
Versions == 1..LastVersion
Contents == {"absent", "empty", "full"}

\* A database: how many statements of the base script (applied[1]) and how
\* often each later version took effect, the rows of schema_migrations, the
\* rebuilt table and its copy, the bootstrap administrator and its key, and
\* whether a reference dangles.
Database ==
  [applied : [Versions -> Nat], recorded : SUBSET Versions,
   live : Contents, copy : Contents,
   admin : BOOLEAN, key : BOOLEAN, dangling : BOOLEAN]

NewDatabase ==
  [applied |-> [v \in Versions |-> 0], recorded |-> {},
   live |-> "absent", copy |-> "absent",
   admin |-> FALSE, key |-> FALSE, dangling |-> FALSE]

\* The statements of a transaction, in order.
Statements == {"copy", "drop", "rename", "create", "record"}

First(v) == IF v \in Rebuilds THEN "copy" ELSE "create"

After(s) ==
  CASE s = "copy"   -> "drop"
    [] s = "drop"   -> "rename"
    [] s = "rename" -> "record"
    [] s = "create" -> "record"
    [] OTHER        -> "commit"

Stages == Statements \cup
  {"closed", "schema", "count", "begin", "commit", "fkcheck", "ready"}

\* CREATE TABLE of the copy fails when it is there, and schema_migrations has
\* each version once.  (The CREATE and ALTER statements of the other versions
\* fail earlier than their INSERT on a database that has them: the transaction
\* rolls back either way.)
Refused(d, v, s) ==
  \/ s = "copy" /\ (d.copy # "absent" \/ d.live = "absent")
  \/ s = "record" /\ v \in d.recorded

Effect(d, v, s) ==
  CASE s = "copy"   -> [d EXCEPT !.copy = d.live]
    [] s = "drop"   -> [d EXCEPT !.live = "absent"]
    [] s = "rename" -> [d EXCEPT !.live = d.copy, !.copy = "absent",
                                 !.applied[v] = @ + 1]
    [] s = "create" -> [d EXCEPT !.applied[v] = @ + 1]
    [] OTHER        -> [d EXCEPT !.recorded = @ \cup {v}]

CanWrite(p) == lock[file[p]] = NoProc

-----------------------------------------------------------------------------
(* The steps of Open.                                                      *)

\* sql.Open and the pragmas, on the file at the path.
OpenFile(p, f) ==
  /\ at[p] = "closed"
  /\ file' = [file EXCEPT ![p] = f]
  /\ at' = [at EXCEPT ![p] = "schema"]
  /\ UNCHANGED <<disk, lock, version, work, warned>>

\* CREATE ... IF NOT EXISTS: the first statement of the script whose table or
\* index is missing.  The ones before it do nothing.
BaseStatement(d) ==
  [d EXCEPT !.live = IF d.applied[1] + 1 = RebuiltAt /\ d.live = "absent"
                     THEN "empty" ELSE d.live,
            !.applied[1] = @ + 1]

BaseTable(p) ==
  /\ at[p] = "schema"
  /\ CanWrite(p)
  /\ disk[file[p]].applied[1] < BaseStatements
  /\ disk' = [disk EXCEPT ![file[p]] = BaseStatement(@)]
  /\ UNCHANGED <<lock, file, at, version, work, warned>>

\* INSERT OR IGNORE INTO schema_migrations VALUES(1), at the end of the script.
RecordBase(p) ==
  /\ at[p] = "schema"
  /\ CanWrite(p)
  /\ disk[file[p]].applied[1] = BaseStatements
  /\ disk' = [disk EXCEPT ![file[p]].recorded = @ \cup {1}]
  /\ at' = [at EXCEPT ![p] = "count"]
  /\ version' = [version EXCEPT ![p] = 2]
  /\ UNCHANGED <<lock, file, work, warned>>

AdvanceTooFar(p) ==
  IF version[p] > LastVersion
  THEN /\ at' = [at EXCEPT ![p] = "ready"]
       /\ UNCHANGED version
  ELSE /\ at' = [at EXCEPT ![p] = "count"]
       /\ version' = [version EXCEPT ![p] = @ + 1]

AdvanceStopsEarly(p) ==
  IF version[p] + 1 >= LastVersion
  THEN /\ at' = [at EXCEPT ![p] = "ready"]
       /\ UNCHANGED version
  ELSE /\ at' = [at EXCEPT ![p] = "count"]
       /\ version' = [version EXCEPT ![p] = @ + 1]

\* On to the next version, or done.
Advance(p) ==
  IF version[p] = LastVersion
  THEN /\ at' = [at EXCEPT ![p] = "ready"]
       /\ UNCHANGED version
  ELSE /\ at' = [at EXCEPT ![p] = "count"]
       /\ version' = [version EXCEPT ![p] = @ + 1]

\* SELECT count(*) FROM schema_migrations WHERE version=v
Count(p) ==
  /\ at[p] = "count"
  /\ IF version[p] \in disk[file[p]].recorded
     THEN Advance(p)
     ELSE /\ at' = [at EXCEPT ![p] = "begin"]
          /\ UNCHANGED version
  /\ UNCHANGED <<disk, lock, file, work, warned>>

\* The first statement of the transaction takes the write lock.
Begin(p) ==
  /\ at[p] = "begin"
  /\ CanWrite(p)
  /\ lock' = [lock EXCEPT ![file[p]] = p]
  /\ work' = [work EXCEPT ![p] = disk[file[p]]]
  /\ at' = [at EXCEPT ![p] = First(version[p])]
  /\ UNCHANGED <<disk, file, version, warned>>

ExecuteAutocommit(p) ==
  /\ work' = [work EXCEPT ![p] = Effect(@, version[p], at[p])]
  /\ disk' = [disk EXCEPT ![file[p]] = Effect(work[p], version[p], at[p])]

Execute(p) ==
  /\ work' = [work EXCEPT ![p] = Effect(@, version[p], at[p])]
  /\ UNCHANGED disk

Statement(p) ==
  /\ at[p] \in Statements
  /\ ~Refused(work[p], version[p], at[p])
  /\ Execute(p)
  /\ at' = [at EXCEPT ![p] = After(@)]
  /\ UNCHANGED <<lock, file, version, warned>>

Commit(p) ==
  /\ at[p] = "commit"
  /\ disk' = [disk EXCEPT ![file[p]] = work[p]]
  /\ lock' = [lock EXCEPT ![file[p]] = NoProc]
  /\ IF version[p] \in Checked
     THEN /\ at' = [at EXCEPT ![p] = "fkcheck"]
          /\ UNCHANGED version
     ELSE Advance(p)
  /\ work' = [work EXCEPT ![p] = NewDatabase]
  /\ UNCHANGED <<file, warned>>

FkCheckIgnored(p) ==
  /\ at[p] = "fkcheck"
  /\ Advance(p)
  /\ UNCHANGED <<disk, lock, file, work, warned>>

\* pragma_foreign_key_check finds nothing.
FkCheckPasses(p) ==
  /\ at[p] = "fkcheck"
  /\ ~disk[file[p]].dangling
  /\ Advance(p)
  /\ UNCHANGED <<disk, lock, file, work, warned>>

UnlockForgotten(p) == lock

Unlock(p) == [f \in Files |-> IF lock[f] = p THEN NoProc ELSE lock[f]]

\* Close, Rollback, or the end of the process: the transaction is gone.
CloseStore(p) ==
  /\ lock' = Unlock(p)
  /\ file' = [file EXCEPT ![p] = 0]
  /\ at' = [at EXCEPT ![p] = "closed"]
  /\ version' = [version EXCEPT ![p] = 2]
  /\ work' = [work EXCEPT ![p] = NewDatabase]
  /\ warned' = (warned \/ at[p] = "fkcheck")
  /\ UNCHANGED disk

\* What the code itself runs into: a refused statement or a dangling
\* reference.  Every stage may also fail for the file system or because the
\* lock is not free within busy_timeout.
MustFail(p) ==
  \/ at[p] \in Statements /\ Refused(work[p], version[p], at[p])
  \/ at[p] = "fkcheck" /\ disk[file[p]].dangling

OpenStep(p) ==
  \/ BaseTable(p)
  \/ RecordBase(p)
  \/ Count(p)
  \/ Begin(p)
  \/ Statement(p)
  \/ Commit(p)
  \/ FkCheckPasses(p)

StoreInit(d) ==
  /\ disk = d
  /\ lock = [f \in Files |-> NoProc]
  /\ file = [p \in Procs |-> 0]
  /\ at = [p \in Procs |-> "closed"]
  /\ version = [p \in Procs |-> 2]
  /\ work = [p \in Procs |-> NewDatabase]
  /\ warned = FALSE

StoreTypeOK ==
  /\ disk \in [Files -> Database]
  /\ lock \in [Files -> Procs \cup {NoProc}]
  /\ file \in [Procs -> 0..MaxFiles]
  /\ at \in [Procs -> Stages]
  /\ version \in [Procs -> 2..LastVersion]
  /\ work \in [Procs -> Database]
  /\ warned \in BOOLEAN
=============================================================================
