--------------------------------- MODULE Setup ---------------------------------
(***************************************************************************)
(* The life of an installation: sshgatew init, sshgatew install, the       *)
(* container entrypoint, the service and the local commands, as processes  *)
(* that share a configuration file, a master key, a host key and a         *)
(* database (through Migrations).  Every process may fail at any step that *)
(* touches the system, and may be killed at any moment.                    *)
(***************************************************************************)
EXTENDS Migrations

CONSTANT MaxStarts   \* bound on the processes started

ASSUME SetupAssumption ==
  /\ MaxStarts \in Nat
  /\ "absent" \notin Procs /\ "written" \notin Procs

VARIABLES
  fs,         \* fs[n]: the file n: "absent", "written", or the process that
              \* created it and has not written it
  dbPath,     \* the database file at its path, 0 for none
  nfiles,     \* database files created so far
  unit,       \* the systemd unit is written and enabled
  pc,         \* pc[p]: the step p is at
  job,        \* job[p]: what p was started as
  cur,        \* cur[p]: the file p's init looks at
  starts,     \* processes started so far
  killed,     \* history: a process was killed
  overlapped, \* history: a process was started while another one lived
  cfgStayed,  \* history: a failed init could not remove its configuration
  racers      \* history: processes whose init was under way when another
              \* init finished

setupVars == <<fs, dbPath, nfiles, unit, pc, job, cur, starts,
               killed, overlapped, cfgStayed, racers>>
vars == <<storeVars, setupVars>>

Names  == {"cfg", "key", "host"}
Paths  == Names \cup {"db"}
Jobs   == {"container", "init", "install", "service", "command"}

\* The steps of initCommand, and the deferred removal that undoes them.
InitSteps == {"stat", "create", "write", "initOpen", "addUser", "addKey", "remove"}
Steps == InitSteps \cup
  {"idle", "precheck", "prepare", "chown", "enable",
   "load", "open", "master", "hostkey", "serving"}

\* The order in which initCommand looks at, creates and removes the files.
StatNext(n)   == CASE n = "cfg" -> "db" [] n = "db" -> "key" [] OTHER -> "host"
CreateNext(n) == IF n = "key" THEN "host" ELSE "cfg"
RemoveNext(n) == CASE n = "key" -> "host" [] n = "host" -> "cfg" [] OTHER -> "db"

Exists(n) == IF n = "db" THEN dbPath # 0 ELSE fs[n] # "absent"

Installed ==
  /\ \A n \in Names : fs[n] = "written"
  /\ dbPath # 0
  /\ disk[dbPath].admin /\ disk[dbPath].key

\* A version 1 installation to upgrade: its table has rows, and references
\* may dangle in it.
OldDatabase(dangling) ==
  [applied |-> [v \in Versions |-> IF v = 1 THEN BaseStatements ELSE 0],
   recorded |-> {1},
   live |-> "full", copy |-> "absent",
   admin |-> TRUE, key |-> TRUE, dangling |-> dangling]

Init ==
  /\ \/ /\ fs = [n \in Names |-> "absent"]
        /\ dbPath = 0 /\ nfiles = 0 /\ unit = FALSE
        /\ StoreInit([f \in Files |-> NewDatabase])
     \/ /\ fs = [n \in Names |-> "written"]
        /\ dbPath = 1 /\ nfiles = 1 /\ unit = TRUE
        /\ \E dangling \in BOOLEAN :
             StoreInit([[f \in Files |-> NewDatabase] EXCEPT
                          ![1] = OldDatabase(dangling)])
  /\ pc = [p \in Procs |-> "idle"]
  /\ job = [p \in Procs |-> "init"]
  /\ cur = [p \in Procs |-> "cfg"]
  /\ starts = 0
  /\ killed = FALSE /\ overlapped = FALSE /\ cfgStayed = FALSE
  /\ racers = {}

Goto(p, s) == pc' = [pc EXCEPT ![p] = s]
At(p, s, n) == Goto(p, s) /\ cur' = [cur EXCEPT ![p] = n]

\* What every step but a start, a kill and the end of an init leaves alone.
Quiet == UNCHANGED <<unit, job, starts, killed, overlapped, cfgStayed, racers>>

-----------------------------------------------------------------------------
(* Starting a process.                                                     *)

\* The entrypoint initialises only when there is no configuration file; the
\* unit of the service exists once the installer enabled it.
FirstStep(j) ==
  CASE j = "container" -> IF Exists("cfg") THEN "load" ELSE "stat"
    [] j = "init"      -> "stat"
    [] j = "install"   -> "precheck"
    [] OTHER           -> "load"

Start(p, j) ==
  /\ pc[p] = "idle"
  /\ starts < MaxStarts
  /\ j = "service" => unit
  /\ starts' = starts + 1
  /\ job' = [job EXCEPT ![p] = j]
  /\ At(p, FirstStep(j), "cfg")
  /\ overlapped' = (overlapped \/ \E q \in Procs : pc[q] # "idle")
  /\ UNCHANGED <<fs, dbPath, nfiles, unit, killed, cfgStayed, racers, storeVars>>

-----------------------------------------------------------------------------
(* performInstall around initCommand.                                      *)

\* Refuses when the configuration or the database exists.
Precheck(p) ==
  /\ pc[p] = "precheck"
  /\ ~Exists("cfg") /\ ~Exists("db")
  /\ Goto(p, "prepare")
  /\ Quiet /\ UNCHANGED <<fs, dbPath, nfiles, cur, storeVars>>

\* Service account, directories, executable, temporary key file.
Prepare(p) ==
  /\ pc[p] = "prepare"
  /\ At(p, "stat", "cfg")
  /\ Quiet /\ UNCHANGED <<fs, dbPath, nfiles, storeVars>>

Chown(p) ==
  /\ pc[p] = "chown"
  /\ \A n \in Paths : Exists(n)
  /\ Goto(p, "enable")
  /\ Quiet /\ UNCHANGED <<fs, dbPath, nfiles, cur, storeVars>>

\* atomicWrite of the unit (a rename), daemon-reload, enable.
Enable(p) ==
  /\ pc[p] = "enable"
  /\ unit' = TRUE
  /\ Goto(p, "idle")
  /\ racers' = racers \ {p}
  /\ UNCHANGED <<fs, dbPath, nfiles, job, cur, starts, killed, overlapped,
                 cfgStayed, storeVars>>

-----------------------------------------------------------------------------
(* initCommand.                                                            *)

\* os.Stat of configuration, database, master key, host key, one by one.
Stat(p) ==
  /\ pc[p] = "stat"
  /\ ~Exists(cur[p])
  /\ IF cur[p] = "host" THEN At(p, "create", "key")
                        ELSE At(p, "stat", StatNext(cur[p]))
  /\ Quiet /\ UNCHANGED <<fs, dbPath, nfiles, storeVars>>

\* OpenFile with O_CREATE|O_EXCL: Generate, generateHostKey, config.Write.
CreateFile(p) ==
  /\ pc[p] = "create"
  /\ fs[cur[p]] = "absent"
  /\ fs' = [fs EXCEPT ![cur[p]] = p]
  /\ Goto(p, "write")
  /\ Quiet /\ UNCHANGED <<dbPath, nfiles, cur, storeVars>>

\* Write and Sync go to the file p created; where another process has
\* removed its path, what is at the path now is another file.
WriteFile(p) ==
  /\ pc[p] = "write"
  /\ fs' = [fs EXCEPT ![cur[p]] = IF @ = p THEN "written" ELSE @]
  /\ IF cur[p] = "cfg" THEN At(p, "initOpen", "cfg")
                       ELSE At(p, "create", CreateNext(cur[p]))
  /\ Quiet /\ UNCHANGED <<dbPath, nfiles, storeVars>>

\* The administrators of two concurrent inits may have the same name, and the
\* second insert is refused (Blocked), or two names.
AddUser(p) ==
  /\ pc[p] = "addUser"
  /\ CanWrite(p)
  /\ disk' = [disk EXCEPT ![file[p]].admin = TRUE]
  /\ Goto(p, "addKey")
  /\ Quiet /\ UNCHANGED <<fs, dbPath, nfiles, cur, lock, file, at, version, work, warned>>

\* AddGatewayKey and success: from here on nothing is removed.  The audit
\* row is written on a best-effort basis.
AddKey(p) ==
  /\ pc[p] = "addKey"
  /\ CanWrite(p)
  /\ disk' = [disk EXCEPT ![file[p]].key = TRUE]
  /\ file' = [file EXCEPT ![p] = 0]
  /\ at' = [at EXCEPT ![p] = "closed"]
  /\ Goto(p, CASE job[p] = "container" -> "load"
               [] job[p] = "install"   -> "chown"
               [] OTHER                -> "idle")
  /\ racers' = (racers \ {p}) \cup {q \in Procs \ {p} : pc[q] \in InitSteps}
  /\ UNCHANGED <<fs, dbPath, nfiles, unit, job, cur, starts, killed,
                 overlapped, cfgStayed, lock, version, work, warned>>

\* The deferred function: os.Remove of every path, whoever made it; the error
\* of each is ignored.  (The -wal and -shm files stand for the database file:
\* SQLite removes them itself when the last process closes it.)
NextRemoval(p) ==
  IF cur[p] = "db"
  THEN /\ Goto(p, "idle")
       /\ racers' = racers \ {p}
       /\ UNCHANGED cur
  ELSE /\ At(p, "remove", RemoveNext(cur[p]))
       /\ UNCHANGED racers

Remove(p) ==
  /\ pc[p] = "remove"
  /\ IF cur[p] = "db"
     THEN /\ dbPath' = 0
          /\ UNCHANGED fs
     ELSE /\ fs' = [fs EXCEPT ![cur[p]] = "absent"]
          /\ UNCHANGED dbPath
  /\ NextRemoval(p)
  /\ UNCHANGED <<nfiles, unit, job, starts, killed, overlapped, cfgStayed, storeVars>>

RemoveFails(p) ==
  /\ pc[p] = "remove"
  /\ Exists(cur[p])
  /\ cfgStayed' = (cfgStayed \/ cur[p] = "cfg")
  /\ NextRemoval(p)
  /\ UNCHANGED <<fs, dbPath, nfiles, unit, job, starts, killed, overlapped, storeVars>>

-----------------------------------------------------------------------------
(* serve and the local commands.                                           *)

\* config.Load: a configuration file that was created and never written is
\* a valid one, all defaults.
Load(p) ==
  /\ pc[p] = "load"
  /\ Exists("cfg")
  /\ Goto(p, "open")
  /\ Quiet /\ UNCHANGED <<fs, dbPath, nfiles, cur, storeVars>>

\* store.Open, of init and of serve: SQLite creates a missing file.
Open(p) ==
  /\ pc[p] \in {"initOpen", "open"}
  /\ dbPath = 0 => nfiles < MaxFiles
  /\ IF dbPath = 0
     THEN /\ dbPath' = nfiles + 1 /\ nfiles' = nfiles + 1
     ELSE UNCHANGED <<dbPath, nfiles>>
  /\ OpenFile(p, dbPath')
  /\ Quiet /\ UNCHANGED <<fs, pc, cur>>

Migrate(p) ==
  /\ OpenStep(p)
  /\ UNCHANGED setupVars

Opened(p) ==
  /\ pc[p] \in {"initOpen", "open"}
  /\ at[p] = "ready"
  /\ \/ /\ pc[p] = "initOpen"
        /\ Goto(p, "addUser")
        /\ UNCHANGED storeVars
     \/ /\ pc[p] = "open" /\ job[p] # "command"
        /\ Goto(p, "master")
        /\ UNCHANGED storeVars
     \/ /\ pc[p] = "open" /\ job[p] = "command"
        /\ Goto(p, "idle")
        /\ CloseStore(p)
  /\ Quiet /\ UNCHANGED <<fs, dbPath, nfiles, cur>>

\* secrets.Load and gateway.New.
LoadKey(p) ==
  /\ \/ pc[p] = "master"  /\ fs["key"] = "written"  /\ Goto(p, "hostkey")
     \/ pc[p] = "hostkey" /\ fs["host"] = "written" /\ Goto(p, "serving")
  /\ Quiet /\ UNCHANGED <<fs, dbPath, nfiles, cur, storeVars>>

\* A signal, or ListenAndServe returns.
Stop(p) ==
  /\ pc[p] = "serving"
  /\ Goto(p, "idle")
  /\ CloseStore(p)
  /\ Quiet /\ UNCHANGED <<fs, dbPath, nfiles, cur>>

-----------------------------------------------------------------------------
(* Failures.                                                               *)

\* Where the error return leads: past the checks of init, to the removal.
OnErrorAlwaysCleans(s) == IF s \in InitSteps THEN "remove" ELSE "idle"
OnErrorKeepsConfigured(s) == IF s \in {"create", "write"} THEN "remove" ELSE "idle"

OnError(s) == IF s \in InitSteps \ {"stat"} THEN "remove" ELSE "idle"

\* What the state itself refuses.
Blocked(p) ==
  \/ pc[p] = "precheck" /\ (Exists("cfg") \/ Exists("db"))
  \/ pc[p] = "stat" /\ Exists(cur[p])
  \/ pc[p] = "create" /\ fs[cur[p]] # "absent"
  \/ pc[p] = "addUser" /\ disk[file[p]].admin
  \/ pc[p] = "chown" /\ \E n \in Paths : ~Exists(n)
  \/ pc[p] = "load" /\ ~Exists("cfg")
  \/ pc[p] = "master" /\ fs["key"] # "written"
  \/ pc[p] = "hostkey" /\ fs["host"] # "written"
  \/ MustFail(p)

\* An error return of the step p is at; any step that touches the system
\* may also fail without a reason in the state.
ReturnError(p) ==
  /\ pc[p] \notin {"idle", "serving", "remove"}
  /\ At(p, OnError(pc[p]), "key")
  /\ racers' = IF OnError(pc[p]) = "idle" THEN racers \ {p} ELSE racers
  /\ CloseStore(p)
  /\ UNCHANGED <<fs, dbPath, nfiles, unit, job, starts, killed, overlapped, cfgStayed>>

Refuse(p) == Blocked(p) /\ ReturnError(p)
SystemError(p) == ~Blocked(p) /\ ReturnError(p)

\* SIGKILL or a power failure: no deferred function runs.
Kill(p) ==
  /\ pc[p] # "idle"
  /\ At(p, "idle", "cfg")
  /\ killed' = TRUE
  /\ racers' = racers \ {p}
  /\ CloseStore(p)
  /\ UNCHANGED <<fs, dbPath, nfiles, unit, job, starts, overlapped, cfgStayed>>

-----------------------------------------------------------------------------
Step(p) ==
  \/ Precheck(p) \/ Prepare(p) \/ Chown(p) \/ Enable(p)
  \/ Stat(p) \/ CreateFile(p) \/ WriteFile(p) \/ AddUser(p) \/ AddKey(p)
  \/ Remove(p)
  \/ Load(p) \/ Open(p) \/ Migrate(p) \/ Opened(p) \/ LoadKey(p)
  \/ Refuse(p)

Next ==
  \E p \in Procs :
    \/ \E j \in Jobs : Start(p, j)
    \/ Step(p)
    \/ SystemError(p) \/ RemoveFails(p)
    \/ Stop(p)
    \/ Kill(p)

\* A process that runs goes on; nothing makes one start, stop, fail for an
\* outside reason or be killed.
Spec == Init /\ [][Next]_vars /\ \A p \in Procs : WF_vars(Step(p))

-----------------------------------------------------------------------------
TypeOK ==
  /\ StoreTypeOK
  /\ fs \in [Names -> {"absent", "written"} \cup Procs]
  /\ dbPath \in 0..MaxFiles
  /\ nfiles \in 0..MaxFiles
  /\ unit \in BOOLEAN
  /\ pc \in [Procs -> Steps]
  /\ job \in [Procs -> Jobs]
  /\ cur \in [Procs -> Paths]
  /\ starts \in 0..MaxStarts
  /\ killed \in BOOLEAN /\ overlapped \in BOOLEAN /\ cfgStayed \in BOOLEAN
  /\ racers \subseteq Procs

\* "Initialization fails rather than overwriting existing state": a complete
\* installation loses a file only to the deferred removal of an init that was
\* under way when that installation was finished.
FinishedSurvives ==
  [][Installed /\ ~Installed' => \E p \in racers : pc[p] = "remove"]_vars

\* A gateway that serves has its bootstrap administrator, whatever failed
\* before: an init that returns an error leaves nothing behind that the next
\* start takes for an installation, even where keys or the database could not
\* be removed.  The exceptions: a process was killed (between config.Write and
\* AddGatewayKey), two overlapped, or the configuration itself could not be
\* removed.
ServesAnAdministrator ==
  \A p \in Procs :
    pc[p] = "serving" =>
      disk[file[p]].key \/ killed \/ overlapped \/ cfgStayed

\* A store that Open returned has the base tables and every version, exactly once,
\* whichever processes migrated the file, raced or died on the way.
OpenedIsMigrated ==
  \A p \in Procs : at[p] = "ready" =>
    /\ disk[file[p]].recorded = Versions
    /\ disk[file[p]].applied[1] = BaseStatements
    /\ \A v \in 2..LastVersion : disk[file[p]].applied[v] = 1

\* A committed database is never between two later versions: each migration
\* took effect exactly when it is recorded, and no half-built table is left.
MigrationsAreAtomic ==
  \A f \in Files :
    /\ \A v \in 2..LastVersion :
         disk[f].applied[v] = IF v \in disk[f].recorded THEN 1 ELSE 0
    /\ disk[f].copy = "absent"

\* Rebuilding a table never loses the rows it had.
RowsKept ==
  [][\A f \in Files : disk[f].live = "full" => disk'[f].live = "full"]_vars

\* The processes that open, migrate, fail and die around the statements of
\* migrate implement the upgrade of one database after the other: the base
\* tables one by one, wherever earlier processes died among them, then version
\* by version in one step each: a table under reconstruction is never committed.
Schema ==
  [f \in Files |->
     [applied |-> disk[f].applied, recorded |-> disk[f].recorded,
      rows |-> IF disk[f].copy = "absent" THEN disk[f].live ELSE "half"]]

Upgrades == INSTANCE SchemaUpgrade WITH schema <- Schema
UpgradesInOrder == Upgrades!Spec

\* "Database migration failure prevents startup", as far as it goes: a gateway
\* serves a database with dangling references only after a start that reported
\* them or ended between the commit and the check, or while one is still there.
DanglingWasReported ==
  \A p \in Procs : pc[p] = "serving" /\ disk[file[p]].dangling =>
    warned \/ \E q \in Procs : at[q] = "fkcheck"

\* No start hangs: a process that is not killed ends or serves, whoever holds
\* the database lock and whatever is missing.
StartsSettle ==
  \A p \in Procs : pc[p] # "idle" ~> pc[p] \in {"idle", "serving"}
=============================================================================
