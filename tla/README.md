# SSHGateW: TLA+ models, model checking and proofs

SSHGateW is an SSH gateway written in Go.  Users log in to one server, pick a
target in a terminal menu or name it in the SSH username, and are proxied to
it; administrators manage users, keys, targets and grants in the same menu or
on the command line, on one SQLite database.  This directory holds TLA+
models of the parts of it where several goroutines, processes or providers
meet, TLC configurations that check them on small instances, and TLAPS proofs
of the main results for instances of every size.

Run from this directory:

    tlc -workers 2 -config MCGatewayAccess.cfg MCGateway
    tlapm GatewayProofs.tla

## 1. The system

| Part | State it keeps | Operations | What is hard about it |
|---|---|---|---|
| Accounts and keys (`internal/store/store.go`, driven by `cmd/sshgatew/main.go` and `internal/tui/menu.go`) | tables `users`, `gateway_keys` | add, enable, disable, promote, demote, delete a user; add and remove keys | read, check and write are separate statements without a transaction; several processes work on one file; ids are reused |
| Channel handlers (`internal/gateway/server.go`, `routing.go`) | `Server.total`, `Server.perUser`, one goroutine per channel | menu, routed shell, SFTP, SCP, TCP forward; acquire and release of a slot | many return paths, clients that vanish, access tables that change under a running handler |
| Access control (`store.go`) | `targets`, `groups`, `group_members`, grants, `forward_rules` | `CanAccessCapability`, `ForwardAllowed`, the lists, the mutations | checks on a user row read long ago; checks and lookups by ids that are reused |
| Interactive input (`gateway/input.go`, `tui/remote.go`, `downstream/downstream.go`) | `reads`, `pending`, `err`, three kinds of goroutine | pump, `ReadContext`, `RunRemote`, `ProxyShell` | one keyboard, two consumers in turn, no lock, cancellation racing data |
| TOTP (`internal/totp`, `gateway/auth.go`, menu, store) | table `user_totp` | enrol, remove, challenge | read, validate and consume are separate; codes are valid for three periods |
| OIDC (`internal/oidcdevice`, `auth.go`, menu, store) | table `oidc_identities` | map, link, log in, remove | the provider renames and recycles usernames while a flow is open |
| Target credentials, saved keys (`internal/secrets`, store, menu, main) | `targets`, `ssh_identities` and their ciphertexts | add, replace, select, delete, load for a connection | an add is two statements with a cleanup, a ciphertext is bound to id and kind, ids are reused |
| Downstream connections (`internal/downstream`) | a TCP and SSH connection per session, its goroutines | dial, handshake, proxy, `keepAlive`, close | handshake without a timeout, late replies, a client and a target that vanish or fall silent |
| Migrations (`store.Open`, `migrate`) | `schema_migrations`, the schema | open, seven versions, foreign key check | a crash between two statements, two processes on one file, a check after the commit |
| Initialisation and installation (`cmd/sshgatew`, `deploy/docker-entrypoint.sh`) | configuration, master key, host key, database, systemd unit | `init`, `install`, container entrypoint, `serve`, local commands | a failure removes files by path, processes overlap, a kill leaves half an installation |
| Menu (`internal/tui`) | model of the screen, dialogs, forms | key handling, mutations | stale lists, modal states |
| Audit log, configuration, start and shutdown | `audit_log`, config values | | |

How they meet: every connection authenticates (key, then TOTP; or OIDC, then
TOTP) and every channel on it runs a handler.  A handler reads the user row
once, takes a slot, checks access in the database and dials the target.  The
menu handler alternates between `RunRemote` and `ProxyShell`, which share the
keyboard.  Menus of administrators and CLI processes write the tables that
all handlers read.  Nothing but SQLite and the mutex of the counters
synchronises them.

What makes each part correct:

* accounts: a usable administrator always remains; keys never outlive their
  user; a change reaches the account that was named;
* handlers: the limits hold of the sessions, not only of the counters; every
  slot comes back; nobody is connected without access;
* input: no key lost, duplicated, reordered or given to the wrong reader; the
  menu returns after a shell; no goroutine leaks;
* TOTP: a code works once; an enrolment never locks the user out;
* OIDC: a binding is permanent until somebody entitled changes it; a refused
  login binds nothing;
* credentials: a connection uses only a secret that was entered for its own
  row and kind; a row nobody is working on can be connected with; a cleanup
  deletes what its own operation added;
* downstream: every handler, goroutine and socket of an established connection
  ends when the client or the target is gone or stays silent;
* migrations: after the base script a database is never between two versions,
  what an interrupted base script left is completed, rows survive, a store
  that `Open` returned has every version once;
* installation: a failed init leaves nothing that the next start takes for an
  installation, a finished one is not removed, no start hangs.

## 2. Modules

| Module | Role |
|---|---|
| `Accounts` | users and gateway keys, one step per SQL statement |
| `AccountsProofs` | its invariants, for every instance |
| `SlotPool` | abstract specification of the session limits, without counters |
| `Gateway` | channel handlers, session counters, access tables and their administrators; composes handlers, store and clients; refines `SlotPool` |
| `GatewayProofs` | exact counters, the refinement of `SlotPool`, when somebody is connected unentitled (only when another row has taken an id), and what the re-check of a menu is worth |
| `Keyboard` | abstract specification of the input of a session: the next keys go to one consumer at a time |
| `Input`, `InputProofs` | the goroutines behind the keyboard of one interactive session; refines `Keyboard` |
| `Totp`, `TotpProofs` | the second factor of one user |
| `OidcIdentities`, `OidcProofs` | identities at one OIDC issuer |
| `Credentials`, `CredentialsProofs` | targets, saved keys and their secrets |
| `Downstream`, `DownstreamProofs` | one connection to a target and its goroutines |
| `SchemaUpgrade` | abstract specification of what `Open` does to a database: the statements of the base script one by one, then one atomic step per later version, in order |
| `Migrations` | `Open` and `migrate` of one process on one database file |
| `Setup` | composes `Migrations` with init, install, entrypoint, service and local commands on one installation; refines `SchemaUpgrade` |
| `SetupProofs` | the invariants of both and the refinement |
| `MC*` | instances for TLC: symmetry sets and the grant sets |

### Accounts

`users`, `username`, `role`, `enabled`, `keys` are the columns; `op[a]` is the
store function administrator `a` is in, with what it has read.  Each function
of `store.go` begins with `UserByName` and then runs `count`, `exists`,
`ensure` and `write` statements as its code does; `FirstStatementAfter` gives
the order.  `WriteFails` covers a write that matches no row or violates a
constraint, `Abort` a crash or SQL error at any point.  `NextId` is SQLite's
choice for `INTEGER PRIMARY KEY` without `AUTOINCREMENT`: the id of a deleted
last row comes again.  `stale` and `raced` are history variables: an operation
is stale when a commit of somebody else happened since its first read.

### Gateway and SlotPool

`chan[c]` is the handler goroutine of channel `c`: its program counter, kind,
user, the role it read, the target it is about and the list of its menu.  The
steps follow `handle`, `handleRouted` and `handleDirectTCPIP`:

    menu:    state acquire load (menu, scan) check fetch dial proxy -> load ...
    routed:  state acquire lookup check dial proxy end
    forward: state lookup check rule acquire dial proxy end

Each query, critical section or wait is one step; every early return leads to
`Close` (before acquire) or to `CloseAndRelease` (the deferred release).  The
role used by every check is the one read in `StateFromContext`.  `gone` are
the channels whose client has disappeared: queries on its context fail, the
menu and the proxies end.  A forward waits for both of its copy directions.
`scan` is the wait of an administrator's menu for `ScanHostKey`; like `dial`
it ends when the target answers or hangs up and not when the client goes.

`AdminChange` commits any administrative change between any two steps.  Users
and targets are added as well as deleted: ids are numbers, `IsNextId` is
SQLite's choice of one more than the highest id in use, and `ugen` and `tgen`
count the rows that have had an id.  A handler carries the id of its user and
of its target, as the code does, and, for the record, which row it read under
each (`chan[c].ugen`, `chan[c].row`).  `seen` is a history variable: which
conditions of the present request have held, for the rows that were read,
since the request was made, and `"otherRow"` when a statement of the handler
has found another row under an id than the one it had read.

`SlotPool` says what the limits mean for channels: `Take` only while fewer
than the limits are out, `Give` returns one.  `Gateway` maps `slot` to the
user of every handler between acquire and release (`Slot`); the counters do
not occur in the mapping.

### Input

Keys are numbered in the order they were typed, a chunk is a set of keys.
`pump` is the goroutine of `newInteractiveSession`, `reads` its channel with
room for one chunk.  `pc["menu"]` and `pc["shell"]` are the positions of the
two consumers in `ReadContext`; its context check, its look at the pending
bytes and its `select` are separate steps because it takes no lock.
`handler` is the goroutine of `Server.handle`: in the menu, in a host key scan
of the menu, dialling, in a shell, joining the worker of a shell that has
ended, or finished.  A scan and a dial return when the target lets them,
whatever becomes of the client.

`Keyboard` knows none of this: its state is the number of keys typed, the keys
handed out and what each consumer has in hand.  `Input` implements it with
`taken` as the keys `ReadContext` has returned (`handed`) and `hand` as what
the menu and the shell work on (`got`); the pump, the channel, the pending
bytes and every cancellation are stutters.

### Totp

`secret` and `last` are the row of the user.  A code is the pair of secret and
counter it was computed from: the HMAC and its six digits are abstracted, so
accidental equality of two codes is left out.  Dialogs go through list load,
generated secret, confirmed code, `SetUserTOTP` and the consumption of the
confirming code; logins through first factor, read of the row, validation and
`ConsumeTOTPCounter`.  `accepted` counts by the enrolment stored in the row,
`codes` by the secret the code really came from.

### OidcIdentities

`subject` and `name` are the row of every user for the configured issuer.  A
flow receives subject and username from the provider in `Complete` and uses
them later.  `AuthenticateOIDC` and `LinkOIDCIdentity` are transactions and
so one step each.  `Rename` is the provider (external): usernames change and
are handed out again.  The user of a login is the one whose name was claimed.
The user of a link is the row its menu was opened with: `OpenMenu` reads it,
and every later `BeginLink` of that menu uses its id without looking at the
account again.  `orphaned` is a history field, set when the account of an open
menu or flow is deleted; `AddUser` may give its id to somebody else.

### Credentials

`tgt` and `idt` are the rows of `targets` and `ssh_identities`; `op[p]` is the
operation a process is in, with the ids it has learnt.  An add is the insert,
the read-back of the row by its id (when that fails the row stays as it is),
the encryption for the id with its `UPDATE`, and, when that fails, the
`DELETE` by the name that was read back; the menu's stored-key form inserts the key and then the
target; replacing a credential reads the row and writes later; a session reads
a target, then the saved key it selects, and decrypts.  A ciphertext is the id
and kind of its associated data and the row it was entered for: it opens under
no other id or kind.  Ids come back after the highest row is deleted, so `gen`
tells rows apart that had the same id.  `stale` and `spoilt` are history: a
process whose id somebody else wrote or deleted since, and rows written by such
a process or left by an add that was killed, could not read its row back or
could not clean up.

### Downstream

The state is that of one connection: TCP connection, position of the handler,
`keepAlive` with the goroutine of its request and the age of that request, the
watcher of `ProxyShell`, the two copies.  The client may go at any time; the
target falls silent, answers again or goes.  A wait for an answer is a guard
`target = "answering"`; a wait on a broken connection returns.  Only the
keepalive timer measures time.  `Gateway` takes `Dial` and the proxies as
single steps with an outcome; `Downstream` is what happens inside them.

### Migrations and Setup

A database file is a number with its committed content: how many statements of
the base script are in effect and how often each later version took effect, the rows of `schema_migrations`, the
rebuilt table and its copy, the administrator and its key, and whether a
reference dangles.  Uncommitted statements are in `work[p]`, `lock[f]` is
SQLite's single writer.  The base script is one `ExecContext` outside a
transaction, so that each of its statements (`BaseTable`) commits by itself and
another process or a kill may come between any two; `CREATE ... IF NOT EXISTS`
lets the next start go on where it stopped.  `RebuiltAt` is the statement that
creates the table the later versions rebuild.  Versions 2, 3 and 5 rebuild a table, 2 and 3 check
foreign keys after the commit.

`Setup` adds the files at their paths (a file is absent, created by `p` and
not written, or written), the path of the database (removing it does not
disturb who has it open), and the processes: `pc[p]` is the step of
`initCommand`, `performInstall`, the entrypoint, `serve` or a local command.
Every step that touches the system may fail (`SystemError`) and every process
may be killed.  `Remove` is the deferred removal of `initCommand`, which goes
by path; `RemoveFails` is an `os.Remove` whose error it ignores.  (The `-wal`
and `-shm` files it also removes stand for the database file: without it SQLite
takes nothing from them.)  Overlapping inits may name the same administrator,
in which case the second `AddUser` may be refused, or different ones.
`killed`, `overlapped`, `cfgStayed` (a removal has left the configuration file
behind) and `racers` are history variables.

`SchemaUpgrade` has one variable, the committed schema of every file, and
three kinds of step: the next statement of the base script, the record of
version 1 once they are all there, and a later version with its record.  `Schema` maps a file to it; a table under reconstruction would
show as rows `"half"`, which no state of `SchemaUpgrade` has.

## 3. What TLC checks

| Run | Instance | Shows |
|---|---|---|
| `accounts` | 2 administrators, 2 names, 2 keys, ids 1..2 | `AdminLossNeedsRace`: the last usable administrator is lost only by a write on an overtaken read; `MisdirectedNeedsRace`: so does a change reach another account than the named one; `NoOrphanKeys`: a key inserted for a user deleted meanwhile is refused, so an id that is reused brings no keys; `TypeOK` with unique names |
| `accounts_last_admin` | the same | violated: two administrators remove each other |
| `gateway_limits` | 3 channels, 3 users, limits 2 in all and 1 per user, menu and forward | `CountersExact`, `LimitsEnforced` (refinement of `SlotPool`), `TypeOK` |
| `gateway_access` | 1 channel of any kind, 1 user and 2 target ids (rows with and without agent credentials), 1 group, 3 administrative changes | `DialsWereEntitled`: who is connected was entitled since the request, unless a statement found another row under an id it had read; `SlotsComeBack`: a client that is gone leaves its slot, unless the handler is in a handshake |
| `gateway_recheck` | the same, 1 change | violated: the re-check uses the account as read at the start |
| `input` | 4 keys, 2 shells | `OneConsumer`, `KeysInSequence` (refinement of `Keyboard`), `LateKeysAreKept`, and the liveness properties `MenuComesBack`, `NothingLeaks` (except a handler that is in a handshake) |
| `totp` | 2 logins, 1 administrator, 2 secrets, 2 periods | `CounterOncePerEnrolment`, `NotLockedOut`, `TypeOK`; `ReuseNeedsNewRow`: a code is accepted again only when its secret is no longer the stored one |
| `totp_reuse` | the same | violated: a code is accepted twice across a re-enrolment |
| `oidc_binding` | 2 users, 2 subjects, 3 usernames, 2 flows, 2 renames | `BoundOnFirstLogin`; `BoundByOwnFlow`: a row is bound by a login with its pending mapping, by a link of an open menu of the same account, or by the menu of a deleted account whose id it was given (`BindsSuccessor`); uniqueness in `TypeOK` |
| `setup` | 2 processes, 2 starts, 2 files, a base script of 3 statements, 3 versions (one rebuilds and is checked), fresh or old installation with or without dangling references | `UpgradesInOrder` (refinement of `SchemaUpgrade`), `OpenedIsMigrated`, `DanglingWasReported`, `ServesAnAdministrator`, `FinishedSurvives`, and that no start hangs (`StartsSettle`) |
| `credentials` | 2 processes, 2 target names, 1 key name, 3 rows, 6 operations | `UsesOwnSecret`, `SettledIsUsable`, `CleanupDeletesOwn` |
| `downstream` | one connection of any kind, timeout of 2 ticks, 2 silences | `NoRequestAbandoned`, and the liveness properties `DialEnds`, `StalledEnds`, `DisconnectEnds`, `ForwardEnds`, `NothingLeft` |

Every property of a passing run is sharpened by a mutant: a variant of one
definition with a plausible bug (it stands just before the definition it
varies), under which the property is violated.

**Bounds.**  Two administrators, logins or flows are enough for every race of
two operations; the proofs remove the bound.  `MaxId` 2 gives an id that is
deleted and reused while another row exists.  Three channels of three users
against limits 2 and 1 reach both limits from both sides: two channels of one
user meet the limit per user with a slot to spare, three of three users the
total with none of them at their own.  One channel is enough for the access
question, because handlers share nothing but counters that no access check
reads; three changes allow a grant that is given and taken back within one
request, and a row that is deleted, its id given to a new one, and the new one
granted or disabled.  Four keys over two shells allow a chunk in every buffer at once and
a chunk left over from one consumer to the next.  Two periods let a counter be
behind, at and ahead of the clock; two secrets give one re-enrolment.  Three
usernames for two subjects let a username be released and taken by the other.
Two processes and two starts give every overlap, and every sequence, of two
runs of init, install, entrypoint, service and command, the first of which may
have failed or been killed anywhere; with two starts at most two database files
are made (a third adds no state); three statements of the base script are one
before, one at and one after the table that is rebuilt; three versions are the base script,
one that rebuilds and is checked, and one that only adds.  Three rows and six
operations let a row be added, deleted and its id given out again while another
operation still holds it.  Two ticks separate a reply in time, one at the
timeout and a missing one; two silences let the target answer in between.
The constants `MaxId`, `MaxChanges`, `MaxKeys`, `MaxShells`, `MaxTime`,
`MaxSecrets`, `MaxRenames`, `MaxStarts`, `MaxFiles`, `MaxRows`, `MaxOps` and
`MaxSilences` are pure bounds; `MaxSessions` and `MaxSessionsPerUser` are
configuration values, `BaseStatements`, `RebuiltAt`, `LastVersion`, `Rebuilds`
and `Checked` describe the migrations and `ReplyTimeout` the keepalive timer.

**Deadlock** is checked except in `input` and `downstream`, where the session
ends for good, and in `setup` and `credentials`, where the bound on starts or
operations ends the run; `StartsSettle` says of `setup` that no process is
stuck.

**Fairness.**  `Gateway`: weak fairness of every handler's own steps and of the
reaction of menu and proxies to a cancelled context: the Go scheduler and
`select` on `ctx.Done()`.  None is assumed of `Dial` and `ScanEnds`, which wait
for an SSH handshake that heeds neither context nor timeout
(`downstream.go:75` and `:121`), of clients, nor of the two directions of a
forward.  `Input`: weak fairness of the goroutines, again without the return of
a scan or a dial; a write to the remote shell is only assumed to return once the
session is closed; a cancelled context closes the remote session.  Typing,
choosing and a remote shell that exits are never assumed.  `Downstream`: weak
fairness of the handler, of each goroutine and of time; nothing is assumed of
the client, and of the target only that it answers while it is answering, so
that a target may stay silent for ever.  `Setup`: a process that can take its
next step does; nothing makes a process start, stop, fail for an outside reason
(a removal included) or be killed, and a process that waits for the write lock has no fairness
beyond that (a busy timeout would only end it earlier).  `Accounts`, `Totp`,
`OidcIdentities` and `Credentials` state safety only and assume no fairness.

## 4. What is proved

All theorems hold for every value of the constants that satisfies the named
`ASSUME`s (finite sets of fingerprints and channels, limits that are positive
and consistent as `config.go` validates them, markers that are not values).

* `AccountsProofs`: `AccountsTypeCorrect`, `AccountsNoOrphanKeys`,
  `AccountsAdminLossNeedsRace`, `AccountsMisdirectedNeedsRace`,
  `SequentialAdminsKeepOne`, `SequentialChangesLand`.  That a write keeps
  a usable administrator depends on what was read and counted earlier, so the
  inductive invariant adds `ReadsHold` (what an operation that was not
  overtaken has read is still true) and `ChecksHold` (so is the check it
  passed).  With one administrator nobody is overtaken, which gives the
  sequential theorems (a usable administrator remains; every change lands on
  the account that was named): the checks are right, only their atomicity is
  missing.
* `GatewayProofs`: `GatewayTypeCorrect`, `GatewayCountersExact`,
  `GatewayLimitsEnforced`.  Every step is shown to have one of three effects
  on the slots (none, take a free one, give one back; `Effect`), and each
  effect preserves `IInv` (types, handlers are only where their kind gets and
  have a user, counters equal the number of serving handlers) and is a step or
  a stutter of `SlotPool`.  Exactness is needed in both directions: without it
  a free counter says nothing about the sessions.
  `GatewayDialsWereEntitled`: `Justified` carries what the last check
  established from the check to the connection, along each handler's own path,
  unless one of its statements has found another row under an id it had read;
  the exception is needed because nothing but the id connects the statements.
  `GatewayRecheckUnlessChanged` answers the
  violation run `gateway_recheck`: `RecheckSeesTheAccount` holds of every
  behaviour in which nobody is disabled, deleted, replaced or given another role
  while a menu of theirs is open (`AccountsKept`), because the row a menu has read then
  stays the stored one (`RowsCurrent`) and all else is read again.
* `InputProofs`: `InputTypeCorrect`, `InputOneConsumer`, `InputKeysInOrder`,
  `InputLateKeysAreKept`, `InputKeysInSequence` (the refinement of `Keyboard`).  `Turns` ties the consumers to the handler, `Empty`
  says that a select only overwrites an empty pending buffer, `Arrived` that
  buffers hold typed keys only, and `OldOnly` that a worker past the check of
  its context looks at bytes older than its cancellation.  The refinement adds
  `QInv`: what was handed out and what lies in each buffer are runs of
  consecutive keys without a gap between them (`Runs`, `NoGap`), and a consumer
  that reads has nothing in hand (`HandsEmpty`), so that a return from
  `ReadContext` is one `Take`.
* `TotpProofs`: `TotpTypeCorrect`, `TotpCounterOnce`, `TotpNotLockedOut`,
  `TotpReuseNeedsNewRow`, `TotpCodeOnceUnlessOvertaken`.
  `SecretsFresh` (a secret waiting in a dialog was never consumed from) is
  what makes the restart of `last_counter` at -1 harmless for the count per
  enrolment; `LastCovers` relates the counter to what was consumed;
  `CountersNear` bounds the counters carried by dialogs and logins.  For the
  codes themselves `CInv` says that whoever carries a code has it from a secret
  that was stored and waits in no dialog (`StoredOnce`), and that every accepted code of the stored secret is covered
  by `last_counter` (`CodesCovered`): a second acceptance needs a row that is
  no longer there.  The last theorem answers `totp_reuse`: `CodeOnce` holds of
  every behaviour in which the row changes only while no login or enrolment is
  between its read and its consumption (`NothingOvertaken`).
* `OidcProofs`: `OidcTypeCorrect`, `OidcBoundOnFirstLogin` and
  `OidcBoundByOwnFlow` (action properties).  `LastLoginBound` connects two logins that are far apart: the
  subject of the last one stays in the row until the mapping is changed.
  `OidcBoundByOwnFlow` identifies the account of a menu by its row, not by its
  id: a menu whose account was deleted is `orphaned`, and a binding it makes is
  a case of its own.

* `CredentialsProofs`: `CredentialsTypeCorrect`,
  `CredentialsNoDanglingIdentity`, `CredentialsUsesOwnSecret`,
  `CredentialsSettledIsUsable`, `CredentialsCleanupDeletesOwn` (an action
  property), `CredentialsOwnUnlessOvertaken`, `SequentialConnectionsOwn`.  What an operation may do with an id depends on the row the id
  stood for when it was learnt: `TargetKnown` and `IdentKnown` say that an
  operation that was not overtaken still knows it, `SecretsOwn` and
  `KeysSelected` that a row holds what was entered for it, `TargetsUsable` and
  `IdentsUsable` that a row without its secret is being added, `GensBound` that
  a new row is told apart from all earlier ones.  The last two have no
  exception for rows a history variable names: if overtaken operations end in
  an error (`OvertakenGiveUp`), in particular with one process at a time, every
  connection uses exactly the secret entered or selected for it, through kills,
  failed clean-ups and reused ids (`SInv`).
* `DownstreamProofs`: `DownstreamTypeCorrect`, `DownstreamNoRequestAbandoned`.
* `SetupProofs`: `SetupTypeCorrect`, `SetupMigrationsAreAtomic`,
  `SetupOpenedIsMigrated`, `SetupRowsKept`, `SetupDanglingWasReported`,
  `SetupServesAnAdministrator`, `SetupFinishedSurvives`, `SetupUpgradesInOrder`
  (the refinement of `SchemaUpgrade`), `SetupLockHolderMigrates`.  The invariant
  has two layers.  `StoreInv` is about `Open` alone: `Locks` (a transaction holds the
  lock of its file), `WorkIsDisk` (what each statement of an open transaction
  has done to its view of the file; this is what makes a rebuild lossless and
  a commit a single version), `BaseFirst`, `Progress` (the versions behind a
  process are recorded) and `Reported` (dangling references behind a checked
  version).  Each step of `Open` is shown to preserve it for any number of
  processes, files and versions.  Above it, `Holding` ties the steps of the
  commands to the store, `Fresh` the file numbers to the keys, `NotOvertaken`
  says that an init that saw no database and was not overtaken has no finished
  installation before it, and `Sequential` that, when processes follow one
  another, none is killed and no clean-up has left the configuration file, a
  configuration file means an administrator.
  The refinement needs `UInv` besides: rows exactly from the statement
  on that creates their table (`TablesFirst`) and the recorded versions without a gap (`NoGap`).
  `SetupLockHolderMigrates` is the safety behind `StartsSettle`: the write lock
  of a file belongs to a running process inside its own migration of that file,
  which waits for no other lock.

Model-checked only: liveness (`SlotsComeBack`, `MenuComesBack`, `NothingLeaks`,
`StartsSettle`, `DialEnds`, `StalledEnds`, `DisconnectEnds`, `ForwardEnds`,
`NothingLeft`), which under fairness is outside the reach of the prover, and
the violation runs.  Each violation run has a counterpart among the theorems
that names its only cause: `AccountsAdminLossNeedsRace`,
`GatewayRecheckUnlessChanged` and `TotpCodeOnceUnlessOvertaken`.

## 5. Where code and documentation disagree

1. `accounts_last_admin`: `docs/operations.md:157` says the removal of the last
   usable administrator is prevented; the count and the write are separate
   statements, and two concurrent removals both pass.
2. `gateway_recheck`: `docs/security.md:23` says authorization is checked again
   immediately before a connection; the menu repeats the check with the user
   row of the session start, so a user disabled, deleted or demoted meanwhile
   passes.
3. `totp_reuse`: `docs/security.md:21` says a code counter cannot be reused; a
   login that validated a code before a re-enrolment consumes it again after.

Cases the code leaves open, which the properties name instead of hiding:

* A target that is silent during the SSH handshake of a dial or a host key scan
  holds its handler, slot and socket for as long as it stays silent, whether or
  not the client is still there (`DialEnds`, `SlotsComeBack` and `NothingLeaks`
  exclude it), and a forward
  whose client is gone lasts as long as its target answers (`ForwardEnds`).
* A process killed between `config.Write` and `AddGatewayKey` leaves an
  installation that the entrypoint takes for a finished one
  (`ServesAnAdministrator` excludes it); so does a failed init whose clean-up
  cannot remove the configuration file, an error nobody sees (`cfgStayed`); and
  an init that overlaps another may
  remove what the other made (`FinishedSurvives` names it).
* A migration is committed before its foreign key check: the next start after
  a reported violation serves the database (`DanglingWasReported`).
* An operation on a target or saved key that was overtaken by another
  administrator writes to the row its id stands for now (`spoilt`).
* The access check and the read of a target, or the read of a target by name
  and the check, go by an id that may have changed hands in between, and an
  open menu of a deleted user has the grants of the next user with its id
  (`"otherRow"` in `DialsWereEntitled`).
* The open menu of a deleted user links its OIDC identity to the next user with
  its id (`BindsSuccessor` in `BoundByOwnFlow`).

## 6. Not modelled, and why

* String processing: SCP command validation, key parsing, forms, usernames of
  the form `USER+TARGET`, flags, configuration syntax; the views are layout.
* The cryptography of secrets, TOTP and tokens; the SSH library, including its
  drain at shutdown; SQLite beyond atomic statements and transactions.
* The OAuth polling inside `Complete` is one step.
* `runCommand` in `menu.go` and `verifyTOTPChallenge` are only called by
  tests.
* The audit log: no decision reads it.
* Adding groups while `Gateway` runs: no handler keeps the id of a group from
  one statement to the next.  The address, host key and credential of a target:
  no access check reads them.

## 7. Plan

Done: accounts, handlers and limits, access, second factor, OIDC, input,
credentials, downstream connections, migrations and installation, with their
proofs.  What could still be added:

1. `Downstream` as a refinement of the `Dial` and `proxy` steps of `Gateway`,
   which would give `SlotsComeBack` the cases of `DialEnds`.
2. `Menu`: modal modes, confirmations and stale selections.  Its mutations are
   in the modules of the tables they change; what is left edits strings of one
   session.
