------------------------------- MODULE Gateway -------------------------------
(***************************************************************************)
(* The channel handlers of the gateway server: the interactive menu        *)
(* (Server.handle), routed shell, SFTP and SCP sessions (handleRouted) and *)
(* TCP forwards (handleDirectTCPIP).  Every channel is served by its own   *)
(* goroutine.  All of them share the session counters, protected by a     *)
(* mutex, and the access tables of the store, which administrators change  *)
(* at any moment.                                                          *)
(*                                                                         *)
(* A step is one database query, one critical section, or one wait for the *)
(* client or the target.  The user row is read once per channel, when it   *)
(* is opened; the copy is passed to every later access check.              *)
(*                                                                         *)
(* The handlers go by row ids, and SQLite gives the id of the last deleted *)
(* row to the next one: ugen and tgen number the rows an id has stood for. *)
(* A handler remembers (as history; the code does not) which of them it    *)
(* has read.                                                               *)
(***************************************************************************)
EXTENDS Integers, FiniteSets

CONSTANTS
  Channels,            \* SSH channels on authenticated connections
  Users,               \* gateway users, by id
  Targets,             \* downstream targets, by id
  AgentRows,           \* target rows <<id, number>> with a forwarded agent
  Groups,              \* groups of users
  Kinds,               \* channel kinds to model, a subset of AllKinds
  GrantSets,           \* capability sets an administrator may grant
  MaxSessions,         \* config: max_sessions
  MaxSessionsPerUser,  \* config: max_sessions_per_user
  MaxChanges,          \* bound: administrative changes
  NoUser, NoTarget, NoGrant

Caps     == {"shell", "sftp", "scp", "forward"}
AllKinds == {"menu"} \cup Caps

ASSUME ChannelsFinite == IsFiniteSet(Channels)
ASSUME LimitsPositive == /\ MaxSessions \in Nat \ {0}
                         /\ MaxSessionsPerUser \in 1 .. MaxSessions
ASSUME IdsAreNumbers  == Users \subseteq Nat /\ Targets \subseteq Nat
ASSUME MarkersFresh   == NoUser \notin Users /\ NoTarget \notin Targets
ASSUME KindsOK        == Kinds \subseteq AllKinds
ASSUME GrantSetsOK    == GrantSets \subseteq SUBSET Caps
ASSUME MaxChangesNat  == MaxChanges \in Nat

Principals == Users \cup Groups

VARIABLES
  \* tables of the store
  role,      \* users.role
  account,   \* "enabled", "disabled" or "deleted"
  target,    \* targets: "enabled", "disabled" or "deleted"
  grants,    \* user_target_grants and group_target_grants
  members,   \* group_members
  rules,     \* targets whose forward rules allow the requested destination
  ugen,      \* history: how many users have had the id
  tgen,      \* history: how many targets have had the id
  changes,   \* number of administrative changes so far
  \* Server
  total,     \* Server.total
  perUser,   \* Server.perUser, 0 where the map has no entry
  \* handlers and clients
  chan,      \* the handler of every channel
  gone,      \* channels whose client connection is gone
  seen       \* history: what happened since the request was made

tables   == <<role, account, target, grants, members, rules, ugen, tgen>>
counters == <<total, perUser>>
vars     == <<role, account, target, grants, members, rules, ugen, tgen,
              changes, total, perUser, chan, gone, seen>>

-----------------------------------------------------------------------------
(* The access checks of the store.                                         *)

Has(p, t, cap) == grants[<<p, t>>] # NoGrant /\ cap \in grants[<<p, t>>]

GroupsOf(u) == {g \in Groups : <<g, u>> \in members}

\* CanAccessCapability for a user whose row said role r: an administrator
\* needs an enabled target, a member also a grant, direct or by group.
CanAccessCapability(r, u, t, cap) ==
  /\ target[t] = "enabled"
  /\ \/ r = "admin"
     \/ \E p \in {u} \cup GroupsOf(u) : Has(p, t, cap)

\* ListTargets for administrators, ListAuthorizedTargets for members: any
\* grant lists the target, whatever its capabilities.
Listed(r, u) ==
  {t \in Targets : \/ r = "admin" /\ target[t] # "deleted"
                   \/ /\ r = "member" /\ target[t] = "enabled"
                      /\ \E p \in {u} \cup GroupsOf(u) : grants[<<p, t>>] # NoGrant}

\* The menu connects with the shell capability, the others have their own.
CapabilityOf(k) == IF k = "menu" THEN "shell" ELSE k

\* ForwardAllowed by id, and no forwarding through an agent: the credential
\* kind is the one of the row that was read by name.
ForwardAllowed(t, row) == t \in rules /\ <<t, row>> \notin AgentRows

-----------------------------------------------------------------------------
(* Session slots.                                                          *)

\* Handlers between a successful acquire and the deferred release.
Serving(c) ==
  IF chan[c].kind = "forward"
  THEN chan[c].pc \in {"dial", "proxy", "end"}
  ELSE chan[c].pc \in {"load", "menu", "scan", "lookup", "check", "fetch", "dial",
                       "proxy", "end"}

ServingFor(u) == {c \in Channels : Serving(c) /\ chan[c].user = u}

\* Mutant: the limits are off by one.
SlotFreeOffByOne(u) == total <= MaxSessions /\ perUser[u] <= MaxSessionsPerUser
\* Mutant: only the limit of the user is looked at.
SlotFreeWithoutTotal(u) == perUser[u] < MaxSessionsPerUser
SlotFree(u) == total < MaxSessions /\ perUser[u] < MaxSessionsPerUser

\* release: decrement, and drop a map entry that is no longer positive.
Release(u) ==
  /\ total'   = total - 1
  /\ perUser' = [perUser EXCEPT ![u] = IF @ - 1 <= 0 THEN 0 ELSE @ - 1]

-----------------------------------------------------------------------------
Closed == [pc |-> "done", kind |-> "menu", user |-> NoUser,
           ugen |-> 0, role |-> "member", target |-> NoTarget, row |-> 0,
           listed |-> {}, copies |-> {}]

Init ==
  /\ role \in [Users -> {"admin", "member"}]
  /\ account = [u \in Users |-> "enabled"]
  /\ target  = [t \in Targets |-> "enabled"]
  /\ grants  = [x \in Principals \X Targets |-> NoGrant]
  /\ members = {}
  /\ rules   \in SUBSET Targets
  /\ ugen    = [u \in Users |-> 1]
  /\ tgen    = [t \in Targets |-> 1]
  /\ changes = 0
  /\ total   = 0
  /\ perUser = [u \in Users |-> 0]
  /\ chan    = [c \in Channels |-> Closed]
  /\ gone    = {}
  /\ seen    = {}

Goto(c, pc) == chan' = [chan EXCEPT ![c].pc = pc]

\* The handler returns without holding a slot.
Close(c) == /\ chan' = [chan EXCEPT ![c] = Closed]
            /\ gone' = gone \ {c}
            /\ UNCHANGED counters

\* Mutant: the forward handler lacks the deferred release.
CloseForgetsForward(c) ==
  /\ chan' = [chan EXCEPT ![c] = Closed]
  /\ gone' = gone \ {c}
  /\ IF chan[c].kind = "forward" THEN UNCHANGED counters
     ELSE Release(chan[c].user)
\* The handler returns and its deferred release runs.
CloseAndRelease(c) == /\ chan' = [chan EXCEPT ![c] = Closed]
                      /\ gone' = gone \ {c}
                      /\ Release(chan[c].user)

\* A failed request: the menu shows a status and starts over, a routed
\* session reports it and ends.
Fail(c) == /\ Goto(c, IF chan[c].kind = "menu" THEN "load" ELSE "end")
           /\ UNCHANGED <<counters, gone>>

-----------------------------------------------------------------------------
(* Handler steps.                                                          *)

\* A client opens a channel of kind k.  Only names are fixed by then: the
\* username and, but for the menu, the name of the target.
Open(c, k) ==
  /\ chan[c].pc = "done"
  /\ chan' = [chan EXCEPT ![c] = [Closed EXCEPT !.pc = "state", !.kind = k]]
  /\ UNCHANGED <<counters, gone>>

\* stateFromContext reads the user row of that name.
StateFromContext(c) ==
  /\ chan[c].pc = "state"
  /\ \/ Close(c)     \* no such user, or disabled; a menu without a PTY
     \/ \E u \in Users :
          /\ account[u] = "enabled"
          /\ chan' = [chan EXCEPT
                       ![c].user = u, ![c].ugen = ugen[u], ![c].role = role[u],
                       ![c].pc   = IF chan[c].kind = "forward" THEN "lookup"
                                   ELSE "acquire"]
          /\ UNCHANGED <<counters, gone>>

\* acquire, under Server.mu; the forward has passed its checks by now.
Acquire(c) ==
  /\ chan[c].pc = "acquire"
  /\ \/ /\ SlotFree(chan[c].user)
        /\ total'   = total + 1
        /\ perUser' = [perUser EXCEPT ![chan[c].user] = @ + 1]
        /\ Goto(c, CASE chan[c].kind = "menu"    -> "load"
                     [] chan[c].kind = "forward" -> "dial"
                     [] OTHER                    -> "lookup")
        /\ UNCHANGED gone
     \/ /\ ~SlotFree(chan[c].user)
        /\ Close(c)

\* RunRemote starts a fresh Model: it loads the target list, or returns with
\* an error when the client is gone.
Load(c) ==
  /\ chan[c].pc = "load"
  /\ \/ /\ c \notin gone
        /\ chan' = [chan EXCEPT ![c].pc = "menu", ![c].target = NoTarget,
                      ![c].row = 0, ![c].listed = Listed(chan[c].role, chan[c].user)]
        /\ UNCHANGED <<counters, gone>>
     \/ /\ c \in gone
        /\ CloseAndRelease(c)

\* An open menu loads its list again: the refresh key, the end of a mutation
\* or of an OIDC link.  The queries fail when the client is gone.
Reload(c) ==
  /\ chan[c].pc = "menu"
  /\ chan' = [chan EXCEPT ![c].listed =
                IF c \in gone THEN {} ELSE Listed(chan[c].role, chan[c].user)]
  /\ UNCHANGED <<counters, gone>>

\* An administrator has the menu scan a host key, which it waits for.
MenuScan(c) ==
  /\ chan[c].pc = "menu" /\ chan[c].role = "admin" /\ c \notin gone
  /\ Goto(c, "scan")
  /\ UNCHANGED <<counters, gone>>

ScanEnds(c) ==
  /\ chan[c].pc = "scan"
  /\ Goto(c, "menu")
  /\ UNCHANGED <<counters, gone>>

\* The menu returns the id of the selected target.
MenuSelect(c, t) ==
  /\ chan[c].pc = "menu"
  /\ t \in chan[c].listed
  /\ chan' = [chan EXCEPT ![c].pc = "check", ![c].target = t, ![c].listed = {}]
  /\ UNCHANGED <<counters, gone>>

\* Mutant: the menu does not watch the context of the client.
MenuQuitIgnoresCancel(c) ==
  /\ chan[c].pc = "menu" /\ c \notin gone
  /\ CloseAndRelease(c)
\* Quit, end of input, a read or write error, or a cancelled context.
MenuQuit(c) ==
  /\ chan[c].pc = "menu"
  /\ CloseAndRelease(c)

\* TargetByName of the routed handlers.  A query on the context of a client
\* that is gone fails.  A forward that fails before acquire is rejected.
Lookup(c) ==
  /\ chan[c].pc = "lookup"
  /\ \/ \E t \in Targets :
          /\ target[t] # "deleted" /\ c \notin gone
          /\ chan' = [chan EXCEPT ![c].pc = "check", ![c].target = t,
                                  ![c].row = tgen[t]]
          /\ UNCHANGED <<counters, gone>>
     \/ IF chan[c].kind = "forward" THEN Close(c) ELSE Fail(c)  \* no such name

\* Mutant: any routed session is checked like a shell.
PassesAsShell(c) ==
  /\ c \notin gone
  /\ CanAccessCapability(chan[c].role, chan[c].user, chan[c].target, "shell")
\* The access check: the user row is the one read when the channel was
\* opened, grants and target are found by id.
Passes(c) == /\ c \notin gone
             /\ CanAccessCapability(chan[c].role, chan[c].user,
                                    chan[c].target, CapabilityOf(chan[c].kind))

Check(c) ==
  /\ chan[c].pc = "check"
  /\ \/ /\ Passes(c)
        /\ chan' = [chan EXCEPT
             ![c].pc  = CASE chan[c].kind = "menu"    -> "fetch"
                          [] chan[c].kind = "forward" -> "rule"
                          [] OTHER                    -> "dial",
             ![c].row = IF chan[c].kind = "menu" THEN tgen[chan[c].target] ELSE @]
        /\ UNCHANGED <<counters, gone>>
     \/ /\ ~Passes(c) \/ chan[c].kind = "shell"   \* or no PTY
        /\ IF chan[c].kind = "forward" THEN Close(c) ELSE Fail(c)

\* handleDirectTCPIP: the destination allowlist and the credential kind.
Rule(c) ==
  /\ chan[c].pc = "rule"
  /\ \/ /\ ForwardAllowed(chan[c].target, chan[c].row) /\ c \notin gone
        /\ Goto(c, "acquire")
        /\ UNCHANGED <<counters, gone>>
     \/ /\ ~ForwardAllowed(chan[c].target, chan[c].row) \/ c \in gone
        /\ Close(c)

\* handle: TargetByID, the row that is dialled, is read after the check.
Fetch(c) ==
  /\ chan[c].pc = "fetch"
  /\ \/ /\ target[chan[c].target] # "deleted" /\ c \notin gone
        /\ chan' = [chan EXCEPT ![c].pc = "dial", ![c].row = tgen[chan[c].target]]
        /\ UNCHANGED <<counters, gone>>
     \/ /\ target[chan[c].target] = "deleted" \/ c \in gone
        /\ Fail(c)

\* Load the credential, take the forwarded agent, connect and authenticate;
\* for a forward also open the remote connection and accept the channel.
\* Each of these may fail.
Dial(c) ==
  /\ chan[c].pc = "dial"
  /\ \/ Fail(c)
     \/ /\ chan' = [chan EXCEPT ![c].pc = "proxy",
                      ![c].copies = IF chan[c].kind = "forward"
                                    THEN {"up", "down"} ELSE {}]
        /\ UNCHANGED <<counters, gone>>

\* The proxied shell, subsystem or copy command ends, or the context of the
\* client is cancelled.
ProxyEnds(c) ==
  /\ chan[c].pc = "proxy" /\ chan[c].kind # "forward"
  /\ Fail(c)

\* One direction of a forward ends; the handler waits for both.
CopyEnds(c, d) ==
  /\ chan[c].pc = "proxy" /\ d \in chan[c].copies
  /\ chan' = [chan EXCEPT ![c].copies = @ \ {d},
                ![c].pc = IF chan[c].copies = {d} THEN "end" ELSE "proxy"]
  /\ UNCHANGED <<counters, gone>>

\* The end audit, then the deferred calls.
End(c) ==
  /\ chan[c].pc = "end"
  /\ CloseAndRelease(c)

\* The client disconnects, or the idle timeout of the gateway closes it.
ClientGone(c) ==
  /\ chan[c].pc # "done" /\ c \notin gone
  /\ gone' = gone \cup {c}
  /\ UNCHANGED <<counters, chan>>

HandlerStep(c) ==
  /\ \/ StateFromContext(c) \/ Acquire(c) \/ Load(c) \/ Lookup(c) \/ Check(c)
     \/ Rule(c) \/ Fetch(c) \/ Dial(c) \/ ScanEnds(c) \/ End(c)
  /\ UNCHANGED <<tables, changes>>

ClientStep(c) ==
  /\ \/ \E k \in Kinds : Open(c, k)
     \/ \E t \in Targets : MenuSelect(c, t)
     \/ Reload(c) \/ MenuScan(c) \/ MenuQuit(c) \/ ProxyEnds(c) \/ ClientGone(c)
     \/ \E d \in {"up", "down"} : CopyEnds(c, d)
  /\ UNCHANGED <<tables, changes>>

-----------------------------------------------------------------------------
(* Administrative changes: the statement of store.go that commits them.    *)

\* INTEGER PRIMARY KEY: one more than the highest id in use, so the id of the
\* last row comes back when that row is deleted.
IsNextId(i, used) ==
  /\ \A j \in used : j < i
  /\ i = 1 \/ i - 1 \in used

Taken(t) == {i \in DOMAIN t : t[i] # "deleted"}

AddUser(u, r) ==
  /\ IsNextId(u, Taken(account))
  /\ account' = [account EXCEPT ![u] = "enabled"]
  /\ role'    = [role EXCEPT ![u] = r]
  /\ ugen'    = [ugen EXCEPT ![u] = @ + 1]
  /\ UNCHANGED <<target, grants, members, rules, tgen>>

SetUserEnabled(u, b) ==
  /\ account[u] # "deleted"
  /\ account' = [account EXCEPT ![u] = IF b THEN "enabled" ELSE "disabled"]
  /\ UNCHANGED <<role, target, grants, members, rules, ugen, tgen>>

SetUserRole(u, r) ==
  /\ account[u] # "deleted"
  /\ role' = [role EXCEPT ![u] = r]
  /\ UNCHANGED <<account, target, grants, members, rules, ugen, tgen>>

\* Grants and memberships go with the row (ON DELETE CASCADE).
DeleteUser(u) ==
  /\ account[u] # "deleted"
  /\ account' = [account EXCEPT ![u] = "deleted"]
  /\ grants'  = [x \in Principals \X Targets |->
                   IF x[1] = u THEN NoGrant ELSE grants[x]]
  /\ members' = {m \in members : m[2] # u}
  /\ UNCHANGED <<role, target, rules, ugen, tgen>>

AddTarget(t) ==
  /\ IsNextId(t, Taken(target))
  /\ target' = [target EXCEPT ![t] = "enabled"]
  /\ tgen'   = [tgen EXCEPT ![t] = @ + 1]
  /\ UNCHANGED <<role, account, grants, members, rules, ugen>>

SetTargetEnabled(t, b) ==
  /\ target[t] # "deleted"
  /\ target' = [target EXCEPT ![t] = IF b THEN "enabled" ELSE "disabled"]
  /\ UNCHANGED <<role, account, grants, members, rules, ugen, tgen>>

DeleteTarget(t) ==
  /\ target[t] # "deleted"
  /\ target' = [target EXCEPT ![t] = "deleted"]
  /\ grants' = [x \in Principals \X Targets |->
                  IF x[2] = t THEN NoGrant ELSE grants[x]]
  /\ rules'  = rules \ {t}
  /\ UNCHANGED <<role, account, members, ugen, tgen>>

\* Upsert or delete of the grant row of a principal.
SetGrantCapabilities(p, t, caps) ==
  /\ target[t] # "deleted"
  /\ p \in Users => account[p] # "deleted"
  /\ grants' = [grants EXCEPT ![<<p, t>>] = caps]
  /\ UNCHANGED <<role, account, target, members, rules, ugen, tgen>>

SetGroupMember(g, u, add) ==
  /\ account[u] # "deleted"
  /\ members' = IF add THEN members \cup {<<g, u>>} ELSE members \ {<<g, u>>}
  /\ UNCHANGED <<role, account, target, grants, rules, ugen, tgen>>

\* No handler keeps the id of a group, and a new one starts empty.
DeleteGroup(g) ==
  /\ grants'  = [x \in Principals \X Targets |->
                   IF x[1] = g THEN NoGrant ELSE grants[x]]
  /\ members' = {m \in members : m[1] # g}
  /\ UNCHANGED <<role, account, target, rules, ugen, tgen>>

\* AddForwardRule and DeleteForwardRule for the requested destination.
SetForwardRule(t, add) ==
  /\ target[t] # "deleted"
  /\ rules' = IF add THEN rules \cup {t} ELSE rules \ {t}
  /\ UNCHANGED <<role, account, target, grants, members, ugen, tgen>>

UserChange(u) ==
  \/ \E r \in {"admin", "member"} : AddUser(u, r)
  \/ \E b \in BOOLEAN : SetUserEnabled(u, b)
  \/ \E r \in {"admin", "member"} : SetUserRole(u, r)
  \/ DeleteUser(u)
  \/ \E g \in Groups, b \in BOOLEAN : SetGroupMember(g, u, b)

TargetChange(t) ==
  \/ AddTarget(t)
  \/ \E b \in BOOLEAN : SetTargetEnabled(t, b)
  \/ DeleteTarget(t)
  \/ \E b \in BOOLEAN : SetForwardRule(t, b)
  \/ \E p \in Principals, s \in GrantSets \cup {NoGrant} :
       SetGrantCapabilities(p, t, s)

AdminChange ==
  /\ changes < MaxChanges
  /\ changes' = changes + 1
  /\ \/ \E u \in Users : UserChange(u)
     \/ \E t \in Targets : TargetChange(t)
     \/ \E g \in Groups : DeleteGroup(g)
  /\ UNCHANGED <<counters, chan, gone>>

-----------------------------------------------------------------------------
(* History: which conditions of its request held at some moment since the  *)
(* request was made, of the rows the handler has read, and whether a check *)
(* found another row under one of its ids.                                 *)

Requesting(c) == chan[c].pc \notin {"done", "state", "load", "menu"}
                   /\ chan[c].target # NoTarget

\* The ids still stand for the rows the handler goes by.
SameTarget(c) == chan[c].row = tgen[chan[c].target]
SameUser(c)   == chan[c].ugen = ugen[chan[c].user]

\* Access, for the role read when the channel was opened.
EntitledAsRead(c) ==
  /\ Requesting(c) /\ SameUser(c) /\ SameTarget(c)
  /\ CanAccessCapability(chan[c].role, chan[c].user, chan[c].target,
                         CapabilityOf(chan[c].kind))

\* A query of the handler finds another row under an id: another user or
\* target than the rows it has read when it checks, another target than the
\* one it has checked when it reads that one.
FindsOtherRow(c) ==
  /\ chan'[c] # chan[c]
  /\ \/ chan[c].pc = "check" /\ ~SameUser(c)
     \/ chan[c].pc = "check" /\ chan[c].kind # "menu" /\ ~SameTarget(c)
     \/ chan[c].pc \in {"rule", "fetch"} /\ ~SameTarget(c)

Observe ==
  seen' = {x \in Channels \X {"access", "rule", "otherRow"} :
             /\ Requesting(x[1])'
             /\ \/ x \in seen
                \/ x[2] = "access" /\ EntitledAsRead(x[1])'
                \/ x[2] = "rule" /\ SameTarget(x[1])' /\ chan'[x[1]].target \in rules'
                \/ x[2] = "otherRow" /\ FindsOtherRow(x[1])}

Next == /\ \/ \E c \in Channels : HandlerStep(c) \/ ClientStep(c)
           \/ AdminChange
        /\ Observe

\* A runnable goroutine is scheduled, and a cancelled context wakes its
\* waiters.  Nothing obliges a client to act or a forwarded connection to end,
\* and nothing ends a dial or a scan: their handshake with the target has
\* neither a timeout nor the context.
Unblocked(c) ==
  /\ \/ HandlerStep(c) /\ chan[c].pc \notin {"dial", "scan"}
     \/ c \in gone /\ (MenuQuit(c) \/ ProxyEnds(c)) /\ UNCHANGED <<tables, changes>>
  /\ Observe

Fairness == \A c \in Channels : WF_vars(Unblocked(c))

Spec == Init /\ [][Next]_vars /\ Fairness

-----------------------------------------------------------------------------
ChanType ==
  [pc : {"done", "state", "acquire", "load", "menu", "scan", "lookup", "check",
         "rule", "fetch", "dial", "proxy", "end"},
   kind : AllKinds, user : Users \cup {NoUser}, ugen : Nat,
   role : {"admin", "member"}, target : Targets \cup {NoTarget}, row : Nat,
   listed : SUBSET Targets,
   copies : SUBSET {"up", "down"}]

\* The type invariant; the counters stay between zero and their limits.
TypeOK ==
  /\ role \in [Users -> {"admin", "member"}]
  /\ account \in [Users -> {"enabled", "disabled", "deleted"}]
  /\ target \in [Targets -> {"enabled", "disabled", "deleted"}]
  /\ grants \in [Principals \X Targets -> (SUBSET Caps) \cup {NoGrant}]
  /\ members \in SUBSET (Groups \X Users)
  /\ rules \in SUBSET Targets
  /\ ugen \in [Users -> Nat \ {0}]
  /\ tgen \in [Targets -> Nat \ {0}]
  /\ changes \in 0 .. MaxChanges
  /\ total \in 0 .. MaxSessions
  /\ perUser \in [Users -> 0 .. MaxSessionsPerUser]
  /\ chan \in [Channels -> ChanType]
  /\ gone \in SUBSET Channels
  /\ seen \in SUBSET (Channels \X {"access", "rule", "otherRow"})

\* The counters of the Server are exactly the number of handlers between
\* acquire and release, in all and for every user: no return path forgets
\* the release or runs it twice, and no user's entry is dropped while a
\* session of theirs is open.
CountersExact ==
  /\ total = Cardinality({c \in Channels : Serving(c)})
  /\ \A u \in Users : perUser[u] = Cardinality(ServingFor(u))

\* The counters implement the limits: max_sessions and max_sessions_per_user
\* hold of the handlers themselves, whatever order they acquire and release.
Slot == [c \in Channels |-> IF Serving(c) THEN chan[c].user ELSE NoUser]
Pool == INSTANCE SlotPool WITH slot <- Slot
LimitsEnforced == Pool!Spec

\* Nobody is connected to a target without the capability of the protocol in
\* use having been granted, to that user on that target, and without the
\* destination of a forward having been allowed, at some moment after the
\* request was made: no path to Dial skips a check, checks another capability
\* or relies on an earlier request.  The one exception the code leaves open is
\* a row that was replaced: CanAccess and TargetByID (server.go:145-149),
\* TargetByName and CanAccessCapability (routing.go:58-68) are two queries, and
\* the user row is older than both, so between them an id may have passed to
\* another target or user.
DialsWereEntitled ==
  \A c \in Channels :
    chan[c].pc \in {"dial", "proxy"} =>
      \/ <<c, "otherRow">> \in seen
      \/ /\ <<c, "access">> \in seen
         /\ chan[c].kind = "forward" => <<c, "rule">> \in seen

\* Authorization is checked again immediately before a connection: the check
\* that lets a menu session connect would succeed for the account as it is
\* in the database at that moment.
RecheckSeesTheAccount ==
  [][\A c \in Channels :
       chan[c].pc = "check" /\ chan'[c].pc = "fetch" =>
         LET u == chan[c].user IN
         /\ account[u] = "enabled" /\ ugen[u] = chan[c].ugen
         /\ CanAccessCapability(role[u], u, chan[c].target, "shell")]_vars

\* A session whose client is gone gives its slot back, whatever it is doing
\* except waiting for a handshake: Dial (downstream.go:121) and ScanHostKey
\* (downstream.go:75) return when the target answers or hangs up, whether or not
\* anybody still waits.  In particular a handler whose client is gone never
\* starts a handshake.  (A forward may keep its slot as long as the remote end
\* keeps its direction open.)
SlotsComeBack ==
  \A c \in Channels :
    (/\ Serving(c) /\ c \in gone
     /\ chan[c].kind # "forward" /\ chan[c].pc \notin {"dial", "scan"})
    ~> ~Serving(c)
=============================================================================
