--------------------------- MODULE OidcIdentities ---------------------------
(***************************************************************************)
(* OIDC identities of gateway users, for the configured issuer: the table  *)
(* oidc_identities, the device flows of logins and of self-linking, the    *)
(* administrators' username mappings, and the provider's own usernames,    *)
(* which change and are handed out again.  So are the ids of the gateway's *)
(* users: SQLite gives the id of a deleted user to a new one, while a menu *)
(* opened by the old one still holds it.                                   *)
(*                                                                         *)
(* A flow receives the signed subject and username at one moment and uses  *)
(* them in a database transaction later; meanwhile the table, the accounts *)
(* and the provider move on.  LinkOIDCIdentity and AuthenticateOIDC run in *)
(* one transaction each, and SQLite aborts a transaction whose snapshot is *)
(* stale when it writes, so each is one step.                              *)
(***************************************************************************)
EXTENDS Naturals

CONSTANTS
  Users,       \* gateway users: an id and the name that goes with it
  Subjects,    \* accounts at the provider
  Usernames,   \* usernames at the provider
  Flows,       \* device flows, with the menu session of a link
  MaxRenames,  \* bound: username changes at the provider
  NoSubject,   \* NULL in the column subject
  NoName,      \* no row, or no username
  NoUser

ASSUME MarkersFresh == /\ NoSubject \notin Subjects
                       /\ NoName \notin Usernames
                       /\ NoUser \notin Users
ASSUME MaxRenamesNat == MaxRenames \in Nat

VARIABLES
  account,    \* "enabled", "disabled" or "deleted"
  subject,    \* column subject of every user's row, NoSubject when pending
  name,       \* column provider_username, NoName when there is no row
  provider,   \* the current username of every subject at the provider
  renames,    \* number of renames so far
  flow,       \* the device flows
  lastLogin   \* history: the subject of a user's last login since the
              \* mapping was last changed by the user or an administrator

row  == <<subject, name>>
vars == <<account, subject, name, provider, renames, flow, lastLogin>>

NoFlow == [pc |-> "idle", user |-> NoUser, subject |-> NoSubject, name |-> NoName,
           orphaned |-> FALSE]

Init ==
  /\ account = [u \in Users |-> "enabled"]
  /\ subject = [u \in Users |-> NoSubject]
  /\ name = [u \in Users |-> NoName]
  /\ provider \in [Subjects -> Usernames]
  /\ \A s, t \in Subjects : provider[s] = provider[t] => s = t
  /\ renames = 0
  /\ flow = [f \in Flows |-> NoFlow]
  /\ lastLogin = [u \in Users |-> NoSubject]

-----------------------------------------------------------------------------
(* The statements.                                                         *)

\* UNIQUE(issuer,provider_username): nobody but u has the username n.
NameFreeFor(u, n) == \A v \in Users \ {u} : name[v] # n
\* UNIQUE(issuer,subject)
SubjectFreeFor(u, s) == \A v \in Users \ {u} : subject[v] # s

\* SetOIDCUsernameMapping: the upsert drops the subject of a bound row.
SetOIDCUsernameMapping(u, n) ==
  /\ account[u] # "deleted"
  /\ NameFreeFor(u, n)
  /\ name' = [name EXCEPT ![u] = n]
  /\ subject' = [subject EXCEPT ![u] = NoSubject]
  /\ lastLogin' = [lastLogin EXCEPT ![u] = NoSubject]
  /\ UNCHANGED <<account, provider, renames, flow>>

RemoveOIDCIdentity(u) ==
  /\ name[u] # NoName
  /\ name' = [name EXCEPT ![u] = NoName]
  /\ subject' = [subject EXCEPT ![u] = NoSubject]
  /\ lastLogin' = [lastLogin EXCEPT ![u] = NoSubject]
  /\ UNCHANGED <<account, provider, renames, flow>>

SetUserEnabled(u, b) ==
  /\ account[u] # "deleted"
  /\ account' = [account EXCEPT ![u] = IF b THEN "enabled" ELSE "disabled"]
  /\ UNCHANGED <<row, provider, renames, flow, lastLogin>>

\* The row goes with the user (ON DELETE CASCADE); its flows and menus go on
\* (history: they are orphaned).
DeleteUser(u) ==
  /\ account[u] # "deleted"
  /\ account' = [account EXCEPT ![u] = "deleted"]
  /\ name' = [name EXCEPT ![u] = NoName]
  /\ subject' = [subject EXCEPT ![u] = NoSubject]
  /\ lastLogin' = [lastLogin EXCEPT ![u] = NoSubject]
  /\ flow' = [f \in Flows |-> [flow[f] EXCEPT !.orphaned = @ \/ flow[f].user = u]]
  /\ UNCHANGED <<provider, renames>>

\* A new user gets the id and the name of a deleted one.  With another name
\* a login still under way is refused, with another id a link is: as if the
\* user stayed deleted for that flow.
AddUser(u) ==
  /\ account[u] = "deleted"
  /\ account' = [account EXCEPT ![u] = "enabled"]
  /\ UNCHANGED <<row, provider, renames, flow, lastLogin>>

-----------------------------------------------------------------------------
(* The device flows.                                                       *)

\* authenticateOIDC looks the claimed user up and starts the flow.
BeginLogin(f, u) ==
  /\ flow[f].pc = "idle"
  /\ account[u] = "enabled"
  /\ flow' = [flow EXCEPT ![f] = [NoFlow EXCEPT !.pc = "login", !.user = u]]
  /\ UNCHANGED <<account, row, provider, renames, lastLogin>>

\* A menu opened with a gateway key: it keeps the user row of its start ...
OpenMenu(f, u) ==
  /\ flow[f].pc = "idle"
  /\ account[u] = "enabled"
  /\ flow' = [flow EXCEPT ![f] = [NoFlow EXCEPT !.pc = "menu", !.user = u]]
  /\ UNCHANGED <<account, row, provider, renames, lastLogin>>

\* ... which is the one startOIDCLink links, whatever became of the account.
BeginLink(f) ==
  /\ flow[f].pc = "menu"
  /\ flow' = [flow EXCEPT ![f].pc = "link"]
  /\ UNCHANGED <<account, row, provider, renames, lastLogin>>

\* Complete: the provider signs the subject and its present username.
Complete(f, s) ==
  /\ flow[f].pc \in {"login", "link"}
  /\ flow' = [flow EXCEPT
               ![f].pc = IF flow[f].pc = "login" THEN "authenticate" ELSE "store",
               ![f].subject = s, ![f].name = provider[s]]
  /\ UNCHANGED <<account, row, provider, renames, lastLogin>>

\* The rows AuthenticateOIDC finds for the identity of f: by subject, else
\* a pending one by username.
BoundTo(f) == {u \in Users : subject[u] = flow[f].subject}

\* Mutant: a bound row is found by its username too.
PendingForAnyRow(f) == {u \in Users : name[u] = flow[f].name}
PendingFor(f) == {u \in Users : name[u] = flow[f].name /\ subject[u] = NoSubject}

\* The user AuthenticateOIDC finds and updates, if any; the update of the
\* username of a bound row may violate its uniqueness.
MappedUser(f, u) ==
  \/ u \in BoundTo(f) /\ NameFreeFor(u, flow[f].name)
  \/ BoundTo(f) = {} /\ u \in PendingFor(f)

\* ... and then the claimed user has to be that one, and enabled.
LoginAccepted(f, u) ==
  MappedUser(f, u) /\ u = flow[f].user /\ account[u] = "enabled"

AuthenticateOIDC(f, u) ==
  /\ flow[f].pc = "authenticate"
  /\ LoginAccepted(f, u)
  /\ subject' = [subject EXCEPT ![u] = flow[f].subject]
  /\ name' = [name EXCEPT ![u] = IF u \in BoundTo(f) THEN flow[f].name ELSE @]
  /\ flow' = [flow EXCEPT ![f].pc = "in"]
  /\ lastLogin' = [lastLogin EXCEPT ![u] = flow[f].subject]
  /\ UNCHANGED <<account, provider, renames>>

\* Mutant: the transaction is committed before the claimed user is compared.
RejectAfterCommit(f) ==
  /\ flow[f].pc = "authenticate"
  /\ ~\E u \in Users : LoginAccepted(f, u)
  /\ flow' = [flow EXCEPT ![f] = NoFlow]
  /\ subject' = [u \in Users |-> IF MappedUser(f, u) THEN flow[f].subject
                                 ELSE subject[u]]
  /\ UNCHANGED <<account, name, provider, renames, lastLogin>>
\* Not mapped, another user, or disabled: the transaction is rolled back.
RejectLogin(f) ==
  /\ flow[f].pc = "authenticate"
  /\ ~\E u \in Users : LoginAccepted(f, u)
  /\ flow' = [flow EXCEPT ![f] = NoFlow]
  /\ UNCHANGED <<account, row, provider, renames, lastLogin>>

\* Mutant: the owner of the provider username is not looked for.
LinkableIgnoringName(u, s, n) == account[u] # "deleted" /\ SubjectFreeFor(u, s)
\* LinkOIDCIdentity: a user has the id, and no row of another one has the
\* subject or the username.
Linkable(u, s, n) ==
  account[u] # "deleted" /\ SubjectFreeFor(u, s) /\ NameFreeFor(u, n)

BackInMenu(f) ==
  [flow[f] EXCEPT !.pc = "menu", !.subject = NoSubject, !.name = NoName]

LinkOIDCIdentity(f) ==
  LET u == flow[f].user IN
  /\ flow[f].pc = "store"
  /\ Linkable(u, flow[f].subject, flow[f].name)
  /\ subject' = [subject EXCEPT ![u] = flow[f].subject]
  /\ name' = [name EXCEPT ![u] = flow[f].name]
  /\ flow' = [flow EXCEPT ![f] = BackInMenu(f)]
  /\ lastLogin' = [lastLogin EXCEPT ![u] = NoSubject]
  /\ UNCHANGED <<account, provider, renames>>

\* The link is cancelled, times out, fails at the provider or is refused.
LinkFails(f) ==
  /\ flow[f].pc \in {"link", "store"}
  /\ flow' = [flow EXCEPT ![f] = BackInMenu(f)]
  /\ UNCHANGED <<account, row, provider, renames, lastLogin>>

\* A login is cancelled, times out or fails at the provider; a session ends.
EndFlow(f) ==
  /\ flow[f].pc # "idle"
  /\ flow' = [flow EXCEPT ![f] = NoFlow]
  /\ UNCHANGED <<account, row, provider, renames, lastLogin>>

-----------------------------------------------------------------------------
\* External: an account at the provider gets another username that is free
\* there, perhaps one that used to be somebody else's.
Rename(s, n) ==
  /\ renames < MaxRenames
  /\ renames' = renames + 1
  /\ \A t \in Subjects : provider[t] # n
  /\ provider' = [provider EXCEPT ![s] = n]
  /\ UNCHANGED <<account, row, flow, lastLogin>>

Next ==
  \/ \E u \in Users : \/ \E n \in Usernames : SetOIDCUsernameMapping(u, n)
                      \/ RemoveOIDCIdentity(u)
                      \/ \E b \in BOOLEAN : SetUserEnabled(u, b)
                      \/ DeleteUser(u) \/ AddUser(u)
  \/ \E f \in Flows, u \in Users : BeginLogin(f, u) \/ OpenMenu(f, u)
  \/ \E f \in Flows, s \in Subjects : Complete(f, s)
  \/ \E f \in Flows, u \in Users : AuthenticateOIDC(f, u)
  \/ \E f \in Flows : RejectLogin(f) \/ BeginLink(f) \/ LinkOIDCIdentity(f)
                      \/ LinkFails(f) \/ EndFlow(f)
  \/ \E s \in Subjects, n \in Usernames : Rename(s, n)

Spec == Init /\ [][Next]_vars

-----------------------------------------------------------------------------
FlowType == [pc : {"idle", "login", "menu", "link", "authenticate", "store", "in"},
             user : Users \cup {NoUser}, subject : Subjects \cup {NoSubject},
             name : Usernames \cup {NoName}, orphaned : BOOLEAN]

\* The type invariant, with the uniqueness constraints of the table; only a
\* row can be bound.
TypeOK ==
  /\ account \in [Users -> {"enabled", "disabled", "deleted"}]
  /\ subject \in [Users -> Subjects \cup {NoSubject}]
  /\ name \in [Users -> Usernames \cup {NoName}]
  /\ provider \in [Subjects -> Usernames]
  /\ renames \in 0 .. MaxRenames
  /\ flow \in [Flows -> FlowType]
  /\ lastLogin \in [Users -> Subjects \cup {NoSubject}]
  /\ \A u, v \in Users : u # v => /\ name[u] = NoName \/ name[u] # name[v]
                                  /\ subject[u] = NoSubject \/ subject[u] # subject[v]
  /\ \A u \in Users : name[u] = NoName => subject[u] = NoSubject

\* A mapping binds permanently on its first login: two logins to an account
\* with different subjects have a self-link, a new mapping or a removal
\* between them, even if the provider gives the username to somebody else.
BoundOnFirstLogin ==
  [][\A f \in Flows :
       flow[f].pc = "authenticate" /\ flow'[f].pc = "in" =>
         lastLogin[flow[f].user] \in {NoSubject, flow[f].subject}]_vars

\* A login that is let in over the pending mapping of u to the username the
\* provider signed: an administrator mapped the present account to it.
BindsByLogin(f, u) ==
  /\ flow[f].pc = "authenticate" /\ flow'[f].pc = "in"
  /\ subject[u] = NoSubject /\ name[u] = flow[f].name
  /\ account[u] = "enabled"

\* A link stored from a menu that the present account of u opened.
BindsByLink(f) ==
  flow[f].pc = "store" /\ flow'[f].pc = "menu" /\ ~flow[f].orphaned

\* The exception: the account was deleted while its menu was open and its id
\* given to a new user; LinkOIDCIdentity goes by the id alone.
BindsSuccessor(f, u) ==
  /\ flow[f].pc = "store" /\ flow'[f].pc = "menu"
  /\ flow[f].orphaned /\ account[u] # "deleted"

\* A row is bound to a subject only by a flow that got that subject from the
\* provider, and succeeds: a login claiming the row's user over a mapping an
\* administrator made for the present account, or a link of the account that
\* opened the menu; or the link binds the successor of that account.
\* Neither a login refused for claiming another user or a disabled one, nor
\* anything an administrator or the provider does, binds a row, and no flow
\* binds one for a deleted user.
BoundByOwnFlow ==
  [][\A u \in Users :
       subject'[u] \notin {NoSubject, subject[u]} =>
         \E f \in Flows :
           /\ flow[f].user = u /\ flow[f].subject = subject'[u]
           /\ BindsByLogin(f, u) \/ BindsByLink(f) \/ BindsSuccessor(f, u)]_vars
=============================================================================
