----------------------------- MODULE OidcProofs -----------------------------
(***************************************************************************)
(* Proofs for OidcIdentities, for any number of users, subjects, usernames *)
(* and flows.                                                              *)
(*                                                                         *)
(* BoundOnFirstLogin speaks of two logins that may be far apart.  What     *)
(* connects them is LastLoginBound: the subject of the last login stays in *)
(* the row until the user or an administrator changes the mapping.         *)
(***************************************************************************)
EXTENDS OidcIdentities, TLAPS

\* The subject of the last login is the one in the row.
LastLoginBound ==
  \A u \in Users : lastLogin[u] # NoSubject => subject[u] = lastLogin[u]

\* A flow that is past a step carries what the step produced.
FlowsOK ==
  \A f \in Flows :
    /\ flow[f].pc # "idle" => flow[f].user \in Users
    /\ flow[f].pc \in {"authenticate", "store"} =>
         flow[f].subject \in Subjects /\ flow[f].name \in Usernames

IInv == TypeOK /\ FlowsOK /\ LastLoginBound

LEMMA NoFlowType == NoFlow \in FlowType /\ NoFlow.pc = "idle"
BY DEF NoFlow, FlowType

LEMMA InitIInv == Init => IInv
<1> SUFFICES ASSUME Init PROVE IInv
  OBVIOUS
<1>1. TypeOK
  BY NoFlowType, MaxRenamesNat DEF Init, TypeOK
<1>2. FlowsOK
  BY NoFlowType DEF Init, FlowsOK
<1>3. LastLoginBound
  BY DEF Init, LastLoginBound
<1> QED
  BY <1>1, <1>2, <1>3 DEF IInv

\* A step that moves one flow and leaves the table alone.
LEMMA FlowStep ==
  ASSUME IInv, NEW f \in Flows, NEW r \in FlowType,
         flow' = [flow EXCEPT ![f] = r],
         UNCHANGED <<account, row, provider, renames, lastLogin>>,
         r.pc # "idle" => r.user \in Users,
         r.pc \in {"authenticate", "store"} =>
           r.subject \in Subjects /\ r.name \in Usernames
  PROVE  IInv'
<1>1. flow' \in [Flows -> FlowType] /\ flow'[f] = r
      /\ \A g \in Flows : g # f => flow'[g] = flow[g]
  BY DEF IInv, TypeOK
<1>2. TypeOK' /\ LastLoginBound'
  BY <1>1 DEF IInv, TypeOK, LastLoginBound, row
<1>3. FlowsOK'
  BY <1>1 DEF IInv, FlowsOK
<1> QED
  BY <1>2, <1>3 DEF IInv

\* A step that writes the row of u, and perhaps ends or moves a flow.
LEMMA RowStep ==
  ASSUME IInv, NEW u \in Users, NEW s \in Subjects \cup {NoSubject},
         NEW n \in Usernames \cup {NoName}, NEW l \in {NoSubject, s},
         subject' = [subject EXCEPT ![u] = s],
         name' = [name EXCEPT ![u] = n],
         lastLogin' = [lastLogin EXCEPT ![u] = l],
         n = NoName => s = NoSubject,
         n # NoName => NameFreeFor(u, n),
         s # NoSubject => SubjectFreeFor(u, s),
         account' \in [Users -> {"enabled", "disabled", "deleted"}],
         flow' \in [Flows -> FlowType], FlowsOK',
         UNCHANGED <<provider, renames>>
  PROVE  IInv'
<1>1. /\ subject' \in [Users -> Subjects \cup {NoSubject}]
      /\ name' \in [Users -> Usernames \cup {NoName}]
      /\ lastLogin' \in [Users -> Subjects \cup {NoSubject}]
  BY DEF IInv, TypeOK
<1>2. subject'[u] = s /\ name'[u] = n /\ lastLogin'[u] = l
      /\ \A v \in Users \ {u} : subject'[v] = subject[v] /\ name'[v] = name[v]
                                /\ lastLogin'[v] = lastLogin[v]
  BY DEF IInv, TypeOK
<1>3. \A v \in Users \ {u} : /\ n = NoName \/ name[v] # n
                             /\ s = NoSubject \/ subject[v] # s
  BY DEF NameFreeFor, SubjectFreeFor
<1>4. \A v, w \in Users : v # w =>
        /\ name'[v] = NoName \/ name'[v] # name'[w]
        /\ subject'[v] = NoSubject \/ subject'[v] # subject'[w]
  BY <1>2, <1>3 DEF IInv, TypeOK
<1>5. \A v \in Users : name'[v] = NoName => subject'[v] = NoSubject
  BY <1>2 DEF IInv, TypeOK
<1>6. TypeOK'
  BY <1>1, <1>4, <1>5 DEF IInv, TypeOK
<1>7. LastLoginBound'
  BY <1>2 DEF IInv, LastLoginBound
<1> QED
  BY <1>6, <1>7 DEF IInv

-----------------------------------------------------------------------------
(* One lemma per action.                                                   *)

LEMMA AdministratorStep ==
  ASSUME IInv, NEW u \in Users,
         \/ \E n \in Usernames : SetOIDCUsernameMapping(u, n)
         \/ RemoveOIDCIdentity(u) \/ DeleteUser(u)
  PROVE  IInv'
<1>1. account' \in [Users -> {"enabled", "disabled", "deleted"}]
  BY DEF IInv, TypeOK, SetOIDCUsernameMapping, RemoveOIDCIdentity, DeleteUser
<1>2. ASSUME flow' = flow PROVE flow' \in [Flows -> FlowType] /\ FlowsOK'
  BY <1>2 DEF IInv, TypeOK, FlowsOK
<1>3. ASSUME DeleteUser(u) PROVE flow' \in [Flows -> FlowType] /\ FlowsOK'
  <2>1. ASSUME NEW f \in Flows
        PROVE  /\ flow'[f] \in FlowType
               /\ flow'[f].pc = flow[f].pc /\ flow'[f].user = flow[f].user
               /\ flow'[f].subject = flow[f].subject
               /\ flow'[f].name = flow[f].name
    <3>1. flow[f] \in FlowType
      BY DEF IInv, TypeOK
    <3>2. flow'[f] = [flow[f] EXCEPT !.orphaned = @ \/ flow[f].user = u]
      BY <1>3 DEF DeleteUser
    <3> QED
      BY <3>1, <3>2 DEF FlowType
  <2>2. flow' \in [Flows -> FlowType]
    BY <1>3, <2>1 DEF DeleteUser
  <2> QED
    BY <2>1, <2>2 DEF IInv, FlowsOK
<1>4. CASE \E n \in Usernames : SetOIDCUsernameMapping(u, n)
  BY <1>1, <1>2, <1>4, RowStep, MarkersFresh DEF SetOIDCUsernameMapping
<1>5. CASE RemoveOIDCIdentity(u)
  BY <1>1, <1>2, <1>5, RowStep DEF RemoveOIDCIdentity
<1>6. CASE DeleteUser(u)
  BY <1>1, <1>3, <1>6, RowStep DEF DeleteUser
<1> QED
  BY <1>4, <1>5, <1>6

LEMMA AccountStep ==
  ASSUME IInv, NEW u \in Users,
         (\E b \in BOOLEAN : SetUserEnabled(u, b)) \/ AddUser(u)
  PROVE  IInv'
<1>1. account' \in [Users -> {"enabled", "disabled", "deleted"}]
      /\ UNCHANGED <<row, provider, renames, flow, lastLogin>>
  BY DEF IInv, TypeOK, SetUserEnabled, AddUser
<1> QED
  BY <1>1 DEF IInv, TypeOK, FlowsOK, LastLoginBound, row

LEMMA BeginStep ==
  ASSUME IInv, NEW f \in Flows, NEW u \in Users, BeginLogin(f, u) \/ OpenMenu(f, u)
  PROVE  IInv'
<1>1. PICK p \in {"login", "menu"} :
        /\ flow' = [flow EXCEPT ![f] = [NoFlow EXCEPT !.pc = p, !.user = u]]
        /\ UNCHANGED <<account, row, provider, renames, lastLogin>>
  BY DEF BeginLogin, OpenMenu
<1> DEFINE r == [NoFlow EXCEPT !.pc = p, !.user = u]
<1>2. r \in FlowType /\ r.pc = p /\ r.user = u
  BY DEF NoFlow, FlowType
<1> HIDE DEF r
<1> QED
  BY <1>1, <1>2, FlowStep DEF r

LEMMA BeginLinkStep ==
  ASSUME IInv, NEW f \in Flows, BeginLink(f)
  PROVE  IInv'
<1> DEFINE r == [flow[f] EXCEPT !.pc = "link"]
<1>1. flow[f] \in FlowType /\ flow[f].user \in Users
  BY DEF IInv, TypeOK, FlowsOK, BeginLink
<1>2. r \in FlowType /\ r.pc = "link" /\ r.user = flow[f].user
  BY <1>1 DEF FlowType
<1>3. flow' = [flow EXCEPT ![f] = r]
  BY <1>1 DEF IInv, TypeOK, BeginLink
<1> HIDE DEF r
<1> QED
  BY <1>1, <1>2, <1>3, FlowStep DEF BeginLink

\* A link that ends leaves the menu of the same user.
LEMMA BackInMenuType ==
  ASSUME IInv, NEW f \in Flows, flow[f].pc \in {"link", "store"}
  PROVE  /\ BackInMenu(f) \in FlowType
         /\ BackInMenu(f).pc = "menu" /\ BackInMenu(f).user \in Users
<1>1. flow[f] \in FlowType /\ flow[f].user \in Users
  BY DEF IInv, TypeOK, FlowsOK
<1> QED
  BY <1>1 DEF BackInMenu, FlowType

LEMMA CompleteStep ==
  ASSUME IInv, NEW f \in Flows, NEW s \in Subjects, Complete(f, s)
  PROVE  IInv'
<1> DEFINE p == IF flow[f].pc = "login" THEN "authenticate" ELSE "store"
           r == [flow[f] EXCEPT !.pc = p, !.subject = s, !.name = provider[s]]
<1>1. flow[f] \in FlowType /\ flow[f].user \in Users /\ provider[s] \in Usernames
  BY DEF IInv, TypeOK, FlowsOK, Complete
<1>2. r \in FlowType /\ r.user = flow[f].user /\ r.subject = s
      /\ r.name = provider[s]
  BY <1>1 DEF FlowType
<1>3. flow' = [flow EXCEPT ![f] = r]
  BY <1>1 DEF IInv, TypeOK, Complete
<1> HIDE DEF r
<1> QED
  BY <1>1, <1>2, <1>3, FlowStep DEF Complete

LEMMA AuthenticateStep ==
  ASSUME IInv, NEW f \in Flows, NEW u \in Users, AuthenticateOIDC(f, u)
  PROVE  IInv'
<1> DEFINE s == flow[f].subject
           n == IF u \in BoundTo(f) THEN flow[f].name ELSE name[u]
           r == [flow[f] EXCEPT !.pc = "in"]
<1>1. flow[f] \in FlowType /\ flow[f].user \in Users /\ s \in Subjects
      /\ flow[f].name \in Usernames
  BY DEF IInv, TypeOK, FlowsOK, AuthenticateOIDC
<1>2. r \in FlowType /\ r.pc = "in" /\ r.user = flow[f].user
  BY <1>1 DEF FlowType
<1>3. flow' \in [Flows -> FlowType] /\ FlowsOK'
  BY <1>1, <1>2 DEF IInv, TypeOK, FlowsOK, AuthenticateOIDC
<1>4. SubjectFreeFor(u, s)
  BY <1>1, MarkersFresh DEF AuthenticateOIDC, LoginAccepted, MappedUser, BoundTo,
     SubjectFreeFor, IInv, TypeOK
<1>5. n \in Usernames /\ NameFreeFor(u, n)
  <2>1. CASE u \in BoundTo(f)
    BY <1>1, <2>1 DEF AuthenticateOIDC, LoginAccepted, MappedUser
  <2>2. CASE u \notin BoundTo(f)
    <3>1. name[u] = flow[f].name
      BY <2>2 DEF AuthenticateOIDC, LoginAccepted, MappedUser, PendingFor
    <3> QED
      BY <1>1, <2>2, <3>1, MarkersFresh DEF NameFreeFor, IInv, TypeOK
  <2> QED
    BY <2>1, <2>2
<1>6. name' = [name EXCEPT ![u] = n]
  BY DEF AuthenticateOIDC, IInv, TypeOK
<1>7. /\ subject' = [subject EXCEPT ![u] = s]
      /\ lastLogin' = [lastLogin EXCEPT ![u] = s]
      /\ account' \in [Users -> {"enabled", "disabled", "deleted"}]
      /\ UNCHANGED <<provider, renames>>
  BY DEF AuthenticateOIDC, IInv, TypeOK
<1>8. n # NoName
  BY <1>5, MarkersFresh
<1> HIDE DEF n, s
<1> QED
  BY <1>1, <1>3, <1>4, <1>5, <1>6, <1>7, <1>8, RowStep

LEMMA LinkStep ==
  ASSUME IInv, NEW f \in Flows, LinkOIDCIdentity(f)
  PROVE  IInv'
<1>1. flow[f].user \in Users /\ flow[f].subject \in Subjects
      /\ flow[f].name \in Usernames
  BY DEF IInv, FlowsOK, LinkOIDCIdentity
<1>2. flow' \in [Flows -> FlowType] /\ FlowsOK'
  <2>1. BackInMenu(f) \in FlowType /\ BackInMenu(f).pc = "menu"
        /\ BackInMenu(f).user \in Users
    BY BackInMenuType DEF LinkOIDCIdentity
  <2> QED
    BY <2>1 DEF IInv, TypeOK, FlowsOK, LinkOIDCIdentity
<1> QED
  BY <1>1, <1>2, RowStep, MarkersFresh
     DEF LinkOIDCIdentity, Linkable, IInv, TypeOK

LEMMA NextIInv == IInv /\ [Next]_vars => IInv'
<1> SUFFICES ASSUME IInv, [Next]_vars PROVE IInv'
  OBVIOUS
<1>1. CASE UNCHANGED vars
  BY <1>1 DEF IInv, TypeOK, FlowsOK, LastLoginBound, vars
<1>2. ASSUME NEW f \in Flows, RejectLogin(f) \/ EndFlow(f) PROVE IInv'
  BY <1>2, FlowStep, NoFlowType DEF RejectLogin, EndFlow
<1>3. ASSUME NEW f \in Flows, LinkFails(f) PROVE IInv'
  BY <1>3, FlowStep, BackInMenuType DEF LinkFails
<1>4. ASSUME NEW s \in Subjects, NEW n \in Usernames, Rename(s, n) PROVE IInv'
  BY <1>4, MaxRenamesNat DEF Rename, IInv, TypeOK, FlowsOK, LastLoginBound, row
<1> QED
  BY <1>1, <1>2, <1>3, <1>4, AdministratorStep, AccountStep, BeginStep,
     BeginLinkStep, CompleteStep, AuthenticateStep, LinkStep DEF Next

-----------------------------------------------------------------------------
\* The inductive invariant holds in every reachable state.
THEOREM OidcInvariant == Spec => []IInv
BY InitIInv, NextIInv, PTL DEF Spec

\* Types and uniqueness of subjects and usernames.
THEOREM OidcTypeCorrect == Spec => []TypeOK
<1>1. IInv => TypeOK
  BY DEF IInv
<1> QED
  BY <1>1, OidcInvariant, PTL

\* Only AuthenticateOIDC lets a flow that waits for it in.
LEMMA OnlyAuthenticateEnters ==
  ASSUME IInv, [Next]_vars, NEW f \in Flows,
         flow[f].pc = "authenticate", flow'[f].pc = "in"
  PROVE  \E u \in Users : AuthenticateOIDC(f, u)
<1>1. flow \in [Flows -> FlowType]
  BY DEF IInv, TypeOK
<1>2. flow'[f] # flow[f] /\ flow'[f] # NoFlow
  BY NoFlowType
<1>3. ASSUME NEW g \in Flows, RejectLogin(g) \/ EndFlow(g)
      PROVE  FALSE
  BY <1>1, <1>2, <1>3 DEF RejectLogin, EndFlow
<1>4. ASSUME NEW g \in Flows, NEW u \in Users, BeginLogin(g, u) \/ OpenMenu(g, u)
      PROVE  FALSE
  <2>1. g = f
    BY <1>1, <1>2, <1>4 DEF BeginLogin, OpenMenu
  <2> QED
    BY <1>4, <2>1 DEF BeginLogin, OpenMenu
<1>9. ASSUME NEW g \in Flows, BeginLink(g) \/ LinkOIDCIdentity(g) \/ LinkFails(g)
      PROVE  FALSE
  <2>1. g = f
    BY <1>1, <1>2, <1>9 DEF BeginLink, LinkOIDCIdentity, LinkFails
  <2> QED
    BY <1>9, <2>1 DEF BeginLink, LinkOIDCIdentity, LinkFails
<1>10. ASSUME NEW u \in Users, DeleteUser(u)
       PROVE  FALSE
  <2>1. flow'[f].pc = flow[f].pc
    BY <1>1, <1>10 DEF DeleteUser, FlowType
  <2> QED
    BY <2>1
<1>5. ASSUME NEW g \in Flows, NEW s \in Subjects, Complete(g, s)
      PROVE  FALSE
  <2>1. g = f
    BY <1>1, <1>2, <1>5 DEF Complete
  <2> QED
    BY <1>5, <2>1 DEF Complete
<1>6. ASSUME NEW g \in Flows, NEW u \in Users, AuthenticateOIDC(g, u)
      PROVE  AuthenticateOIDC(f, u)
  <2>1. g = f
    BY <1>1, <1>2, <1>6 DEF AuthenticateOIDC
  <2> QED
    BY <1>6, <2>1
<1>7. CASE flow' = flow
  BY <1>2, <1>7
<1>8. CASE flow' # flow
  <2>1. Next
    BY <1>8 DEF vars
  <2>2. ~\E u \in Users : \/ \E n \in Usernames : SetOIDCUsernameMapping(u, n)
                          \/ RemoveOIDCIdentity(u)
                          \/ \E b \in BOOLEAN : SetUserEnabled(u, b)
                          \/ AddUser(u)
    BY <1>8 DEF SetOIDCUsernameMapping, RemoveOIDCIdentity, SetUserEnabled,
       AddUser
  <2>3. ~\E s \in Subjects, n \in Usernames : Rename(s, n)
    BY <1>8 DEF Rename
  <2> QED
    BY <1>3, <1>4, <1>5, <1>6, <1>9, <1>10, <2>1, <2>2, <2>3 DEF Next
<1> QED
  BY <1>7, <1>8

\* An account keeps the subject of its first login until it is remapped.
THEOREM OidcBoundOnFirstLogin == Spec => BoundOnFirstLogin
<1> DEFINE Keeps(f) ==
      flow[f].pc = "authenticate" /\ flow'[f].pc = "in" =>
        lastLogin[flow[f].user] \in {NoSubject, flow[f].subject}
<1>1. ASSUME IInv, [Next]_vars, NEW f \in Flows,
             flow[f].pc = "authenticate", flow'[f].pc = "in"
      PROVE  lastLogin[flow[f].user] \in {NoSubject, flow[f].subject}
  <2>2. PICK u \in Users : AuthenticateOIDC(f, u)
    BY <1>1, OnlyAuthenticateEnters
  <2>3. u = flow[f].user /\ subject[u] \in {NoSubject, flow[f].subject}
    BY <2>2 DEF AuthenticateOIDC, LoginAccepted, MappedUser, BoundTo, PendingFor
  <2> QED
    BY <1>1, <2>3 DEF IInv, LastLoginBound
<1>2. IInv /\ [Next]_vars => [\A f \in Flows : Keeps(f)]_vars
  BY <1>1
<1> QED
  BY <1>2, OidcInvariant, PTL DEF Spec, BoundOnFirstLogin

\* A step that binds a row is a login or a link of a flow of its user.
LEMMA BindingStep ==
  ASSUME IInv, Next, NEW u \in Users, subject'[u] \notin {NoSubject, subject[u]}
  PROVE  \E f \in Flows :
           /\ flow[f].user = u /\ flow[f].subject = subject'[u]
           /\ \/ AuthenticateOIDC(f, u)
              \/ LinkOIDCIdentity(f)
<1>1. subject \in [Users -> Subjects \cup {NoSubject}]
  BY DEF IInv, TypeOK
<1>2. ASSUME NEW v \in Users, \/ \E n \in Usernames : SetOIDCUsernameMapping(v, n)
                              \/ RemoveOIDCIdentity(v) \/ DeleteUser(v)
      PROVE  FALSE
  <2>1. subject' = [subject EXCEPT ![v] = NoSubject]
    BY <1>2 DEF SetOIDCUsernameMapping, RemoveOIDCIdentity, DeleteUser
  <2> QED
    BY <1>1, <2>1
<1>3. ASSUME subject' = subject PROVE FALSE
  BY <1>3
<1>4. ASSUME NEW f \in Flows, NEW v \in Users, AuthenticateOIDC(f, v)
      PROVE  v = u /\ flow[f].user = u /\ flow[f].subject = subject'[u]
  BY <1>1, <1>4 DEF AuthenticateOIDC, LoginAccepted
<1>5. ASSUME NEW f \in Flows, LinkOIDCIdentity(f)
      PROVE  flow[f].user = u /\ flow[f].subject = subject'[u]
  BY <1>1, <1>5 DEF LinkOIDCIdentity
<1>6. ASSUME NEW v \in Users, (\E b \in BOOLEAN : SetUserEnabled(v, b)) \/ AddUser(v)
      PROVE  FALSE
  BY <1>3, <1>6 DEF SetUserEnabled, AddUser, row
<1>7. ASSUME NEW f \in Flows,
             \/ \E v \in Users : BeginLogin(f, v) \/ OpenMenu(f, v)
             \/ \E s \in Subjects : Complete(f, s)
             \/ RejectLogin(f) \/ BeginLink(f) \/ LinkFails(f) \/ EndFlow(f)
      PROVE  FALSE
  BY <1>3, <1>7 DEF BeginLogin, OpenMenu, BeginLink, Complete, RejectLogin,
     LinkFails, EndFlow, row
<1>8. ASSUME NEW s \in Subjects, NEW n \in Usernames, Rename(s, n) PROVE FALSE
  BY <1>3, <1>8 DEF Rename, row
<1> QED
  BY <1>2, <1>4, <1>5, <1>6, <1>7, <1>8 DEF Next

\* Nothing but a successful login over the account's own mapping, a link from
\* a menu of the account, or one of the account it succeeded, binds a row.
THEOREM OidcBoundByOwnFlow == Spec => BoundByOwnFlow
<1> DEFINE Binds(f, u) ==
             BindsByLogin(f, u) \/ BindsByLink(f) \/ BindsSuccessor(f, u)
           ByFlow(u) ==
             subject'[u] \notin {NoSubject, subject[u]} =>
               \E f \in Flows :
                 /\ flow[f].user = u /\ flow[f].subject = subject'[u]
                 /\ Binds(f, u)
<1>1. ASSUME IInv, Next, NEW u \in Users,
             subject'[u] \notin {NoSubject, subject[u]}
      PROVE  \E f \in Flows : /\ flow[f].user = u /\ flow[f].subject = subject'[u]
                              /\ Binds(f, u)
  <2>1. PICK f \in Flows : /\ flow[f].user = u /\ flow[f].subject = subject'[u]
                           /\ AuthenticateOIDC(f, u) \/ LinkOIDCIdentity(f)
    BY <1>1, BindingStep
  <2>2. flow \in [Flows -> FlowType] /\ flow[f] \in FlowType
    BY <1>1 DEF IInv, TypeOK
  <2>3. CASE AuthenticateOIDC(f, u)
    <3>1. flow'[f].pc = "in"
      BY <2>2, <2>3 DEF AuthenticateOIDC, FlowType
    <3>2. u \in PendingFor(f)
      BY <1>1, <2>1, <2>3
         DEF AuthenticateOIDC, LoginAccepted, MappedUser, BoundTo
    <3>3. BindsByLogin(f, u)
      BY <2>3, <3>1, <3>2
         DEF AuthenticateOIDC, LoginAccepted, PendingFor, BindsByLogin
    <3> QED
      BY <2>1, <3>3
  <2>4. CASE LinkOIDCIdentity(f)
    <3>1. flow'[f].pc = "menu"
      BY <1>1, <2>2, <2>4, BackInMenuType DEF LinkOIDCIdentity
    <3>2. BindsByLink(f) \/ BindsSuccessor(f, u)
      BY <2>1, <2>2, <2>4, <3>1
         DEF LinkOIDCIdentity, Linkable, BindsByLink, BindsSuccessor, FlowType
    <3> QED
      BY <2>1, <3>2
  <2> QED
    BY <2>1, <2>3, <2>4
<1>2. IInv /\ [Next]_vars => [\A u \in Users : ByFlow(u)]_vars
  BY <1>1
<1> QED
  BY <1>2, OidcInvariant, PTL DEF Spec, BoundByOwnFlow
=============================================================================
