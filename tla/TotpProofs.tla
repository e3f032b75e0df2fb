------------------------------ MODULE TotpProofs ------------------------------
(***************************************************************************)
(* Invariance proofs for Totp, for any number of logins, administrators,   *)
(* secrets and periods.                                                    *)
(*                                                                         *)
(* That a counter is consumed once per enrolment is not inductive: one     *)
(* needs that last_counter covers what the enrolment has consumed, and     *)
(* that a secret waiting in a dialog has never been enrolled, because      *)
(* SetUserTOTP starts the counter again.                                   *)
(***************************************************************************)
EXTENDS Totp, TLAPS

\* Dialogs whose secret has not been stored yet.
Waiting == {a \in Admins : dialog[a].pc \in {"dialog", "set"}}

\* The secrets in use come from the generator, and those still waiting in a
\* dialog are fresh: not enrolled, not consumed from, not in another dialog.
SecretsFresh ==
  /\ secret <= generated
  /\ \A x \in Secrets \X Counters : accepted[x] # 0 => x[1] <= generated
  /\ \A a \in Waiting :
       /\ dialog[a].secret \in Secrets
       /\ dialog[a].secret <= generated
       /\ dialog[a].secret # secret
       /\ \A k \in Counters : accepted[<<dialog[a].secret, k>>] = 0
       /\ \A b \in Waiting : dialog[b].secret = dialog[a].secret => a = b

\* Whoever is about to consume carries the secret of a code.
CodesOK ==
  /\ \A a \in Admins : dialog[a].pc \notin {"idle", "listed"} =>
                         dialog[a].secret \in Secrets
  /\ \A l \in Logins : login[l].pc \in {"validate", "consume"} =>
                         login[l].secret \in Secrets

\* What the current enrolment has consumed is at most last_counter.
LastCovers ==
  \A k \in Counters : secret # NoSecret /\ accepted[<<secret, k>>] # 0 => k <= last

\* Counters that passed Validate are at most one ahead of the clock.
CountersNear ==
  /\ \A a \in Admins : dialog[a].pc \in {"set", "consume"} =>
                         dialog[a].counter <= clock + 1
  /\ \A l \in Logins : login[l].pc = "consume" => login[l].counter <= clock + 1

IInv == /\ TypeOK /\ SecretsFresh /\ CodesOK /\ LastCovers /\ CountersNear
        /\ CounterOncePerEnrolment /\ NotLockedOut

LEMMA InitIInv == Init => IInv
<1> SUFFICES ASSUME Init PROVE IInv
  OBVIOUS
<1>1. NoDialog \in DialogType /\ NoLogin \in LoginType
      /\ NoDialog.pc = "idle" /\ NoLogin.pc = "idle"
  BY MaxTimeNat, MaxSecretsNat
     DEF NoDialog, DialogType, NoLogin, LoginType, Counters, NoSecret
<1>2. TypeOK
  BY <1>1, MaxTimeNat, MaxSecretsNat DEF Init, TypeOK, NoSecret
<1>3. \A a \in Admins : dialog[a].pc = "idle"
  BY <1>1 DEF Init
<1>4. \A l \in Logins : login[l].pc = "idle"
  BY <1>1 DEF Init
<1>5. \A x \in Secrets \X Counters : accepted[x] = 0
  BY DEF Init
<1>6. SecretsFresh
  BY <1>3, <1>5 DEF Init, SecretsFresh, Waiting, NoSecret
<1> QED
  BY <1>2, <1>3, <1>4, <1>5, <1>6
     DEF IInv, Init, CodesOK, LastCovers, CountersNear, NotLockedOut,
         CounterOncePerEnrolment, NoSecret

\* A step that leaves the row and the history alone and moves one dialog.
LEMMA DialogStep ==
  ASSUME IInv, NEW a \in Admins, NEW d \in DialogType,
         dialog' = [dialog EXCEPT ![a] = d],
         UNCHANGED <<clock, secret, last, generated, login, history>>,
         d.pc \notin {"idle", "listed"} => d.secret \in Secrets,
         d.pc \in {"dialog", "set"} => a \in Waiting /\ d.secret = dialog[a].secret,
         d.pc \in {"set", "consume"} => d.counter <= clock + 1
  PROVE  IInv'
<1>1. dialog' \in [Admins -> DialogType] /\ dialog'[a] = d
      /\ \A b \in Admins : b # a => dialog'[b] = dialog[b]
  BY DEF IInv, TypeOK
<1>2. TypeOK'
  BY <1>1 DEF IInv, TypeOK, history
<1>3. Waiting' \subseteq Waiting
      /\ \A b \in Waiting' : dialog'[b].secret = dialog[b].secret
  BY <1>1 DEF Waiting
<1>4. SecretsFresh'
  BY <1>3 DEF IInv, SecretsFresh, history
<1>5. CodesOK' /\ CountersNear'
  BY <1>1 DEF IInv, CodesOK, CountersNear
<1> QED
  BY <1>2, <1>4, <1>5
     DEF IInv, LastCovers, CounterOncePerEnrolment, NotLockedOut, history

\* ... or one login.
LEMMA LoginStep ==
  ASSUME IInv, NEW l \in Logins, NEW r \in LoginType,
         login' = [login EXCEPT ![l] = r],
         UNCHANGED <<clock, secret, last, generated, dialog, history>>,
         r.pc \in {"validate", "consume"} => r.secret \in Secrets,
         r.pc = "consume" => r.counter <= clock + 1
  PROVE  IInv'
<1>1. login' \in [Logins -> LoginType] /\ login'[l] = r
      /\ \A b \in Logins : b # l => login'[b] = login[b]
  BY DEF IInv, TypeOK
<1>2. TypeOK'
  BY <1>1 DEF IInv, TypeOK, history
<1>3. SecretsFresh'
  BY DEF IInv, SecretsFresh, Waiting, history
<1>4. CodesOK' /\ CountersNear'
  BY <1>1 DEF IInv, CodesOK, CountersNear
<1> QED
  BY <1>2, <1>3, <1>4
     DEF IInv, LastCovers, CounterOncePerEnrolment, NotLockedOut, history

\* A counter is consumed; the dialog or login that consumed it is done, in a
\* way that keeps dialogs and logins in order.
LEMMA ConsumeStep ==
  ASSUME IInv, NEW s \in Secrets, NEW k \in Counters, Consume(s, k),
         k <= clock + 1, UNCHANGED <<clock, secret, generated>>,
         dialog' \in [Admins -> DialogType], login' \in [Logins -> LoginType],
         CodesOK', CountersNear',
         Waiting' = Waiting,
         \A a \in Waiting : dialog'[a] = dialog[a]
  PROVE  IInv'
<1>1. secret \in Secrets /\ last < k /\ last' = k
  BY MaxSecretsNat DEF IInv, TypeOK, Consume, Consumable, NoSecret, Secrets
<1>2. accepted[<<secret, k>>] = 0
  BY <1>1 DEF IInv, TypeOK, LastCovers, NoSecret, Secrets, Counters
<1>3. /\ accepted' \in [Secrets \X Counters -> Nat]
      /\ accepted'[<<secret, k>>] = 1
      /\ \A x \in Secrets \X Counters :
           x # <<secret, k>> => accepted'[x] = accepted[x]
  BY <1>1, <1>2 DEF IInv, TypeOK, Consume
<1>4. codes' \in [Secrets \X Counters -> Nat]
  BY DEF IInv, TypeOK, Consume
<1>5. TypeOK'
  <2>1. last' \in -1 .. MaxTime + 1
    BY <1>1, MaxTimeNat DEF Counters
  <2> QED
    BY <1>3, <1>4, <2>1 DEF IInv, TypeOK
<1>6. SecretsFresh'
  <2>1. \A x \in Secrets \X Counters : accepted'[x] # 0 => x[1] <= generated
    BY <1>3 DEF IInv, SecretsFresh
  <2>2. \A a \in Waiting, j \in Counters : accepted'[<<dialog[a].secret, j>>] = 0
    BY <1>1, <1>3 DEF IInv, SecretsFresh
  <2> QED
    BY <2>1, <2>2 DEF IInv, SecretsFresh
<1>7. LastCovers'
  <2>1. SUFFICES ASSUME NEW j \in Counters, accepted'[<<secret, j>>] # 0
                 PROVE  j <= k
    BY <1>1 DEF LastCovers
  <2>2. CASE j = k
    BY <2>2 DEF Counters
  <2>3. CASE j # k
    <3>1. accepted[<<secret, j>>] # 0
      BY <1>1, <1>3, <2>1, <2>3
    <3>2. j <= last
      BY <1>1, <3>1 DEF IInv, LastCovers, NoSecret, Secrets
    <3> QED
      BY <1>1, <3>2 DEF IInv, TypeOK, Counters
  <2> QED
    BY <2>2, <2>3
<1>8. CounterOncePerEnrolment'
  BY <1>3 DEF IInv, CounterOncePerEnrolment
<1>9. NotLockedOut'
  BY <1>1 DEF NotLockedOut
<1> QED
  BY <1>5, <1>6, <1>7, <1>8, <1>9 DEF IInv

-----------------------------------------------------------------------------
(* One lemma per action that is not a mere move.                           *)

LEMMA LoadUsersStep ==
  ASSUME IInv, NEW a \in Admins, LoadUsers(a)
  PROVE  IInv'
<1> DEFINE d == [dialog[a] EXCEPT !.pc = "listed"]
<1>1. dialog[a] \in DialogType
  BY DEF IInv, TypeOK
<1>2. d \in DialogType /\ d.pc = "listed"
  BY <1>1 DEF DialogType
<1>3. dialog' = [dialog EXCEPT ![a] = d]
  BY DEF LoadUsers
<1> HIDE DEF d
<1> QED
  BY <1>2, <1>3, DialogStep DEF LoadUsers

LEMMA OpenDialogStep ==
  ASSUME IInv, NEW a \in Admins, OpenDialog(a)
  PROVE  IInv'
<1> DEFINE d == [pc |-> "dialog", secret |-> generated + 1, counter |-> 0]
<1>1. generated + 1 \in Secrets /\ generated \in Nat /\ 0 \in Counters
  BY MaxSecretsNat, MaxTimeNat DEF IInv, TypeOK, OpenDialog, Secrets, Counters
<1>2. d \in DialogType
  BY <1>1 DEF DialogType, Secrets
<1>3. dialog' \in [Admins -> DialogType] /\ dialog'[a] = d
      /\ \A b \in Admins : b # a => dialog'[b] = dialog[b]
  BY <1>2 DEF IInv, TypeOK, OpenDialog
<1>4. TypeOK'
  BY <1>1, <1>3 DEF IInv, TypeOK, OpenDialog, Secrets, history
<1>5. Waiting' = Waiting \cup {a}
  BY <1>3 DEF Waiting
<1>6. \A k \in Counters : accepted[<<generated + 1, k>>] = 0
  BY <1>1 DEF IInv, SecretsFresh
<1>7. \A b \in Waiting : dialog[b].secret \in Secrets /\ dialog[b].secret <= generated
  BY DEF IInv, SecretsFresh
<1>8. SecretsFresh'
  <2>1. secret <= generated' /\ secret # generated + 1
    BY <1>1 DEF IInv, TypeOK, SecretsFresh, OpenDialog
  <2>2. \A x \in Secrets \X Counters : accepted'[x] # 0 => x[1] <= generated'
    BY <1>1 DEF IInv, SecretsFresh, OpenDialog, history, Secrets
  <2>3. a \notin Waiting
    BY DEF OpenDialog, Waiting
  <2>4. ASSUME NEW b \in Waiting'
        PROVE  /\ dialog'[b].secret \in Secrets
               /\ dialog'[b].secret <= generated'
               /\ dialog'[b].secret # secret
               /\ \A k \in Counters : accepted[<<dialog'[b].secret, k>>] = 0
               /\ \A e \in Waiting' : dialog'[e].secret = dialog'[b].secret => b = e
    <3>1. CASE b = a
      BY <1>1, <1>3, <1>5, <1>6, <1>7, <2>1, <2>3, <3>1
         DEF OpenDialog, Secrets, Waiting
    <3>2. CASE b # a
      BY <1>1, <1>3, <1>5, <1>7, <2>3, <2>4, <3>2
         DEF IInv, SecretsFresh, OpenDialog, Secrets, Waiting
    <3> QED
      BY <3>1, <3>2
  <2> QED
    BY <2>1, <2>2, <2>4 DEF SecretsFresh, OpenDialog, history
<1>9. CodesOK' /\ CountersNear'
  BY <1>1, <1>3 DEF IInv, CodesOK, CountersNear, OpenDialog
<1> QED
  BY <1>4, <1>8, <1>9 DEF IInv, LastCovers, CounterOncePerEnrolment,
     NotLockedOut, OpenDialog, history

LEMMA SetUserTOTPStep ==
  ASSUME IInv, NEW a \in Admins, SetUserTOTP(a)
  PROVE  IInv'
<1> DEFINE s == dialog[a].secret
           d == [dialog[a] EXCEPT !.pc = "consume"]
<1>1. a \in Waiting /\ s \in Secrets /\ dialog[a] \in DialogType
  BY DEF IInv, TypeOK, CodesOK, SetUserTOTP, Waiting
<1>2. d \in DialogType /\ d.pc = "consume" /\ d.secret = s
      /\ d.counter = dialog[a].counter
  BY <1>1 DEF DialogType
<1>3. dialog' \in [Admins -> DialogType] /\ dialog'[a] = d
      /\ \A b \in Admins : b # a => dialog'[b] = dialog[b]
  BY <1>2 DEF IInv, TypeOK, SetUserTOTP
<1> HIDE DEF d
<1>4. TypeOK'
  <2>1. secret' \in 0 .. MaxSecrets /\ last' \in -1 .. MaxTime + 1
    BY <1>1, MaxTimeNat DEF SetUserTOTP, Secrets
  <2> QED
    BY <1>3, <2>1 DEF IInv, TypeOK, SetUserTOTP, history
<1>5. Waiting' = Waiting \ {a}
  BY <1>2, <1>3 DEF Waiting
<1>6. SecretsFresh'
  BY <1>1, <1>3, <1>5 DEF IInv, SecretsFresh, SetUserTOTP, history, Waiting
<1>7. LastCovers'
  BY <1>1 DEF IInv, SecretsFresh, LastCovers, SetUserTOTP, history
<1>8. CodesOK' /\ CountersNear'
  BY <1>1, <1>2, <1>3 DEF IInv, CodesOK, CountersNear, SetUserTOTP
<1>9. NotLockedOut'
  BY DEF IInv, TypeOK, NotLockedOut, SetUserTOTP
<1> QED
  BY <1>4, <1>6, <1>7, <1>8, <1>9
     DEF IInv, CounterOncePerEnrolment, SetUserTOTP, history

LEMMA RemoveUserTOTPStep ==
  ASSUME IInv, RemoveUserTOTP
  PROVE  IInv'
<1>1. TypeOK'
  BY MaxTimeNat, MaxSecretsNat
     DEF IInv, TypeOK, RemoveUserTOTP, NoSecret, history
<1>2. SecretsFresh'
  BY DEF IInv, TypeOK, SecretsFresh, Waiting, RemoveUserTOTP, NoSecret, history,
         Secrets
<1> QED
  BY <1>1, <1>2 DEF IInv, CodesOK, LastCovers, CountersNear, NotLockedOut,
     CounterOncePerEnrolment, RemoveUserTOTP, history

LEMMA TickStep ==
  ASSUME IInv, Tick
  PROVE  IInv'
<1>1. TypeOK' /\ clock \in Nat /\ clock' = clock + 1
  BY MaxTimeNat DEF IInv, TypeOK, Tick, history
<1>2. CountersNear'
  BY <1>1 DEF IInv, TypeOK, CountersNear, Tick, DialogType, LoginType, Counters
<1>3. NotLockedOut'
  BY <1>1 DEF IInv, TypeOK, NotLockedOut, Tick
<1> QED
  BY <1>1, <1>2, <1>3 DEF IInv, CodesOK, LastCovers, SecretsFresh, Waiting,
     CounterOncePerEnrolment, Tick, history

LEMMA RestStates ==
  /\ NoDialog \in DialogType /\ NoDialog.pc = "idle"
  /\ NoLogin \in LoginType /\ NoLogin.pc = "idle"
  /\ \A p \in {"prompt", "in"} : /\ [NoLogin EXCEPT !.pc = p] \in LoginType
                                 /\ [NoLogin EXCEPT !.pc = p].pc = p
BY MaxTimeNat, MaxSecretsNat
   DEF NoDialog, NoLogin, DialogType, LoginType, Counters, NoSecret

LEMMA FinishEnrollmentStep ==
  ASSUME IInv, NEW a \in Admins, FinishEnrollment(a)
  PROVE  IInv'
<1>1. dialog[a] \in DialogType /\ dialog[a].secret \in Secrets
      /\ dialog[a].counter \in Counters /\ dialog[a].counter <= clock + 1
  BY DEF IInv, TypeOK, CodesOK, CountersNear, FinishEnrollment, DialogType
<1>2. CASE UNCHANGED <<last, accepted, codes>>
  BY <1>2, RestStates, DialogStep DEF FinishEnrollment, history
<1>3. CASE Consume(dialog[a].secret, dialog[a].counter)
  <2>1. dialog' \in [Admins -> DialogType] /\ dialog'[a] = NoDialog
        /\ \A b \in Admins : b # a => dialog'[b] = dialog[b]
    BY RestStates DEF IInv, TypeOK, FinishEnrollment
  <2>2. Waiting' = Waiting /\ a \notin Waiting
    BY <2>1, RestStates DEF Waiting, FinishEnrollment
  <2>3. CodesOK' /\ CountersNear'
    BY <2>1, RestStates DEF IInv, CodesOK, CountersNear, FinishEnrollment
  <2>4. login' \in [Logins -> LoginType]
    BY DEF IInv, TypeOK, FinishEnrollment
  <2>5. \A b \in Waiting : dialog'[b] = dialog[b]
    BY <2>1, <2>2 DEF Waiting
  <2> QED
    BY <1>1, <1>3, <2>1, <2>2, <2>3, <2>4, <2>5, ConsumeStep
       DEF FinishEnrollment
<1> QED
  BY <1>2, <1>3 DEF FinishEnrollment

LEMMA ConfirmCodeStep ==
  ASSUME IInv, NEW a \in Admins, NEW k \in Counters, ConfirmCode(a, k)
  PROVE  IInv'
<1> DEFINE d == [dialog[a] EXCEPT !.pc = "set", !.counter = k]
<1>1. dialog[a] \in DialogType /\ dialog[a].secret \in Secrets /\ a \in Waiting
  BY DEF IInv, TypeOK, CodesOK, ConfirmCode, Waiting
<1>2. d \in DialogType /\ d.pc = "set" /\ d.secret = dialog[a].secret
      /\ d.counter = k
  BY <1>1 DEF DialogType
<1>3. dialog' = [dialog EXCEPT ![a] = d]
  BY <1>1 DEF IInv, TypeOK, ConfirmCode
<1>4. k <= clock + 1
  BY DEF ConfirmCode, InWindow, IInv, TypeOK
<1> HIDE DEF d
<1> QED
  BY <1>1, <1>2, <1>3, <1>4, DialogStep DEF ConfirmCode

\* The steps of a login that do not consume.
LEMMA FirstFactorStep ==
  ASSUME IInv, NEW l \in Logins, FirstFactor(l)
  PROVE  IInv'
<1> DEFINE p == IF secret = NoSecret THEN "in" ELSE "prompt"
           r == [login[l] EXCEPT !.pc = p]
<1>1. login[l] \in LoginType
  BY DEF IInv, TypeOK
<1>2. r \in LoginType /\ r.pc = p
  BY <1>1 DEF LoginType
<1>3. login' = [login EXCEPT ![l] = r]
  BY DEF FirstFactor
<1> HIDE DEF r
<1> QED
  BY <1>2, <1>3, LoginStep DEF FirstFactor

LEMMA UserTOTPStep ==
  ASSUME IInv, NEW l \in Logins, NEW s \in Secrets, NEW k \in Counters,
         UserTOTP(l, s, k)
  PROVE  IInv'
<1> DEFINE r == [pc |-> "validate", read |-> secret, secret |-> s, counter |-> k]
<1>1. r \in LoginType
  BY DEF IInv, TypeOK, LoginType, Secrets
<1>2. CASE login' = [login EXCEPT ![l] = r]
  BY <1>1, <1>2, LoginStep DEF UserTOTP
<1>3. CASE Denied(l)
  BY <1>3, RestStates, LoginStep DEF UserTOTP, Denied
<1> QED
  BY <1>2, <1>3 DEF UserTOTP

LEMMA ValidateStep ==
  ASSUME IInv, NEW l \in Logins, Validate(l)
  PROVE  IInv'
<1> DEFINE r == [login[l] EXCEPT !.pc = "consume"]
<1>1. login[l] \in LoginType /\ login[l].secret \in Secrets
  BY DEF IInv, TypeOK, CodesOK, Validate
<1>2. r \in LoginType /\ r.secret = login[l].secret
      /\ r.counter = login[l].counter
  BY <1>1 DEF LoginType
<1>3. CASE Valid(l) /\ login' = [login EXCEPT ![l].pc = "consume"]
  <2>1. login[l].counter <= clock + 1
    BY <1>3 DEF Valid, InWindow, IInv, TypeOK
  <2>2. login' = [login EXCEPT ![l] = r]
    BY <1>3
  <2> HIDE DEF r
  <2> QED
    BY <1>1, <1>2, <2>1, <2>2, LoginStep DEF Validate
<1>4. CASE Denied(l)
  BY <1>4, RestStates, LoginStep DEF Validate, Denied
<1> QED
  BY <1>3, <1>4 DEF Validate

LEMMA ConsumeTOTPCounterStep ==
  ASSUME IInv, NEW l \in Logins, ConsumeTOTPCounter(l)
  PROVE  IInv'
<1>1. login[l] \in LoginType /\ login[l].secret \in Secrets
      /\ login[l].counter \in Counters /\ login[l].counter <= clock + 1
  BY DEF IInv, TypeOK, CodesOK, CountersNear, ConsumeTOTPCounter, LoginType
<1>2. CASE Denied(l) /\ UNCHANGED <<last, accepted, codes>>
  BY <1>2, RestStates, LoginStep DEF ConsumeTOTPCounter, Denied, history
<1>3. CASE /\ Consume(login[l].secret, login[l].counter)
           /\ login' = [login EXCEPT ![l] = [NoLogin EXCEPT !.pc = "in"]]
  <2>1. login' \in [Logins -> LoginType] /\ login'[l].pc = "in"
        /\ \A m \in Logins : m # l => login'[m] = login[m]
    BY <1>3, RestStates DEF IInv, TypeOK
  <2>2. CodesOK' /\ CountersNear'
    BY <2>1 DEF IInv, CodesOK, CountersNear, ConsumeTOTPCounter
  <2>3. Waiting' = Waiting /\ dialog' \in [Admins -> DialogType]
    BY DEF IInv, TypeOK, Waiting, ConsumeTOTPCounter
  <2> QED
    BY <1>1, <1>3, <2>1, <2>2, <2>3, ConsumeStep DEF ConsumeTOTPCounter
<1> QED
  BY <1>2, <1>3 DEF ConsumeTOTPCounter

-----------------------------------------------------------------------------
LEMMA NextIInv == IInv /\ [Next]_vars => IInv'
<1> SUFFICES ASSUME IInv, [Next]_vars PROVE IInv'
  OBVIOUS
<1>1. CASE UNCHANGED vars
  BY <1>1 DEF IInv, vars, history, TypeOK, SecretsFresh, Waiting, CodesOK,
     LastCovers, CountersNear, CounterOncePerEnrolment, NotLockedOut
<1>2. ASSUME NEW a \in Admins, AbandonDialog(a) PROVE IInv'
  BY <1>2, RestStates, DialogStep DEF AbandonDialog
<1>3. ASSUME NEW l \in Logins, Disconnect(l) PROVE IInv'
  BY <1>3, RestStates, LoginStep DEF Disconnect
<1> QED
  BY <1>1, <1>2, <1>3, LoadUsersStep, OpenDialogStep, ConfirmCodeStep, SetUserTOTPStep,
     FinishEnrollmentStep, FirstFactorStep, UserTOTPStep, ValidateStep,
     ConsumeTOTPCounterStep, RemoveUserTOTPStep, TickStep DEF Next

\* The inductive invariant holds in every reachable state.
THEOREM TotpInvariant == Spec => []IInv
BY InitIInv, NextIInv, PTL DEF Spec

\* The row, the dialogs and the logins keep their types.
THEOREM TotpTypeCorrect == Spec => []TypeOK
<1>1. IInv => TypeOK
  BY DEF IInv
<1> QED
  BY <1>1, TotpInvariant, PTL

\* No enrolment consumes a counter twice, whatever logins, enrolments and
\* removals interleave.
THEOREM TotpCounterOnce == Spec => []CounterOncePerEnrolment
<1>1. IInv => CounterOncePerEnrolment
  BY DEF IInv
<1> QED
  BY <1>1, TotpInvariant, PTL

\* The consumed counter is never more than one period ahead of the clock.
THEOREM TotpNotLockedOut == Spec => []NotLockedOut
<1>1. IInv => NotLockedOut
  BY DEF IInv
<1> QED
  BY <1>1, TotpInvariant, PTL

-----------------------------------------------------------------------------
(* How often a code itself is accepted.  It may be consumed from a row that *)
(* is not its own, when an enrolment overtakes the login that carries it;   *)
(* but never one of a secret that still waits in a dialog.                  *)

\* Whoever carries a code to be consumed has it from a secret that was stored.
StoredOnce ==
  /\ \A a \in Admins : dialog[a].pc = "consume" =>
       /\ dialog[a].secret <= generated
       /\ \A b \in Waiting : dialog[b].secret # dialog[a].secret
  /\ \A l \in Logins :
       /\ login[l].pc \in {"validate", "consume"} =>
            /\ login[l].read \in Secrets
            /\ login[l].read <= generated
            /\ \A b \in Waiting : dialog[b].secret # login[l].read
       /\ login[l].pc = "consume" => login[l].secret = login[l].read

\* An accepted code comes from a secret that was stored, and is covered by
\* last_counter as long as its secret is the stored one.
CodesCovered ==
  \A x \in Secrets \X Counters : codes[x] # 0 =>
    /\ x[1] <= generated
    /\ x[1] = secret => x[2] <= last
    /\ \A b \in Waiting : dialog[b].secret # x[1]

CInv == StoredOnce /\ CodesCovered

\* A dialog moves, or closes, and nothing else changes.
LEMMA DialogKeepsCInv ==
  ASSUME IInv, CInv, NEW a \in Admins, NEW d \in DialogType,
         dialog' = [dialog EXCEPT ![a] = d],
         UNCHANGED <<secret, last, generated, login, codes>>,
         d.pc # "consume",
         d.pc \in {"dialog", "set"} => a \in Waiting /\ d.secret = dialog[a].secret
  PROVE  CInv'
<1>1. dialog'[a] = d /\ \A b \in Admins : b # a => dialog'[b] = dialog[b]
  BY DEF IInv, TypeOK
<1>2. \A b \in Waiting' : b \in Waiting /\ dialog'[b].secret = dialog[b].secret
  BY <1>1 DEF Waiting
<1>3. StoredOnce'
  BY <1>1, <1>2 DEF CInv, StoredOnce
<1>4. CodesCovered'
  BY <1>2 DEF CInv, CodesCovered
<1> QED
  BY <1>3, <1>4 DEF CInv

\* ... and one login.
LEMMA LoginKeepsCInv ==
  ASSUME IInv, CInv, NEW l \in Logins, NEW r \in LoginType,
         login' = [login EXCEPT ![l] = r],
         UNCHANGED <<secret, last, generated, dialog, codes>>,
         r.pc \in {"validate", "consume"} =>
           \/ secret # NoSecret /\ r.read = secret
           \/ login[l].pc = "validate" /\ r.read = login[l].read,
         r.pc = "consume" => r.secret = r.read
  PROVE  CInv'
<1>1. login'[l] = r /\ \A m \in Logins : m # l => login'[m] = login[m]
  BY DEF IInv, TypeOK
<1>2. Waiting' = Waiting
  BY DEF Waiting
<1>3. secret # NoSecret =>
        /\ secret \in Secrets /\ secret <= generated
        /\ \A b \in Waiting : dialog[b].secret # secret
  BY MaxSecretsNat DEF IInv, TypeOK, SecretsFresh, NoSecret, Secrets
<1>4. r.pc \in {"validate", "consume"} =>
        /\ r.read \in Secrets /\ r.read <= generated
        /\ \A b \in Waiting : dialog[b].secret # r.read
  BY <1>3 DEF CInv, StoredOnce
<1>5. StoredOnce'
  BY <1>1, <1>2, <1>4 DEF CInv, StoredOnce
<1>6. CodesCovered'
  BY <1>2 DEF CInv, CodesCovered
<1> QED
  BY <1>5, <1>6 DEF CInv

\* A code is consumed, by a dialog or by a login, which is done with it.
LEMMA ConsumeKeepsCInv ==
  ASSUME IInv, CInv, NEW s \in Secrets, NEW k \in Counters, Consume(s, k),
         s <= generated, \A b \in Waiting : dialog[b].secret # s,
         UNCHANGED <<secret, generated>>,
         Waiting' = Waiting, \A b \in Waiting : dialog'[b] = dialog[b],
         StoredOnce'
  PROVE  CInv'
<1>1. last < k /\ last' = k /\ last \in Int /\ k \in Int
  BY DEF Consume, Consumable, IInv, TypeOK, Counters
<1>2. \A x \in Secrets \X Counters : x # <<s, k>> => codes'[x] = codes[x]
  BY DEF Consume, IInv, TypeOK
<1>3. ASSUME NEW x \in Secrets \X Counters, codes'[x] # 0
      PROVE  /\ x[1] <= generated
             /\ x[1] = secret => x[2] <= last'
             /\ \A b \in Waiting : dialog[b].secret # x[1]
  <2>1. CASE x = <<s, k>>
    BY <1>1, <2>1
  <2>2. CASE x # <<s, k>>
    <3>1. codes[x] # 0 /\ x[2] \in Int
      BY <1>2, <1>3, <2>2 DEF Counters
    <3> QED
      BY <1>1, <3>1 DEF CInv, CodesCovered
  <2> QED
    BY <2>1, <2>2
<1>4. CodesCovered'
  BY <1>3 DEF CodesCovered
<1> QED
  BY <1>4 DEF CInv

LEMMA FinishEnrollmentKeepsCInv ==
  ASSUME IInv, CInv, NEW a \in Admins, FinishEnrollment(a)
  PROVE  CInv'
<1>1. CASE UNCHANGED <<last, accepted, codes>>
  BY <1>1, RestStates, DialogKeepsCInv DEF FinishEnrollment
<1>2. CASE Consume(dialog[a].secret, dialog[a].counter)
  <2>1. dialog'[a] = NoDialog /\ \A b \in Admins : b # a => dialog'[b] = dialog[b]
    BY DEF IInv, TypeOK, FinishEnrollment
  <2>2. dialog[a].secret \in Secrets /\ dialog[a].counter \in Counters
        /\ dialog[a].secret <= generated
        /\ \A b \in Waiting : dialog[b].secret # dialog[a].secret
    BY DEF IInv, TypeOK, DialogType, CodesOK, CInv, StoredOnce, FinishEnrollment
  <2>3. Waiting' = Waiting /\ a \notin Waiting
    BY <2>1, RestStates DEF Waiting, FinishEnrollment
  <2>4. \A b \in Waiting : dialog'[b] = dialog[b]
    BY <2>1, <2>3 DEF Waiting
  <2>5. StoredOnce'
    BY <2>1, <2>3, <2>4, RestStates DEF CInv, StoredOnce, FinishEnrollment
  <2> QED
    BY <1>2, <2>2, <2>3, <2>4, <2>5, ConsumeKeepsCInv DEF FinishEnrollment
<1> QED
  BY <1>1, <1>2 DEF FinishEnrollment

LEMMA ConsumeTOTPCounterKeepsCInv ==
  ASSUME IInv, CInv, NEW l \in Logins, ConsumeTOTPCounter(l)
  PROVE  CInv'
<1>1. CASE Denied(l) /\ UNCHANGED <<last, accepted, codes>>
  BY <1>1, RestStates, LoginKeepsCInv DEF ConsumeTOTPCounter, Denied
<1>2. CASE /\ Consume(login[l].secret, login[l].counter)
           /\ login' = [login EXCEPT ![l] = [NoLogin EXCEPT !.pc = "in"]]
  <2>1. login'[l].pc = "in" /\ \A m \in Logins : m # l => login'[m] = login[m]
    BY <1>2, RestStates DEF IInv, TypeOK
  <2>2. login[l].secret \in Secrets /\ login[l].counter \in Counters
        /\ login[l].secret <= generated
        /\ \A b \in Waiting : dialog[b].secret # login[l].secret
    BY DEF IInv, TypeOK, LoginType, CodesOK, CInv, StoredOnce, ConsumeTOTPCounter
  <2>3. Waiting' = Waiting
    BY DEF Waiting, ConsumeTOTPCounter
  <2>4. StoredOnce'
    BY <2>1, <2>3 DEF CInv, StoredOnce, ConsumeTOTPCounter
  <2> QED
    BY <1>2, <2>2, <2>3, <2>4, ConsumeKeepsCInv DEF ConsumeTOTPCounter
<1> QED
  BY <1>1, <1>2 DEF ConsumeTOTPCounter

\* A new secret is one that no code comes from.
LEMMA OpenDialogKeepsCInv ==
  ASSUME IInv, CInv, NEW a \in Admins, OpenDialog(a)
  PROVE  CInv'
<1>1. dialog'[a] = [pc |-> "dialog", secret |-> generated + 1, counter |-> 0]
      /\ \A b \in Admins : b # a => dialog'[b] = dialog[b]
  BY DEF IInv, TypeOK, OpenDialog
<1>2. generated \in Int /\ generated' = generated + 1
  BY DEF IInv, TypeOK, OpenDialog
<1>3. \A b \in Waiting' : \/ b \in Waiting /\ dialog'[b].secret = dialog[b].secret
                          \/ dialog'[b].secret = generated + 1
  BY <1>1 DEF Waiting
<1>4. \A s \in Int : s <= generated => s # generated + 1 /\ s <= generated'
  BY <1>2
<1>5. \A b \in Admins : dialog[b].secret \in Int
  BY DEF IInv, TypeOK, DialogType
<1>6. StoredOnce'
  <2>1. ASSUME NEW b \in Admins, dialog'[b].pc = "consume"
        PROVE  /\ dialog'[b].secret <= generated'
               /\ \A e \in Waiting' : dialog'[e].secret # dialog'[b].secret
    <3>1. dialog'[b] = dialog[b] /\ dialog[b].pc = "consume"
      BY <1>1, <2>1
    <3> QED
      BY <1>3, <1>4, <1>5, <3>1 DEF CInv, StoredOnce
  <2>2. \A l \in Logins : login[l].read \in Int
    BY DEF IInv, TypeOK, LoginType
  <2>3. \A l \in Logins : login[l].pc \in {"validate", "consume"} =>
          /\ login[l].read \in Secrets
          /\ login[l].read <= generated'
          /\ \A e \in Waiting' : dialog'[e].secret # login[l].read
    BY <1>3, <1>4, <2>2 DEF CInv, StoredOnce
  <2> QED
    BY <2>1, <2>3 DEF CInv, StoredOnce, OpenDialog
<1>7. CodesCovered'
  <2>1. \A x \in Secrets \X Counters : x[1] \in Int
    BY DEF Secrets
  <2> QED
    BY <1>3, <1>4, <2>1 DEF CInv, CodesCovered, OpenDialog, history
<1> QED
  BY <1>6, <1>7 DEF CInv

\* A secret that is stored leaves the dialog for good.
LEMMA SetUserTOTPKeepsCInv ==
  ASSUME IInv, CInv, NEW a \in Admins, SetUserTOTP(a)
  PROVE  CInv'
<1>1. dialog'[a] = [dialog[a] EXCEPT !.pc = "consume"]
      /\ \A b \in Admins : b # a => dialog'[b] = dialog[b]
  BY DEF IInv, TypeOK, SetUserTOTP
<1>2. dialog'[a].pc = "consume" /\ dialog'[a].secret = dialog[a].secret
  BY <1>1 DEF IInv, TypeOK, DialogType
<1>3. a \in Waiting /\ Waiting' = Waiting \ {a}
      /\ \A b \in Waiting' : dialog'[b] = dialog[b]
  BY <1>1, <1>2 DEF Waiting, SetUserTOTP
<1>4. dialog[a].secret <= generated
      /\ \A b \in Waiting' : dialog[b].secret # dialog[a].secret
  BY <1>3 DEF IInv, SecretsFresh
<1>5. StoredOnce'
  BY <1>1, <1>2, <1>3, <1>4 DEF CInv, StoredOnce, SetUserTOTP
<1>6. CodesCovered'
  BY <1>3 DEF CInv, CodesCovered, SetUserTOTP, history
<1> QED
  BY <1>5, <1>6 DEF CInv

\* The steps of a dialog and a login that consume nothing.
LEMMA MovesKeepCInv ==
  ASSUME IInv, CInv
  PROVE  /\ \A a \in Admins : LoadUsers(a) \/ AbandonDialog(a) => CInv'
         /\ \A a \in Admins, k \in Counters : ConfirmCode(a, k) => CInv'
         /\ \A l \in Logins : FirstFactor(l) \/ Validate(l) \/ Disconnect(l) => CInv'
         /\ \A l \in Logins, s \in Secrets, k \in Counters : UserTOTP(l, s, k) => CInv'
<1>1. ASSUME NEW a \in Admins, LoadUsers(a) PROVE CInv'
  <2> DEFINE d == [dialog[a] EXCEPT !.pc = "listed"]
  <2>1. dialog[a] \in DialogType
    BY DEF IInv, TypeOK
  <2>2. d \in DialogType /\ d.pc = "listed" /\ dialog' = [dialog EXCEPT ![a] = d]
    BY <1>1, <2>1 DEF DialogType, LoadUsers
  <2> HIDE DEF d
  <2> QED
    BY <1>1, <2>2, DialogKeepsCInv DEF LoadUsers, history
<1>2. ASSUME NEW a \in Admins, AbandonDialog(a) PROVE CInv'
  BY <1>2, RestStates, DialogKeepsCInv DEF AbandonDialog, history
<1>3. ASSUME NEW a \in Admins, NEW k \in Counters, ConfirmCode(a, k) PROVE CInv'
  <2> DEFINE d == [dialog[a] EXCEPT !.pc = "set", !.counter = k]
  <2>1. dialog[a] \in DialogType /\ a \in Waiting
    BY <1>3 DEF IInv, TypeOK, ConfirmCode, Waiting
  <2>2. d \in DialogType /\ d.pc = "set" /\ d.secret = dialog[a].secret
    BY <2>1 DEF DialogType
  <2>3. dialog' = [dialog EXCEPT ![a] = d]
    BY <1>3, <2>1 DEF IInv, TypeOK, ConfirmCode
  <2> HIDE DEF d
  <2> QED
    BY <1>3, <2>1, <2>2, <2>3, DialogKeepsCInv DEF ConfirmCode, history
<1>4. ASSUME NEW l \in Logins, Disconnect(l) PROVE CInv'
  BY <1>4, RestStates, LoginKeepsCInv DEF Disconnect, history
<1>5. ASSUME NEW l \in Logins, FirstFactor(l) PROVE CInv'
  <2> DEFINE p == IF secret = NoSecret THEN "in" ELSE "prompt"
             r == [login[l] EXCEPT !.pc = p]
  <2>1. login[l] \in LoginType
    BY DEF IInv, TypeOK
  <2>2. r \in LoginType /\ r.pc \in {"in", "prompt"}
    BY <2>1 DEF LoginType
  <2>3. login' = [login EXCEPT ![l] = r]
    BY <1>5 DEF FirstFactor
  <2> HIDE DEF r
  <2> QED
    BY <1>5, <2>2, <2>3, LoginKeepsCInv DEF FirstFactor, history
<1>6. ASSUME NEW l \in Logins, Validate(l) PROVE CInv'
  <2> DEFINE r == [login[l] EXCEPT !.pc = "consume"]
  <2>1. login[l] \in LoginType /\ login[l].pc = "validate"
    BY <1>6 DEF IInv, TypeOK, Validate
  <2>2. r \in LoginType /\ r.secret = login[l].secret /\ r.read = login[l].read
    BY <2>1 DEF LoginType
  <2>3. CASE Valid(l) /\ login' = [login EXCEPT ![l].pc = "consume"]
    <3>1. login' = [login EXCEPT ![l] = r] /\ r.secret = r.read
      BY <2>2, <2>3 DEF Valid
    <3> HIDE DEF r
    <3> QED
      BY <1>6, <2>1, <2>2, <3>1, LoginKeepsCInv DEF Validate, history
  <2>4. CASE Denied(l)
    BY <1>6, <2>4, RestStates, LoginKeepsCInv DEF Validate, Denied, history
  <2> QED
    BY <1>6, <2>3, <2>4 DEF Validate
<1>7. ASSUME NEW l \in Logins, NEW s \in Secrets, NEW k \in Counters,
             UserTOTP(l, s, k)
      PROVE  CInv'
  <2> DEFINE r == [pc |-> "validate", read |-> secret, secret |-> s, counter |-> k]
  <2>1. r \in LoginType /\ r.pc = "validate" /\ r.read = secret
    BY DEF IInv, TypeOK, LoginType, Secrets
  <2>2. CASE secret # NoSecret /\ login' = [login EXCEPT ![l] = r]
    <3> HIDE DEF r
    <3> QED
      BY <1>7, <2>1, <2>2, LoginKeepsCInv DEF UserTOTP, history
  <2>3. CASE Denied(l)
    BY <1>7, <2>3, RestStates, LoginKeepsCInv DEF UserTOTP, Denied, history
  <2> QED
    BY <1>7, <2>2, <2>3 DEF UserTOTP
<1> QED
  BY <1>1, <1>2, <1>3, <1>4, <1>5, <1>6, <1>7

LEMMA RowGoneKeepsCInv ==
  ASSUME IInv, CInv, RemoveUserTOTP \/ Tick \/ UNCHANGED vars
  PROVE  CInv'
<1>1. Waiting' = Waiting /\ UNCHANGED <<dialog, login, generated, codes>>
  BY DEF Waiting, RemoveUserTOTP, Tick, vars, history
<1>2. StoredOnce'
  BY <1>1 DEF CInv, StoredOnce
<1>3. secret' = 0 \/ UNCHANGED <<secret, last>>
  BY DEF RemoveUserTOTP, Tick, vars, NoSecret
<1>4. \A x \in Secrets \X Counters : x[1] # 0
  BY DEF Secrets
<1>5. CodesCovered'
  BY <1>1, <1>3, <1>4 DEF CInv, CodesCovered
<1> QED
  BY <1>2, <1>5 DEF CInv

LEMMA NextCInv == IInv /\ CInv /\ [Next]_vars => CInv'
<1> SUFFICES ASSUME IInv, CInv, [Next]_vars PROVE CInv'
  OBVIOUS
<1> QED
  BY OpenDialogKeepsCInv, SetUserTOTPKeepsCInv, FinishEnrollmentKeepsCInv,
     ConsumeTOTPCounterKeepsCInv, MovesKeepCInv, RowGoneKeepsCInv DEF Next

LEMMA InitCInv == Init => CInv
<1> SUFFICES ASSUME Init PROVE CInv
  OBVIOUS
<1>1. \A a \in Admins : dialog[a].pc = "idle"
  BY RestStates DEF Init
<1>2. \A l \in Logins : login[l].pc = "idle"
  BY RestStates DEF Init
<1> QED
  BY <1>1, <1>2 DEF Init, CInv, StoredOnce, CodesCovered

THEOREM TotpCodesInvariant == Spec => [](IInv /\ CInv)
BY InitIInv, NextIInv, InitCInv, NextCInv, PTL DEF Spec

\* Only a consumption changes how often a code was accepted, and it is covered
\* by nobody's own row before.
LEMMA AcceptingStep ==
  ASSUME IInv, CInv, [Next]_vars,
         NEW x \in Secrets \X Counters, codes'[x] # codes[x]
  PROVE  /\ Consume(x[1], x[2])
         /\ codes'[x] = codes[x] + 1
         /\ \/ \E a \in Admins : dialog[a].pc = "consume" /\ dialog[a].secret = x[1]
            \/ \E l \in Logins : login[l].pc = "consume" /\ login[l].read = x[1]
<1>1. ASSUME NEW s, NEW k, Consume(s, k)
      PROVE  s = x[1] /\ k = x[2] /\ codes'[x] = codes[x] + 1
  <2>1. x = <<s, k>>
    BY <1>1 DEF Consume, IInv, TypeOK
  <2> QED
    BY <1>1, <2>1 DEF Consume, IInv, TypeOK
<1>2. CASE \E a \in Admins : FinishEnrollment(a)
  BY <1>1, <1>2 DEF FinishEnrollment
<1>3. CASE \E l \in Logins : ConsumeTOTPCounter(l)
  <2>1. PICK l \in Logins : ConsumeTOTPCounter(l)
    BY <1>3
  <2>2. Consume(login[l].secret, login[l].counter) /\ login[l].pc = "consume"
    BY <2>1 DEF ConsumeTOTPCounter
  <2>3. login[l].secret = login[l].read
    BY <2>2 DEF CInv, StoredOnce
  <2> QED
    BY <1>1, <2>2, <2>3
<1>4. CASE UNCHANGED codes
  BY <1>4
<1>5. \/ \E a \in Admins : FinishEnrollment(a)
      \/ \E l \in Logins : ConsumeTOTPCounter(l)
      \/ UNCHANGED codes
  BY DEF Next, vars, history, LoadUsers, OpenDialog, ConfirmCode, SetUserTOTP,
     AbandonDialog, FirstFactor, UserTOTP, Validate, Disconnect, RemoveUserTOTP, Tick
<1> QED
  BY <1>2, <1>3, <1>4, <1>5

\* A code that was accepted is not accepted again from its own row.
LEMMA OwnRowRefuses ==
  ASSUME IInv, CInv, NEW x \in Secrets \X Counters, Consume(x[1], x[2]),
         secret = x[1]
  PROVE  codes[x] = 0
<1>1. last < x[2] /\ last \in Int /\ x[2] \in Int
  BY DEF Consume, Consumable, IInv, TypeOK, Counters
<1>2. codes[x] # 0 => x[2] <= last
  BY DEF CInv, CodesCovered
<1> QED
  BY <1>1, <1>2

\* A code is accepted again only when the row of its secret is gone, for any
\* number of logins and enrolments.
THEOREM TotpReuseNeedsNewRow == Spec => ReuseNeedsNewRow
<1>1. IInv /\ CInv /\ [Next]_vars =>
        [\A x \in Secrets \X Counters :
           codes[x] > 0 /\ codes'[x] > codes[x] => secret # x[1]]_vars
  <2> SUFFICES ASSUME IInv, CInv, [Next]_vars, NEW x \in Secrets \X Counters,
                      codes[x] > 0, codes'[x] > codes[x], secret = x[1]
               PROVE  FALSE
    OBVIOUS
  <2>1. codes[x] \in Nat /\ codes'[x] # codes[x]
    BY NextIInv DEF IInv, TypeOK
  <2>2. Consume(x[1], x[2])
    BY <2>1, AcceptingStep
  <2>3. codes[x] = 0
    BY <2>2, OwnRowRefuses
  <2> QED
    BY <2>1, <2>3
<1> QED
  BY <1>1, TotpCodesInvariant, PTL DEF Spec, ReuseNeedsNewRow

-----------------------------------------------------------------------------
(* What the run totp_reuse violates, under the condition that excludes it. *)

\* No login is between its read of the row and its update of last_counter,
\* and no enrolment between storing its row and consuming its code.
NobodyBetween ==
  /\ \A l \in Logins : login[l].pc \notin {"validate", "consume"}
  /\ \A a \in Admins : dialog[a].pc # "consume"

\* The row is replaced or removed only then.
NothingOvertaken == [][secret' # secret => NobodyBetween]_vars

\* Whoever is between the two has the row that is stored.
ReadsCurrent ==
  /\ \A l \in Logins : login[l].pc \in {"validate", "consume"} => login[l].read = secret
  /\ \A a \in Admins : dialog[a].pc = "consume" => dialog[a].secret = secret

LEMMA ReadsCurrentStep ==
  ASSUME IInv, CInv, ReadsCurrent, [Next]_vars,
         [secret' # secret => NobodyBetween]_vars
  PROVE  ReadsCurrent'
<1>1. CASE secret' # secret
  <2>1. NobodyBetween /\ ~UNCHANGED vars
    BY <1>1 DEF vars
  <2>2. RemoveUserTOTP \/ \E a \in Admins : SetUserTOTP(a)
    BY <1>1, <2>1 DEF Next, LoadUsers, OpenDialog, ConfirmCode, FinishEnrollment,
       AbandonDialog, FirstFactor, UserTOTP, Validate, ConsumeTOTPCounter,
       Disconnect, Tick
  <2>3. CASE RemoveUserTOTP
    BY <2>1, <2>3 DEF RemoveUserTOTP, NobodyBetween, ReadsCurrent
  <2>4. CASE \E a \in Admins : SetUserTOTP(a)
    <3>1. PICK a \in Admins : SetUserTOTP(a)
      BY <2>4
    <3>2. dialog'[a].secret = dialog[a].secret
          /\ \A b \in Admins : b # a => dialog'[b] = dialog[b]
      BY <3>1 DEF SetUserTOTP, IInv, TypeOK, DialogType
    <3> QED
      BY <2>1, <3>1, <3>2 DEF SetUserTOTP, NobodyBetween, ReadsCurrent
  <2> QED
    BY <2>2, <2>3, <2>4
<1>2. CASE secret' = secret
  <2>1. ASSUME NEW l \in Logins, login'[l].pc \in {"validate", "consume"}
        PROVE  login'[l].read = secret
    <3>1. \/ UNCHANGED login
          \/ \E m \in Logins : \/ FirstFactor(m) \/ Validate(m)
                               \/ ConsumeTOTPCounter(m) \/ Disconnect(m)
                               \/ \E s \in Secrets, k \in Counters : UserTOTP(m, s, k)
      BY DEF Next, vars, LoadUsers, OpenDialog, ConfirmCode, SetUserTOTP,
         FinishEnrollment, AbandonDialog, Tick, RemoveUserTOTP
    <3>2. CASE UNCHANGED login
      BY <2>1, <3>2 DEF ReadsCurrent
    <3>3. ASSUME NEW m \in Logins, FirstFactor(m) \/ ConsumeTOTPCounter(m) \/ Disconnect(m)
          PROVE  m # l /\ login'[l] = login[l]
      BY <2>1, <3>3, RestStates
         DEF FirstFactor, ConsumeTOTPCounter, Denied, Disconnect, IInv, TypeOK, LoginType
    <3>4. ASSUME NEW m \in Logins, Validate(m)
          PROVE  login[l].pc \in {"validate", "consume"} /\ login'[l].read = login[l].read
      <4>1. CASE m # l
        BY <2>1, <3>4, <4>1 DEF Validate, Denied, IInv, TypeOK
      <4>2. CASE m = l /\ login' = [login EXCEPT ![l].pc = "consume"]
        BY <3>4, <4>2 DEF Validate, IInv, TypeOK, LoginType
      <4>3. CASE m = l /\ Denied(l)
        BY <2>1, <4>3, RestStates DEF Denied, IInv, TypeOK
      <4> QED
        BY <3>4, <4>1, <4>2, <4>3 DEF Validate
    <3>5. ASSUME NEW m \in Logins, NEW s \in Secrets, NEW k \in Counters, UserTOTP(m, s, k)
          PROVE  login'[l].read = secret \/ login'[l] = login[l]
      BY <2>1, <3>5, RestStates DEF UserTOTP, Denied, IInv, TypeOK, LoginType
    <3> QED
      BY <2>1, <3>1, <3>2, <3>3, <3>4, <3>5 DEF ReadsCurrent
  <2>2. ASSUME NEW a \in Admins, dialog'[a].pc = "consume"
        PROVE  dialog'[a].secret = secret
    <3>1. \/ UNCHANGED dialog
          \/ \E b \in Admins : \/ LoadUsers(b) \/ OpenDialog(b) \/ SetUserTOTP(b)
                               \/ FinishEnrollment(b) \/ AbandonDialog(b)
                               \/ \E k \in Counters : ConfirmCode(b, k)
      BY DEF Next, vars, FirstFactor, UserTOTP, Validate, ConsumeTOTPCounter,
         Disconnect, Tick, RemoveUserTOTP
    <3>2. CASE UNCHANGED dialog
      BY <2>2, <3>2 DEF ReadsCurrent
    <3>3. ASSUME NEW b \in Admins,
                 \/ LoadUsers(b) \/ OpenDialog(b) \/ FinishEnrollment(b) \/ AbandonDialog(b)
                 \/ \E k \in Counters : ConfirmCode(b, k)
          PROVE  dialog'[a] = dialog[a]
      BY <2>2, <3>3, RestStates
         DEF LoadUsers, OpenDialog, FinishEnrollment, AbandonDialog, ConfirmCode,
             IInv, TypeOK, DialogType
    <3>4. ASSUME NEW b \in Admins, SetUserTOTP(b)
          PROVE  dialog'[a].secret = secret' \/ dialog'[a] = dialog[a]
      BY <2>2, <3>4 DEF SetUserTOTP, IInv, TypeOK, DialogType
    <3> QED
      BY <1>2, <2>2, <3>1, <3>2, <3>3, <3>4 DEF ReadsCurrent
  <2> QED
    BY <1>2, <2>1, <2>2 DEF ReadsCurrent
<1> QED
  BY <1>1, <1>2

\* A code is accepted once, ever, as long as no enrolment or removal overtakes
\* a login or an enrolment between its two statements: authenticateTOTP has no
\* other way to accept a code twice.
THEOREM TotpCodeOnceUnlessOvertaken == Spec /\ NothingOvertaken => []CodeOnce
<1> DEFINE J == IInv /\ CInv /\ ReadsCurrent /\ CodeOnce
<1>1. Init => J
  <2>1. SUFFICES ASSUME Init PROVE ReadsCurrent /\ CodeOnce
    BY InitIInv, InitCInv
  <2>2. \A a \in Admins : dialog[a].pc = "idle"
    BY <2>1, RestStates DEF Init
  <2>3. \A l \in Logins : login[l].pc = "idle"
    BY <2>1, RestStates DEF Init
  <2> QED
    BY <2>1, <2>2, <2>3 DEF Init, ReadsCurrent, CodeOnce
<1>2. J /\ [Next]_vars /\ [secret' # secret => NobodyBetween]_vars => J'
  <2>1. SUFFICES ASSUME J, [Next]_vars, [secret' # secret => NobodyBetween]_vars
                 PROVE  CodeOnce'
    BY NextIInv, NextCInv, ReadsCurrentStep
  <2>2. SUFFICES ASSUME NEW x \in Secrets \X Counters
                 PROVE  codes'[x] <= 1
    BY DEF CodeOnce
  <2>3. CASE codes'[x] = codes[x]
    BY <2>1, <2>3 DEF CodeOnce
  <2>4. CASE codes'[x] # codes[x]
    <3>1. /\ Consume(x[1], x[2])
          /\ codes'[x] = codes[x] + 1
          /\ \/ \E a \in Admins : dialog[a].pc = "consume" /\ dialog[a].secret = x[1]
             \/ \E l \in Logins : login[l].pc = "consume" /\ login[l].read = x[1]
      BY <2>1, <2>4, AcceptingStep
    <3>2. secret = x[1]
      BY <2>1, <3>1 DEF ReadsCurrent
    <3>3. codes[x] = 0
      BY <2>1, <3>1, <3>2, OwnRowRefuses
    <3> QED
      BY <3>1, <3>3
  <2> QED
    BY <2>3, <2>4
<1>3. J => CodeOnce
  OBVIOUS
<1> HIDE DEF J
<1> QED
  BY <1>1, <1>2, <1>3, PTL DEF Spec, NothingOvertaken
=============================================================================
