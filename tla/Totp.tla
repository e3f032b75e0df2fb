-------------------------------- MODULE Totp --------------------------------
(***************************************************************************)
(* The second factor of one gateway user: the row of user_totp, the        *)
(* enrolment dialog of the administration menu, and the TOTP challenge of  *)
(* a login.  Rows of different users never meet, so one user is enough.    *)
(*                                                                         *)
(* A code is abstracted to what it was computed from, a secret and a       *)
(* 30-second counter; two codes are equal only if both are.  Every SQL     *)
(* statement, and every look at the clock, is a step of its own: neither   *)
(* the challenge nor the enrolment runs in a transaction.                  *)
(***************************************************************************)
EXTENDS Integers

CONSTANTS
  Logins,      \* concurrent login attempts of the user
  Admins,      \* administrators who may enrol the user
  MaxTime,     \* bound: last clock value, in periods of 30 seconds
  MaxSecrets   \* bound: secrets generated

ASSUME MaxTimeNat    == MaxTime \in Nat \ {0}
ASSUME MaxSecretsNat == MaxSecrets \in Nat

Secrets  == 1 .. MaxSecrets
Counters == 0 .. MaxTime + 1
NoSecret == 0

VARIABLES
  clock,      \* time.Now().Unix() / Period
  secret,     \* user_totp.secret_ciphertext, NoSecret when there is no row
  last,       \* user_totp.last_counter
  generated,  \* number of secrets generated so far
  dialog,     \* the enrolment dialog of every administrator
  login,      \* the authentication of every login
  accepted,   \* history: how often a counter was consumed, by enrolment
  codes       \* history: how often a code was accepted, by its own secret

history == <<accepted, codes>>
vars == <<clock, secret, last, generated, dialog, login, accepted, codes>>

NoDialog == [pc |-> "idle", secret |-> NoSecret, counter |-> 0]
NoLogin  == [pc |-> "idle", read |-> NoSecret, secret |-> NoSecret, counter |-> 0]

Init ==
  /\ clock = 1
  /\ secret = NoSecret
  /\ last = -1
  /\ generated = 0
  /\ dialog = [a \in Admins |-> NoDialog]
  /\ login = [l \in Logins |-> NoLogin]
  /\ accepted = [x \in Secrets \X Counters |-> 0]
  /\ codes = [x \in Secrets \X Counters |-> 0]

-----------------------------------------------------------------------------
(* Shared by challenge and enrolment.                                      *)

\* Mutant: counters ahead of the window are accepted too.
InWindowAnyFuture(k) == k >= clock - 1
\* totp.Validate accepts the counter of now and the two next to it.
InWindow(k) == k \in clock - 1 .. clock + 1

\* Mutant: a counter equal to the last one passes.
ConsumableAgain(k) == secret # NoSecret /\ last <= k
\* ConsumeTOTPCounter: UPDATE ... SET last_counter=? WHERE ... last_counter<?
Consumable(k) == secret # NoSecret /\ last < k

\* A code of secret s and counter k is consumed.
Consume(s, k) ==
  /\ Consumable(k)
  /\ last' = k
  /\ accepted' = [accepted EXCEPT ![<<secret, k>>] = @ + 1]
  /\ codes' = [codes EXCEPT ![<<s, k>>] = @ + 1]

-----------------------------------------------------------------------------
(* Enrolment: user_totp_setup, then finishTOTPEnrollment.                  *)

\* The menu loads its list of users; it offers the setup if the list shows no
\* TOTP row for the user.
LoadUsers(a) ==
  /\ dialog[a].pc = "idle"
  /\ secret = NoSecret
  /\ dialog' = [dialog EXCEPT ![a].pc = "listed"]
  /\ UNCHANGED <<clock, secret, last, generated, login, history>>

\* user_totp_setup generates a secret.  It relies on the list, which may be
\* out of date by now.
OpenDialog(a) ==
  /\ dialog[a].pc = "listed"
  /\ generated < MaxSecrets
  /\ generated' = generated + 1
  /\ dialog' = [dialog EXCEPT ![a] = [pc |-> "dialog", secret |-> generated + 1,
                                      counter |-> 0]]
  /\ UNCHANGED <<clock, secret, last, login, history>>

\* A valid code was entered; an invalid one leaves the dialog open.
ConfirmCode(a, k) ==
  /\ dialog[a].pc = "dialog"
  /\ InWindow(k)
  /\ dialog' = [dialog EXCEPT ![a].pc = "set", ![a].counter = k]
  /\ UNCHANGED <<clock, secret, last, generated, login, history>>

\* Mutant: the new row starts one past the counter that confirmed it.
SetUserTOTPAhead(a) ==
  /\ dialog[a].pc = "set"
  /\ secret' = dialog[a].secret
  /\ last' = dialog[a].counter + 1
  /\ dialog' = [dialog EXCEPT ![a].pc = "consume"]
  /\ UNCHANGED <<clock, generated, login, history>>
\* The upsert of SetUserTOTP; last_counter starts again at -1.
SetUserTOTP(a) ==
  /\ dialog[a].pc = "set"
  /\ secret' = dialog[a].secret
  /\ last' = -1
  /\ dialog' = [dialog EXCEPT ![a].pc = "consume"]
  /\ UNCHANGED <<clock, generated, login, history>>

\* The code that confirmed the enrolment is consumed, if it still can be;
\* either way the dialog closes.
FinishEnrollment(a) ==
  /\ dialog[a].pc = "consume"
  /\ dialog' = [dialog EXCEPT ![a] = NoDialog]
  /\ \/ Consume(dialog[a].secret, dialog[a].counter)
     \/ ~Consumable(dialog[a].counter) /\ UNCHANGED <<last, accepted, codes>>
  /\ UNCHANGED <<clock, secret, generated, login>>

\* The dialog is left, or the session dies between two statements.
AbandonDialog(a) ==
  /\ dialog[a].pc # "idle"
  /\ dialog' = [dialog EXCEPT ![a] = NoDialog]
  /\ UNCHANGED <<clock, secret, last, generated, login, history>>

\* RemoveUserTOTP by an administrator or on the command line.
RemoveUserTOTP ==
  /\ secret # NoSecret
  /\ secret' = NoSecret
  /\ last' = -1
  /\ UNCHANGED <<clock, generated, dialog, login, history>>

-----------------------------------------------------------------------------
(* Login: the challenge of authenticateTOTP.                               *)

\* AuthenticateKey, or AuthenticateOIDC, reads whether a code is required.
FirstFactor(l) ==
  /\ login[l].pc = "idle"
  /\ login' = [login EXCEPT ![l].pc = IF secret = NoSecret THEN "in" ELSE "prompt"]
  /\ UNCHANGED <<clock, secret, last, generated, dialog, history>>

Denied(l) == login' = [login EXCEPT ![l] = [NoLogin EXCEPT !.pc = "prompt"]]

\* The client answers with the code of secret s at counter k, and UserTOTP
\* reads the row; a row that is gone denies the attempt.
UserTOTP(l, s, k) ==
  /\ login[l].pc = "prompt"
  /\ s <= generated
  /\ \/ /\ secret # NoSecret
        /\ login' = [login EXCEPT ![l] = [pc |-> "validate", read |-> secret,
                                          secret |-> s, counter |-> k]]
     \/ /\ secret = NoSecret
        /\ Denied(l)
  /\ UNCHANGED <<clock, secret, last, generated, dialog, history>>

\* totp.Validate with the secret that was read.
Valid(l) == login[l].secret = login[l].read /\ InWindow(login[l].counter)

Validate(l) ==
  /\ login[l].pc = "validate"
  /\ \/ /\ Valid(l)
        /\ login' = [login EXCEPT ![l].pc = "consume"]
     \/ /\ ~Valid(l)
        /\ Denied(l)
  /\ UNCHANGED <<clock, secret, last, generated, dialog, history>>

ConsumeTOTPCounter(l) ==
  /\ login[l].pc = "consume"
  /\ \/ /\ Consume(login[l].secret, login[l].counter)
        /\ login' = [login EXCEPT ![l] = [NoLogin EXCEPT !.pc = "in"]]
     \/ /\ ~Consumable(login[l].counter)
        /\ Denied(l)
        /\ UNCHANGED <<last, accepted, codes>>
  /\ UNCHANGED <<clock, secret, generated, dialog>>

\* The connection ends, at any point.
Disconnect(l) ==
  /\ login[l].pc # "idle"
  /\ login' = [login EXCEPT ![l] = NoLogin]
  /\ UNCHANGED <<clock, secret, last, generated, dialog, history>>

Tick ==
  /\ clock < MaxTime
  /\ clock' = clock + 1
  /\ UNCHANGED <<secret, last, generated, dialog, login, history>>

Next ==
  \/ \E a \in Admins : \/ LoadUsers(a) \/ OpenDialog(a)
                       \/ \E k \in Counters : ConfirmCode(a, k)
                       \/ SetUserTOTP(a) \/ FinishEnrollment(a)
                       \/ AbandonDialog(a)
  \/ \E l \in Logins : \/ FirstFactor(l)
                       \/ \E s \in Secrets, k \in Counters : UserTOTP(l, s, k)
                       \/ Validate(l) \/ ConsumeTOTPCounter(l)
                       \/ Disconnect(l)
  \/ RemoveUserTOTP
  \/ Tick

Spec == Init /\ [][Next]_vars

-----------------------------------------------------------------------------
DialogType == [pc : {"idle", "listed", "dialog", "set", "consume"},
               secret : 0 .. MaxSecrets, counter : Counters]
LoginType  == [pc : {"idle", "prompt", "validate", "consume", "in"},
               read : 0 .. MaxSecrets, secret : 0 .. MaxSecrets,
               counter : Counters]

\* The type invariant.
TypeOK ==
  /\ clock \in 1 .. MaxTime
  /\ secret \in 0 .. MaxSecrets
  /\ last \in -1 .. MaxTime + 1
  /\ generated \in 0 .. MaxSecrets
  /\ dialog \in [Admins -> DialogType]
  /\ login \in [Logins -> LoginType]
  /\ accepted \in [Secrets \X Counters -> Nat]
  /\ codes \in [Secrets \X Counters -> Nat]

\* A counter is consumed at most once per enrolment, by logins and by the
\* confirmation of the enrolment together, however their statements
\* interleave: the comparison with last_counter and its update are one.
CounterOncePerEnrolment == \A x \in Secrets \X Counters : accepted[x] <= 1

\* What is stored as consumed is at most one period ahead of the clock, so
\* that a code computed two periods from now is always good: neither an
\* enrolment nor a login can lock the user out for longer.
NotLockedOut == secret # NoSecret => last <= clock + 1

\* A code is accepted once.
CodeOnce == \A x \in Secrets \X Counters : codes[x] <= 1

\* Where it is accepted again, the row it was checked against is gone: a code
\* is never accepted a second time while its own secret is still stored.
ReuseNeedsNewRow ==
  [][\A x \in Secrets \X Counters :
       codes[x] > 0 /\ codes'[x] > codes[x] => secret # x[1]]_vars
=============================================================================
