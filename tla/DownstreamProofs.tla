--------------------------- MODULE DownstreamProofs ---------------------------
(***************************************************************************)
(* The safety of Downstream, for every reply timeout and every number of   *)
(* silences of the target.  That its connections end is liveness and is    *)
(* checked by TLC.                                                         *)
(***************************************************************************)
EXTENDS Downstream, TLAPS

\* keepAlive starts with the end of the handshake.
NotYet ==
  /\ phase \in {"dial", "handshake"} => ka = "off"
  /\ ka = "off" => sender = "none"

IInv == TypeOK /\ NoRequestAbandoned /\ NotYet

LEMMA InitInv == Init => IInv
<1>1. Init => TypeOK
  <2>1. 0 \in 0..ReplyTimeout /\ 0 \in 0..MaxSilences
    BY DownstreamAssumption
  <2> QED BY <2>1 DEF Init, TypeOK, Phases
<1>2. Init => NoRequestAbandoned /\ NotYet
  BY DEF Init, NoRequestAbandoned, NotYet
<1> QED BY <1>1, <1>2 DEF IInv

LEMMA HandlerStep ==
  ASSUME IInv, Handler
  PROVE  IInv'
<1> USE DEF IInv, TypeOK, NoRequestAbandoned, NotYet, Broken, Env, KeepAlive, Proxying, Phases
<1>1. CASE DialTCP
  BY <1>1 DEF DialTCP
<1>2. CASE Handshake
  BY <1>2 DEF Handshake
<1>3. CASE HandshakeFails
  BY <1>3 DEF HandshakeFails
<1>4. CASE OpenChannel
  BY <1>4 DEF OpenChannel
<1>5. CASE OpenFails
  BY <1>5 DEF OpenFails
<1>6. CASE WaitReturns \/ ContextDone \/ CopiesDone
  BY <1>6 DEF WaitReturns, ContextDone, CopiesDone
<1>7. CASE Return
  BY <1>7 DEF Return
<1> QED BY <1>1, <1>2, <1>3, <1>4, <1>5, <1>6, <1>7 DEF Handler

LEMMA KeepAliveStep ==
  ASSUME IInv, KeepAliveLoop \/ Reply \/ Tick
  PROVE  IInv'
<1> USE DEF IInv, TypeOK, NoRequestAbandoned, NotYet, Broken, Env, KeepAlive, Proxying, Phases
<1>1. CASE KeepAliveDone
  BY <1>1 DEF KeepAliveDone
<1>2. CASE Ask
  BY <1>2, DownstreamAssumption DEF Ask
<1>3. CASE TakeReply
  BY <1>3 DEF TakeReply
<1>4. CASE TimerFires
  BY <1>4 DEF TimerFires
<1>5. CASE Reply
  BY <1>5 DEF Reply
<1>6. CASE Tick
  <2>1. age + 1 \in 0..ReplyTimeout
    BY <1>6, DownstreamAssumption DEF Tick
  <2> QED BY <1>6, <2>1 DEF Tick
<1> QED BY <1>1, <1>2, <1>3, <1>4, <1>5, <1>6 DEF KeepAliveLoop

\* The copies, the watcher and what the client and the target do.
LEMMA OthersStep ==
  ASSUME IInv, \/ Watch \/ UpEnds \/ DownEnds
               \/ ClientGone \/ FallSilent \/ AnswerAgain \/ TargetGone \/ RemoteEnds
  PROVE  IInv'
<1> USE DEF IInv, TypeOK, NoRequestAbandoned, NotYet, Broken, Env, KeepAlive, Proxying, Phases
<1>1. CASE Watch
  <2>1. closing' \in BOOLEAN /\ watcher' = "done"
    BY <1>1 DEF Watch
  <2> QED BY <1>1, <2>1 DEF Watch
<1>2. CASE UpEnds \/ DownEnds
  BY <1>2 DEF UpEnds, DownEnds
<1>3. CASE ClientGone \/ AnswerAgain \/ TargetGone
  BY <1>3 DEF ClientGone, AnswerAgain, TargetGone
<1>4. CASE FallSilent
  <2>1. silences + 1 \in 0..MaxSilences
    BY <1>4, DownstreamAssumption DEF FallSilent
  <2> QED BY <1>4, <2>1 DEF FallSilent
<1>5. CASE RemoteEnds
  BY <1>5 DEF RemoteEnds
<1> QED BY <1>1, <1>2, <1>3, <1>4, <1>5

LEMMA Invariance == Spec => []IInv
<1>1. Init => IInv
  BY InitInv
<1>2. IInv /\ [Next]_vars => IInv'
  <2>1. ASSUME IInv, Next PROVE IInv'
    BY <2>1, HandlerStep, KeepAliveStep, OthersStep DEF Next
  <2>2. ASSUME IInv, UNCHANGED vars PROVE IInv'
    BY <2>2 DEF vars, IInv, TypeOK, NoRequestAbandoned, NotYet, Broken
  <2> QED BY <2>1, <2>2
<1> QED BY <1>1, <1>2, PTL DEF Spec

\* Dial, the proxies and keepAlive: every part of the connection keeps its
\* type; the age of a request never passes the timeout.
THEOREM DownstreamTypeCorrect == Spec => []TypeOK
<1>1. IInv => TypeOK
  BY DEF IInv
<1> QED BY <1>1, Invariance, PTL

\* keepAlive: a request that is not waited for any more is on a connection that
\* is closed or lost, and no two requests are out together.
THEOREM DownstreamNoRequestAbandoned == Spec => []NoRequestAbandoned
<1>1. IInv => NoRequestAbandoned
  BY DEF IInv
<1> QED BY <1>1, Invariance, PTL
=============================================================================
