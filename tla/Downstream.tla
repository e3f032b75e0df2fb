------------------------------ MODULE Downstream ------------------------------
(***************************************************************************)
(* One downstream connection from Dial to the end of its handler: the TCP  *)
(* connection, the SSH handshake, the session or forward that is proxied,  *)
(* and the goroutines around it (keepAlive and its request, the watcher of *)
(* the session's context, the two copies of sftp and of a forward).        *)
(*                                                                         *)
(* The client may go away and the target may fall silent, answer again or  *)
(* close the connection at any time.  Time passes only where the code has  *)
(* a timer: the age of the keepalive request.                              *)
(***************************************************************************)
EXTENDS Naturals

CONSTANTS
  ReplyTimeout,  \* 10 seconds, in ticks
  MaxSilences    \* bound on how often the target falls silent

ASSUME DownstreamAssumption ==
  ReplyTimeout \in Nat /\ ReplyTimeout >= 1 /\ MaxSilences \in Nat

VARIABLES
  kind,     \* what is proxied
  client,   \* the inbound client: its context is done once it is "gone"
  target,   \* "answering", "silent" or "gone"
  silences, \* how often the target fell silent
  conn,     \* the TCP connection to the target
  phase,    \* where the handler is
  ka,       \* keepAlive: "off", "wait" (ticker), "asked", "done"
  sender,   \* the goroutine of a keepalive request: "none", "sending",
            \* "ok" or "failed" once its reply is in the channel
  age,      \* ticks since the request was sent
  watcher,  \* ProxyShell's goroutine that waits for ctx.Done
  closing,  \* the downstream session was closed by us
  up, down  \* the copies: "none", "run", "done"

vars == <<kind, client, target, silences, conn, phase, ka, sender, age,
          watcher, closing, up, down>>

Kinds  == {"shell", "scp", "sftp", "forward"}
Phases == {"dial", "handshake", "open", "proxy", "return", "ended"}

TypeOK ==
  /\ kind \in Kinds
  /\ client \in {"live", "gone"}
  /\ target \in {"answering", "silent", "gone"}
  /\ silences \in 0..MaxSilences
  /\ conn \in {"none", "open", "closed"}
  /\ phase \in Phases
  /\ ka \in {"off", "wait", "asked", "done"}
  /\ sender \in {"none", "sending", "ok", "failed"}
  /\ age \in 0..ReplyTimeout
  /\ watcher \in {"none", "run", "done"}
  /\ closing \in BOOLEAN
  /\ up \in {"none", "run", "done"} /\ down \in {"none", "run", "done"}

Init ==
  /\ kind \in Kinds
  /\ client = "live" /\ target = "answering" /\ silences = 0
  /\ conn = "none" /\ phase = "dial"
  /\ ka = "off" /\ sender = "none" /\ age = 0
  /\ watcher = "none" /\ closing = FALSE
  /\ up = "none" /\ down = "none"

Env == <<kind, client, target, silences>>
KeepAlive == <<ka, sender, age>>
Proxying == <<watcher, closing, up, down>>

\* Nothing more can be read from or written to the target.
Broken == conn = "closed" \/ target = "gone"

-----------------------------------------------------------------------------
(* The handler: Dial, then the proxy of its kind, then the deferred Close. *)

\* DialContext returns within its timeout, connected or not, and at once when
\* the context is done.
DialTCP ==
  /\ phase = "dial"
  /\ \/ target # "gone" /\ client = "live" /\ conn' = "open" /\ phase' = "handshake"
     \/ phase' = "ended" /\ UNCHANGED conn
  /\ UNCHANGED <<Env, KeepAlive, Proxying>>

\* NewClientConn: version, key exchange, host key, authentication.  It knows
\* neither the timeout of the configuration nor the context.
Handshake ==
  /\ phase = "handshake"
  /\ target = "answering"
  /\ phase' = "open"
  /\ ka' = "wait"
  /\ UNCHANGED <<Env, conn, sender, age, Proxying>>

HandshakeFailsIfRefused ==
  /\ phase = "handshake"
  /\ target = "answering"
  /\ conn' = "closed"
  /\ phase' = "ended"
  /\ UNCHANGED <<Env, KeepAlive, Proxying>>

\* Wrong host key, authentication refused, connection lost: raw.Close.
HandshakeFails ==
  /\ phase = "handshake"
  /\ target # "silent"
  /\ conn' = "closed"
  /\ phase' = "ended"
  /\ UNCHANGED <<Env, KeepAlive, Proxying>>

\* NewSession, RequestPty and Shell, Start, OpenChannel and the subsystem
\* request, or client.Dial: each waits for an answer of the target.  The input
\* is copied from then on; the menu's shell has a worker that is cancelled and
\* joined instead, the subject of Input.
OpenChannel ==
  /\ phase = "open"
  /\ target = "answering" /\ conn = "open"
  /\ phase' = "proxy"
  /\ watcher' = IF kind = "shell" THEN "run" ELSE "none"
  /\ up' = "run"
  /\ down' = IF kind \in {"sftp", "forward"} THEN "run" ELSE "none"
  /\ UNCHANGED <<Env, conn, KeepAlive, closing>>

OpenFails ==
  /\ phase = "open"
  /\ Broken \/ target = "answering"
  /\ phase' = "return"
  /\ UNCHANGED <<Env, conn, KeepAlive, Proxying>>

WatchesOnlyDone ==
  /\ watcher = "run"
  /\ phase # "proxy"
  /\ watcher' = "done"
  /\ UNCHANGED <<Env, conn, phase, KeepAlive, closing, up, down>>

\* The goroutine of ProxyShell that closes the session for the client.
Watch ==
  /\ watcher = "run"
  /\ \/ phase # "proxy" /\ UNCHANGED closing
     \/ phase = "proxy" /\ client = "gone" /\ closing' = TRUE
  /\ watcher' = "done"
  /\ UNCHANGED <<Env, conn, phase, KeepAlive, up, down>>

\* sess.Wait of a shell or scp returns: the target ended the session, or it
\* confirmed our close, or the connection is gone.
WaitReturns ==
  /\ phase = "proxy" /\ kind \in {"shell", "scp"}
  /\ Broken \/ (closing /\ target = "answering")
  /\ phase' = "return"
  /\ UNCHANGED <<Env, conn, KeepAlive, Proxying>>

\* scp and sftp select on the context themselves.
ContextDone ==
  /\ phase = "proxy" /\ kind \in {"scp", "sftp"}
  /\ client = "gone"
  /\ phase' = "return"
  /\ UNCHANGED <<Env, conn, KeepAlive, Proxying>>

\* io.Copy towards the target ends when the client is gone; when the
\* connection is gone it ends only with the next byte or the end of the input,
\* which the client's end of the session brings.
UpEnds ==
  /\ up = "run"
  /\ client = "gone" \/ phase = "ended"
  /\ up' = "done"
  /\ UNCHANGED <<Env, conn, phase, KeepAlive, watcher, closing, down>>

DownEnds ==
  /\ down = "run"
  /\ Broken
  /\ down' = "done"
  /\ UNCHANGED <<Env, conn, phase, KeepAlive, watcher, closing, up>>

\* sftp returns with the copy from the target, a forward with both.
CopiesDone ==
  /\ phase = "proxy"
  /\ \/ kind = "sftp" /\ down = "done"
     \/ kind = "forward" /\ up = "done" /\ down = "done"
  /\ phase' = "return"
  /\ UNCHANGED <<Env, conn, KeepAlive, Proxying>>

ReturnsWithoutClose ==
  /\ phase = "return"
  /\ phase' = "ended"
  /\ UNCHANGED <<Env, conn, KeepAlive, Proxying>>

\* defer client.Close()
Return ==
  /\ phase = "return"
  /\ conn' = "closed"
  /\ phase' = "ended"
  /\ UNCHANGED <<Env, KeepAlive, Proxying>>

-----------------------------------------------------------------------------
(* keepAlive.                                                              *)

\* client.Wait returned.
KeepAliveDone ==
  /\ ka \in {"wait", "asked"}
  /\ Broken
  /\ ka' = "done"
  /\ UNCHANGED <<Env, conn, phase, sender, age, Proxying>>

Ask ==
  /\ ka = "wait"
  /\ ka' = "asked" /\ sender' = "sending" /\ age' = 0
  /\ UNCHANGED <<Env, conn, phase, Proxying>>

\* Any reply counts.  The channel has room for it, so that the goroutine ends
\* whoever is still listening.
Reply ==
  /\ sender = "sending"
  /\ \/ target = "answering" /\ conn = "open" /\ sender' = "ok"
     \/ Broken /\ sender' = "failed"
  /\ UNCHANGED <<Env, conn, phase, ka, age, Proxying>>

TakeReply ==
  /\ ka = "asked" /\ sender \in {"ok", "failed"}
  /\ \/ sender = "ok" /\ ka' = "wait" /\ UNCHANGED conn
     \/ sender = "failed" /\ ka' = "done" /\ conn' = "closed"
  /\ sender' = "none"
  /\ UNCHANGED <<Env, phase, age, Proxying>>

TickOnceMore ==
  /\ ka = "asked" /\ age <= ReplyTimeout
  /\ age' = age + 1
  /\ UNCHANGED <<Env, conn, phase, ka, sender, Proxying>>

Tick ==
  /\ ka = "asked" /\ age < ReplyTimeout
  /\ age' = age + 1
  /\ UNCHANGED <<Env, conn, phase, ka, sender, Proxying>>

TimerOnlyReturns ==
  /\ ka = "asked" /\ age = ReplyTimeout
  /\ ka' = "done"
  /\ UNCHANGED <<Env, conn, phase, sender, age, Proxying>>

\* The select may take the timer although a reply has just arrived.
TimerFires ==
  /\ ka = "asked" /\ age = ReplyTimeout
  /\ ka' = "done"
  /\ conn' = "closed"
  /\ UNCHANGED <<Env, phase, sender, age, Proxying>>

-----------------------------------------------------------------------------
(* Client and target.                                                      *)

ClientGone ==
  /\ client = "live"
  /\ client' = "gone"
  /\ UNCHANGED <<kind, target, silences, conn, phase, KeepAlive, Proxying>>

FallSilent ==
  /\ target = "answering" /\ silences < MaxSilences
  /\ target' = "silent" /\ silences' = silences + 1
  /\ UNCHANGED <<kind, client, conn, phase, KeepAlive, Proxying>>

AnswerAgain ==
  /\ target = "silent"
  /\ target' = "answering"
  /\ UNCHANGED <<kind, client, silences, conn, phase, KeepAlive, Proxying>>

\* The target closes the connection, or the network reports it lost.
TargetGone ==
  /\ target # "gone" /\ conn = "open"
  /\ target' = "gone"
  /\ UNCHANGED <<kind, client, silences, conn, phase, KeepAlive, Proxying>>

\* The remote command exits, or the remote end of a forward closes.
RemoteEnds ==
  /\ phase = "proxy" /\ target = "answering" /\ conn = "open"
  /\ \/ kind \in {"shell", "scp"} /\ phase' = "return" /\ UNCHANGED down
     \/ down = "run" /\ down' = "done" /\ UNCHANGED phase
  /\ UNCHANGED <<Env, conn, KeepAlive, watcher, closing, up>>

-----------------------------------------------------------------------------
Handler ==
  \/ DialTCP \/ Handshake \/ HandshakeFails \/ OpenChannel \/ OpenFails
  \/ WaitReturns \/ ContextDone \/ CopiesDone \/ Return

KeepAliveLoop == KeepAliveDone \/ Ask \/ TakeReply \/ TimerFires

Next ==
  \/ Handler \/ Watch \/ UpEnds \/ DownEnds
  \/ KeepAliveLoop \/ Reply \/ Tick
  \/ ClientGone \/ FallSilent \/ AnswerAgain \/ TargetGone \/ RemoteEnds

\* Goroutines that can run do, and time passes.  Nothing is assumed of the
\* client, and of the target only that it answers while it is answering.
Fairness ==
  /\ WF_vars(Handler)
  /\ WF_vars(Watch)
  /\ WF_vars(UpEnds)
  /\ WF_vars(DownEnds)
  /\ WF_vars(KeepAliveLoop)
  /\ WF_vars(Reply)
  /\ WF_vars(Tick)

Spec == Init /\ [][Next]_vars /\ Fairness

-----------------------------------------------------------------------------
\* keepAlive never leaves a request behind that nothing can end: a request it
\* no longer waits for, because it timed out or the connection went, is on a
\* connection that is closed or lost, and the next one is sent only when the
\* goroutine of the last has ended.
NoRequestAbandoned ==
  /\ sender = "sending" => ka = "asked" \/ Broken
  /\ ka = "wait" => sender = "none"

\* "A reply taking longer than 10 seconds closes the stalled connection and
\* returns control to the gateway": a target that stays silent once the
\* handshake is over ends the handler of a shell or a transfer.
StalledEnds ==
  phase \in {"open", "proxy"} /\ kind # "forward" /\ target = "silent"
    ~> phase = "ended" \/ target # "silent"

\* Past the handshake, a client that goes away ends its shell or transfer,
\* whether the target answers, confirms the close, is silent or is gone.
DisconnectEnds ==
  client = "gone" /\ phase \in {"open", "proxy"} /\ kind # "forward"
    ~> phase = "ended"

\* A forward is over once the client is gone and the target too, or silent for
\* good: neither copy outlives both ends.
ForwardEnds ==
  client = "gone" /\ phase = "proxy" /\ kind = "forward" /\ target # "answering"
    ~> phase = "ended" \/ target = "answering"

\* When the handler has returned, the socket is closed and every goroutine of
\* the connection ends: keepAlive, a request that is still out, the watcher
\* and the copies.
NothingLeft ==
  phase = "ended" ~>
    /\ conn # "open"
    /\ ka \in {"off", "done"} /\ sender # "sending"
    /\ watcher # "run" /\ up # "run" /\ down # "run"

\* Dial returns, whatever becomes of the client, unless the target has fallen
\* silent: a silent target holds the handshake, and with it the handler, its
\* slot and the socket, for as long as it stays silent.
DialEnds ==
  phase \in {"dial", "handshake"} /\ target # "silent"
    ~> phase \notin {"dial", "handshake"} \/ target = "silent"
=============================================================================
