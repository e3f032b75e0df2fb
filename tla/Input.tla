-------------------------------- MODULE Input --------------------------------
(***************************************************************************)
(* The keystrokes of one interactive session.  A pump goroutine is the     *)
(* only reader of the SSH channel (newInteractiveSession).  What it reads  *)
(* is consumed through ReadContext, in turns, by the reader goroutine of   *)
(* the menu (RunRemote) and the input worker of a shell (ProxyShell).      *)
(*                                                                         *)
(* Keys are numbered in the order they were typed; a chunk is the set of   *)
(* keys one Read returned.  All buffers hold 4096 bytes, so ReadContext    *)
(* hands a chunk out in one piece.  ReadContext has no lock: its check of  *)
(* the context, its look at the pending bytes and its select are steps.    *)
(***************************************************************************)
EXTENDS Naturals, Sequences

CONSTANTS
  MaxKeys,    \* bound: keys the client types
  MaxShells   \* bound: shells opened from the menu

ASSUME BoundsNat == MaxKeys \in Nat /\ MaxShells \in Nat

Keys      == 1 .. MaxKeys
Consumers == {"menu", "shell"}

VARIABLES
  typed,    \* keys that have arrived at the gateway so far
  eof,      \* the client has closed its input
  gone,     \* the session context is cancelled: the connection is lost
  pump,     \* the pump goroutine, with the chunk it is about to send
  fetched,  \* number of keys the pump has read
  reads,    \* interactiveSession.reads, a channel with room for one
  pending,  \* interactiveSession.pending
  err,      \* interactiveSession.err is set
  pc,       \* where each consumer is in ReadContext, "off" outside
  got,      \* the chunk ReadContext returned to each consumer
  handler,  \* the goroutine of Server.handle
  remote,   \* the remote shell: "open" or "exited"
  shells,   \* number of shells opened so far
  handed,   \* history: keys handed to a consumer
  mark      \* history: keys typed when the input of the shell was cancelled

client  == <<typed, eof, gone>>
session == <<pending, err>>
vars == <<typed, eof, gone, pump, fetched, reads, pending, err, pc, got,
          handler, remote, shells, handed, mark>>

Init ==
  /\ typed = 0 /\ eof = FALSE /\ gone = FALSE
  /\ pump = [pc |-> "read", data |-> {}, err |-> FALSE]
  /\ fetched = 0
  /\ reads = <<>>
  /\ pending = {} /\ err = FALSE
  /\ pc = [x \in Consumers |-> IF x = "menu" THEN "check" ELSE "off"]
  /\ got = [x \in Consumers |-> {}]
  /\ handler = "menu" /\ remote = "exited" /\ shells = 0
  /\ handed = {} /\ mark = 0

-----------------------------------------------------------------------------
(* The client.                                                             *)

Type == /\ ~eof /\ ~gone /\ typed < MaxKeys
        /\ typed' = typed + 1
        /\ UNCHANGED <<eof, gone, pump, fetched, reads, session, pc, got,
                       handler, remote, shells, handed, mark>>

CloseInput == /\ ~eof /\ ~gone
              /\ eof' = TRUE
              /\ UNCHANGED <<typed, gone, pump, fetched, reads, session, pc, got,
                             handler, remote, shells, handed, mark>>

Disconnect == /\ ~gone
              /\ gone' = TRUE
              /\ UNCHANGED <<typed, eof, pump, fetched, reads, session, pc, got,
                             handler, remote, shells, handed, mark>>

-----------------------------------------------------------------------------
(* The pump.                                                               *)

\* sess.Read: some of what has arrived, or the end of the input.
PumpRead ==
  /\ pump.pc = "read"
  /\ \/ \E m \in fetched + 1 .. typed :
          /\ pump' = [pc |-> "send", data |-> fetched + 1 .. m, err |-> FALSE]
          /\ fetched' = m
     \/ /\ fetched = typed /\ (eof \/ gone \/ handler = "ended")
        /\ pump' = [pc |-> "send", data |-> {}, err |-> TRUE]
        /\ UNCHANGED fetched
  /\ UNCHANGED <<client, reads, session, pc, got, handler, remote, shells,
                 handed, mark>>

\* Mutant: the channel has room for two.
RoomForTwo == Len(reads) < 2
\* make(chan inputResult, 1)
Room == Len(reads) < 1

\* Mutant: the send does not watch the session context.
PumpSendBlocks ==
  /\ pump.pc = "send"
  /\ Room
  /\ reads' = Append(reads, [data |-> pump.data, err |-> pump.err])
  /\ pump' = [pc |-> IF pump.err THEN "stopped" ELSE "read", data |-> {},
              err |-> FALSE]
  /\ UNCHANGED <<client, fetched, session, pc, got, handler, remote, shells,
                 handed, mark>>
\* The send waits for room or for the session context; an error or a
\* cancelled context ends the pump, which closes the channel.
PumpSend ==
  /\ pump.pc = "send"
  /\ \/ /\ Room
        /\ reads' = Append(reads, [data |-> pump.data, err |-> pump.err])
        /\ pump' = [pc |-> IF pump.err THEN "stopped" ELSE "read",
                    data |-> {}, err |-> FALSE]
     \/ /\ gone
        /\ pump' = [pc |-> "stopped", data |-> {}, err |-> FALSE]
        /\ UNCHANGED reads
  /\ UNCHANGED <<client, fetched, session, pc, got, handler, remote, shells,
                 handed, mark>>

-----------------------------------------------------------------------------
(* ReadContext, called by consumer x.                                      *)

\* The menu reads with the session context, the shell with inputCtx.
Cancelled(x) == gone \/ (x = "shell" /\ handler # "shell")

Go(x, where) == pc' = [pc EXCEPT ![x] = where]

CheckContext(x) ==
  /\ pc[x] = "check"
  /\ Go(x, IF Cancelled(x) THEN "failed" ELSE "look")
  /\ UNCHANGED <<client, pump, fetched, reads, session, got, handler, remote,
                 shells, handed, mark>>

\* Mutant: the bytes handed out stay pending.
RestAgain == pending
\* s.pending[n:] for a buffer that holds the chunk.
Rest == {}

\* Bytes left over come first, then a stored error.
Look(x) ==
  /\ pc[x] = "look"
  /\ \/ /\ pending # {}
        /\ Go(x, "got")
        /\ got' = [got EXCEPT ![x] = pending]
        /\ handed' = handed \cup pending
        /\ pending' = Rest
     \/ /\ pending = {}
        /\ Go(x, IF err THEN "failed" ELSE "select")
        /\ UNCHANGED <<got, handed, pending>>
  /\ UNCHANGED <<client, pump, fetched, reads, err, handler, remote, shells, mark>>

\* Mutant: what was received is returned without another look at the context.
NextLook == "look"
\* The loop starts over with the check of the context.
AfterReceive == "check"

\* The select: cancelled, a chunk, or the closed channel; when several are
\* ready the choice is random.
Select(x) ==
  /\ pc[x] = "select"
  /\ \/ /\ Cancelled(x) \/ (reads = <<>> /\ pump.pc = "stopped")
        /\ Go(x, "failed")
        /\ UNCHANGED <<reads, session>>
     \/ /\ reads # <<>>
        /\ pending' = Head(reads).data /\ err' = Head(reads).err
        /\ reads' = Tail(reads)
        /\ Go(x, AfterReceive)
  /\ UNCHANGED <<client, pump, fetched, got, handler, remote, shells, handed, mark>>

-----------------------------------------------------------------------------
(* RunRemote: its reader reads once per request.                           *)

\* The keys are handled and another read is requested.
MenuKeys ==
  /\ handler = "menu" /\ pc["menu"] = "got"
  /\ Go("menu", "check")
  /\ got' = [got EXCEPT !["menu"] = {}]
  /\ UNCHANGED <<client, pump, fetched, reads, session, handler, remote, shells,
                 handed, mark>>

\* A key started a command, which runs inside the loop of RunRemote: nothing
\* ends ScanHostKey but the host it asks.  (With a cancelled context it fails
\* at once, as a key that only changes the menu.)
MenuScan ==
  /\ handler = "menu" /\ pc["menu"] = "got" /\ got["menu"] # {} /\ ~gone
  /\ handler' = "scan"
  /\ UNCHANGED <<client, pump, fetched, reads, session, pc, got, remote, shells,
                 handed, mark>>

\* The rest of the chunk is handled.
ScanEnds ==
  /\ handler = "scan"
  /\ handler' = "menu"
  /\ UNCHANGED <<client, pump, fetched, reads, session, pc, got, remote, shells,
                 handed, mark>>

\* A key chose a target: the rest of the chunk is dropped, no read is
\* requested, and Connect dials.  (A check that fails, as all of them do with
\* a cancelled context, leads to a new menu: MenuKeys.)
MenuConnect ==
  /\ handler = "menu" /\ pc["menu"] = "got" /\ got["menu"] # {} /\ ~gone
  /\ shells < MaxShells
  /\ shells' = shells + 1
  /\ got' = [got EXCEPT !["menu"] = {}]
  /\ handler' = "dial"
  /\ Go("menu", "off")
  /\ UNCHANGED <<client, pump, fetched, reads, session, remote, handed, mark>>

\* A key quit the menu, the input failed or ended, or the context is
\* cancelled, perhaps while the reader is still in ReadContext.
MenuEnds ==
  /\ handler = "menu"
  /\ gone \/ pc["menu"] \in {"got", "failed"}
  /\ handler' = "ended"
  /\ pc' = [pc EXCEPT !["menu"] = IF @ \in {"got", "failed"} THEN "off" ELSE @]
  /\ got' = [got EXCEPT !["menu"] = {}]
  /\ UNCHANGED <<client, pump, fetched, reads, session, remote, shells, handed, mark>>

\* The reader of a menu that has ended leaves.
ReaderLeaves ==
  /\ handler = "ended" /\ pc["menu"] \in {"got", "failed"}
  /\ Go("menu", "off")
  /\ got' = [got EXCEPT !["menu"] = {}]
  /\ UNCHANGED <<client, pump, fetched, reads, session, handler, remote, shells,
                 handed, mark>>

-----------------------------------------------------------------------------
(* Dial and ProxyShell.                                                    *)

\* The handshake with the target knows neither the context nor a timeout.
\* Authenticated, ProxyShell starts its worker; otherwise the menu returns.
DialReturns ==
  /\ handler = "dial"
  /\ \/ /\ handler' = "shell" /\ remote' = "open"
        /\ Go("shell", "check")
     \/ /\ handler' = "menu"
        /\ Go("menu", "check")
        /\ UNCHANGED remote
  /\ UNCHANGED <<client, pump, fetched, reads, session, got, shells, handed, mark>>

\* Mutant: the session is not closed before the join.
WorkerWriteBlocks ==
  /\ pc["shell"] = "got" /\ handler = "shell"
  /\ Go("shell", "check")
  /\ got' = [got EXCEPT !["shell"] = {}]
  /\ UNCHANGED <<client, pump, fetched, reads, session, handler, remote, shells,
                 handed, mark>>
\* The worker writes to the shell; the write may block as long as the remote
\* shell does not read, but fails once the session is closed.
WorkerWrite ==
  /\ pc["shell"] = "got"
  /\ \/ /\ handler = "shell"
        /\ Go("shell", "check")
     \/ /\ remote = "exited"
        /\ Go("shell", "off")
  /\ got' = [got EXCEPT !["shell"] = {}]
  /\ UNCHANGED <<client, pump, fetched, reads, session, handler, remote, shells,
                 handed, mark>>

WorkerEnds ==
  /\ pc["shell"] = "failed"
  /\ Go("shell", "off")
  /\ UNCHANGED <<client, pump, fetched, reads, session, got, handler, remote,
                 shells, handed, mark>>

\* The remote shell exits or cannot be started, keepAlive closes a stalled
\* connection, or the cancelled context closes the session.
RemoteExit ==
  /\ handler = "shell" /\ remote = "open"
  /\ remote' = "exited"
  /\ UNCHANGED <<client, pump, fetched, reads, session, pc, got, handler, shells,
                 handed, mark>>

\* sess.Wait returns; the deferred calls cancel the input and close the
\* session, and then wait for the worker.
ShellEnds ==
  /\ handler = "shell" /\ remote = "exited"
  /\ handler' = "joining"
  /\ mark' = typed
  /\ UNCHANGED <<client, pump, fetched, reads, session, pc, got, remote, shells,
                 handed>>

\* Mutant: the shell returns without waiting for its worker.
WorkerIgnored == TRUE
\* <-inputDone
WorkerDone == pc["shell"] = "off"

\* The worker is done: back to a new RunRemote, which requests a read.
BackToMenu ==
  /\ handler = "joining"
  /\ WorkerDone
  /\ handler' = "menu"
  /\ Go("menu", "check")
  /\ UNCHANGED <<client, pump, fetched, reads, session, got, remote, shells,
                 handed, mark>>

-----------------------------------------------------------------------------
ReadContext(x) == CheckContext(x) \/ Look(x) \/ Select(x)

Next == \/ Type \/ CloseInput \/ Disconnect
        \/ PumpRead \/ PumpSend
        \/ \E x \in Consumers : ReadContext(x)
        \/ MenuKeys \/ MenuScan \/ ScanEnds \/ MenuConnect \/ MenuEnds
        \/ ReaderLeaves \/ DialReturns
        \/ WorkerWrite \/ WorkerEnds \/ RemoteExit \/ ShellEnds \/ BackToMenu

\* Runnable goroutines are scheduled; a cancelled context closes the remote
\* session.  Nothing obliges the client to type, a remote shell to read its
\* input or to exit, or a target to answer the handshake of a dial or a scan.
Fairness ==
  /\ WF_vars(PumpRead) /\ WF_vars(PumpSend)
  /\ \A x \in Consumers : WF_vars(ReadContext(x))
  /\ WF_vars(MenuKeys \/ MenuEnds) /\ WF_vars(ReaderLeaves)
  /\ WF_vars(remote = "exited" /\ WorkerWrite) /\ WF_vars(WorkerEnds)
  /\ WF_vars(gone /\ RemoteExit) /\ WF_vars(ShellEnds) /\ WF_vars(BackToMenu)

Spec == Init /\ [][Next]_vars /\ Fairness

-----------------------------------------------------------------------------
ChunkType == [data : SUBSET Keys, err : BOOLEAN]

\* The type invariant.
TypeOK ==
  /\ typed \in 0 .. MaxKeys /\ eof \in BOOLEAN /\ gone \in BOOLEAN
  /\ pump \in [pc : {"read", "send", "stopped"}, data : SUBSET Keys, err : BOOLEAN]
  /\ fetched \in 0 .. typed
  /\ reads \in {<<>>} \cup {<<c>> : c \in ChunkType}
  /\ pending \in SUBSET Keys /\ err \in BOOLEAN
  /\ pc \in [Consumers -> {"off", "check", "look", "select", "got", "failed"}]
  /\ got \in [Consumers -> SUBSET Keys]
  /\ handler \in {"menu", "scan", "dial", "shell", "joining", "ended"}
  /\ remote \in {"open", "exited"} /\ shells \in 0 .. MaxShells
  /\ handed \in SUBSET Keys /\ mark \in 0 .. MaxKeys

\* ReadContext has one consumer at a time: the menu and a shell are never in
\* it together, so its unprotected fields are never touched concurrently and
\* neither takes keys from the other.
OneConsumer == pc["menu"] = "off" \/ pc["shell"] = "off"

\* What the pump took from the channel reaches the consumers once and in the
\* order it was typed, whoever reads and whoever was cancelled in between.
Before(S, T) == \A k \in S, l \in T : k < l
Buffered == IF reads = <<>> THEN {} ELSE Head(reads).data
KeysInOrder ==
  /\ Before(handed, pending) /\ Before(handed, Buffered)
  /\ Before(handed, pump.data) /\ Before(pending, Buffered)
  /\ Before(pending, pump.data) /\ Before(Buffered, pump.data)
  /\ ~gone => handed \cup pending \cup Buffered \cup pump.data = 1 .. fetched

\* To the menu and the shells the session is a keyboard: whatever is cancelled,
\* joined or cut off, the next keys go to one of them, once.
Queue == INSTANCE Keyboard WITH taken <- handed, hand <- got
KeysInSequence == Queue!Spec

\* Cancelling the input of a shell does not steal menu keys: a key typed
\* after the cancellation is never taken by the worker that is being joined.
LateKeysAreKept ==
  handler = "joining" => \A k \in got["shell"] : k <= mark

\* A shell that has ended gives the session back: the join never hangs, on a
\* worker that waits for a key or on one whose write nobody reads.
MenuComesBack == handler = "joining" ~> handler = "menu"

\* No goroutine outlives the connection: the pump ends, whatever the handler
\* is doing, and so do the handler and both consumers, unless the handler waits
\* for the handshake of a target (Dial, downstream.go:121) or of a host whose key
\* is scanned (downstream.go:75), which a lost connection does not end.  In
\* particular no handler starts one after the connection is lost.
NothingLeaks ==
  /\ gone ~> pump.pc = "stopped"
  /\ (gone /\ handler \notin {"dial", "scan"}) ~>
       handler = "ended" /\ \A x \in Consumers : pc[x] = "off"
=============================================================================
