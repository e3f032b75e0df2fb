---------------------------- MODULE InputProofs ----------------------------
(***************************************************************************)
(* Safety proofs for Input, for any number of keys and shells.             *)
(*                                                                         *)
(* OneConsumer follows from whose turn it is.  That keys stay in order     *)
(* needs that nobody waits in the select with bytes pending; that late     *)
(* keys are kept needs that a worker between the check of its context and  *)
(* its look at the pending bytes sees only bytes older than the            *)
(* cancellation.                                                           *)
(***************************************************************************)
EXTENDS Input, SequenceTheorems, TLAPS

\* The handler decides who may be in ReadContext.
Turns ==
  /\ handler \in {"menu", "scan", "dial", "ended"} => pc["shell"] = "off"
  /\ handler \in {"dial", "shell", "joining"} => pc["menu"] = "off"
  /\ handler = "joining" => remote = "exited"

\* No bytes are pending for a consumer that waits in the select, and the pump
\* holds a chunk only while it sends.
Empty ==
  /\ \A x \in Consumers : pc[x] = "select" => pending = {}
  /\ pump.pc # "send" => pump.data = {}

\* Whatever is on its way was typed.
Arrived ==
  /\ handed \cup pending \cup Buffered \cup pump.data \subseteq 1 .. fetched
  /\ got["shell"] \subseteq 1 .. fetched

\* What a worker that is being joined may still take is old.
OldOnly ==
  handler = "joining" =>
    /\ \A k \in got["shell"] : k <= mark
    /\ pc["shell"] = "look" => \A k \in pending : k <= mark

IInv == /\ TypeOK /\ Turns /\ Empty /\ Arrived /\ OldOnly /\ KeysInOrder

LEMMA InitIInv == Init => IInv
<1> SUFFICES ASSUME Init PROVE IInv
  OBVIOUS
<1>1. TypeOK
  <2>1. /\ pc \in [Consumers -> {"off", "check", "look", "select", "got", "failed"}]
        /\ got \in [Consumers -> SUBSET Keys]
    BY DEF Init
  <2>2. pump \in [pc : {"read", "send", "stopped"}, data : SUBSET Keys, err : BOOLEAN]
    BY DEF Init
  <2>3. typed \in 0 .. MaxKeys /\ fetched \in 0 .. typed /\ mark \in 0 .. MaxKeys
        /\ shells \in 0 .. MaxShells
    BY BoundsNat DEF Init
  <2>4. reads \in {<<>>} \cup {<<c>> : c \in ChunkType}
    BY DEF Init
  <2>5. /\ eof \in BOOLEAN /\ gone \in BOOLEAN /\ err \in BOOLEAN
        /\ pending \in SUBSET Keys /\ handed \in SUBSET Keys
        /\ handler \in {"menu", "scan", "dial", "shell", "joining", "ended"}
        /\ remote \in {"open", "exited"}
    BY DEF Init
  <2> QED
    BY <2>1, <2>2, <2>3, <2>4, <2>5 DEF TypeOK
<1>2. Turns /\ Empty /\ Arrived /\ OldOnly
  BY DEF Init, Turns, Empty, Arrived, OldOnly, Consumers, Buffered
<1>3. KeysInOrder
  BY DEF Init, KeysInOrder, Before, Buffered
<1> QED
  BY <1>1, <1>2, <1>3 DEF IInv

\* What the channel holds.
LEMMA ReadsShape ==
  ASSUME TypeOK
  PROVE  \/ reads = <<>> /\ Buffered = {} /\ Room
         \/ /\ reads # <<>> /\ ~Room /\ Tail(reads) = <<>>
            /\ Head(reads) \in ChunkType /\ Buffered = Head(reads).data
<1>1. CASE reads = <<>>
  BY <1>1 DEF Buffered, Room
<1>2. CASE \E c \in ChunkType : reads = <<c>>
  <2>1. PICK c \in ChunkType : reads = <<c>>
    BY <1>2
  <2>2. Len(reads) = 1 /\ Head(reads) = c /\ Tail(reads) = <<>> /\ reads # <<>>
    BY <2>1
  <2> QED
    BY <2>2 DEF Buffered, Room
<1> QED
  BY <1>1, <1>2 DEF TypeOK

-----------------------------------------------------------------------------
(* Steps that move no key between the channel and the consumers.           *)

DataSame == /\ UNCHANGED <<pump, fetched, reads, pending, handed>>
            /\ gone => gone'

LEMMA DataKept ==
  ASSUME IInv, DataSame
  PROVE  /\ KeysInOrder'
         /\ (handed \cup pending \cup Buffered \cup pump.data \subseteq 1 .. fetched)'
         /\ (pump.pc # "send" => pump.data = {})'
<1>1. Buffered' = Buffered
  BY DEF DataSame, Buffered
<1> QED
  BY <1>1 DEF IInv, DataSame, KeysInOrder, Arrived, Empty, Before

\* Client steps: nothing but typed, eof and gone.
LEMMA ClientKeeps ==
  ASSUME IInv, Type \/ CloseInput \/ Disconnect
  PROVE  IInv'
<1>1. /\ DataSame /\ err' = err /\ pc' = pc /\ got' = got /\ handler' = handler
      /\ remote' = remote /\ shells' = shells /\ mark' = mark
  BY DEF Type, CloseInput, Disconnect, DataSame, session
<1>2. typed' \in typed .. MaxKeys /\ eof' \in BOOLEAN /\ gone' \in BOOLEAN
  <2>1. typed \in 0 .. MaxKeys /\ eof \in BOOLEAN /\ gone \in BOOLEAN
    BY DEF IInv, TypeOK
  <2>2. typed' \in typed .. MaxKeys
    BY <2>1, BoundsNat DEF Type, CloseInput, Disconnect
  <2>3. eof' \in BOOLEAN /\ gone' \in BOOLEAN
    BY <2>1, Zenon DEF Type, CloseInput, Disconnect
  <2> QED
    BY <2>2, <2>3
<1>3. TypeOK'
  <2>1. typed' \in 0 .. MaxKeys /\ fetched' \in 0 .. typed'
    BY <1>1, <1>2, BoundsNat DEF IInv, TypeOK, DataSame
  <2> QED
    BY <1>1, <1>2, <2>1 DEF IInv, TypeOK, DataSame
<1>4. Turns' /\ Empty' /\ Arrived' /\ OldOnly'
  BY <1>1, DataKept DEF IInv, Turns, Empty, Arrived, OldOnly, DataSame
<1> QED
  BY <1>1, <1>3, <1>4, DataKept DEF IInv

LEMMA CheckContextKeeps ==
  ASSUME IInv, NEW x \in Consumers, CheckContext(x)
  PROVE  IInv'
<1>1. /\ DataSame /\ err' = err /\ got' = got /\ handler' = handler
      /\ remote' = remote /\ shells' = shells /\ mark' = mark
      /\ UNCHANGED client
  BY DEF CheckContext, DataSame, session, client
<1>2. /\ pc[x] = "check"
      /\ pc' = [pc EXCEPT ![x] = IF Cancelled(x) THEN "failed" ELSE "look"]
  BY DEF CheckContext, Go
<1>3. TypeOK'
  BY <1>1, <1>2 DEF IInv, TypeOK, DataSame, client
<1>4. Turns' /\ Empty' /\ Arrived'
  BY <1>1, <1>2, DataKept
     DEF IInv, TypeOK, Turns, Empty, Arrived, Consumers, DataSame
<1>5. OldOnly'
  BY <1>1, <1>2 DEF IInv, TypeOK, OldOnly, Cancelled, Consumers, DataSame
<1> QED
  BY <1>1, <1>3, <1>4, <1>5, DataKept DEF IInv

\* Steps of the menu, of the worker and of the handler that move no key.
LEMMA MenuKeeps ==
  ASSUME IInv, MenuKeys \/ MenuConnect \/ MenuEnds \/ ReaderLeaves
  PROVE  IInv'
<1>1. /\ DataSame /\ err' = err /\ mark' = mark /\ UNCHANGED client
  BY DEF MenuKeys, MenuConnect, MenuEnds, ReaderLeaves, DataSame, session, client
<1>2. got' = [got EXCEPT !["menu"] = {}]
  BY DEF MenuKeys, MenuConnect, MenuEnds, ReaderLeaves
<1>3. /\ handler \in {"menu", "ended"} /\ handler' \in {"menu", "ended", "dial"}
      /\ remote' \in {"open", "exited"} /\ shells' \in 0 .. MaxShells
  BY BoundsNat DEF IInv, TypeOK, MenuKeys, MenuConnect, MenuEnds, ReaderLeaves
<1>4. /\ pc' \in [Consumers -> {"off", "check", "look", "select", "got", "failed"}]
      /\ pc'["menu"] = "select" => pc["menu"] = "select"
      /\ pc'["shell"] = pc["shell"] /\ pc["shell"] = "off"
      /\ handler' = "dial" => pc'["menu"] = "off"
  BY DEF IInv, TypeOK, Turns, Consumers, Go, MenuKeys, MenuConnect, MenuEnds,
     ReaderLeaves
<1>5. TypeOK'
  BY <1>1, <1>2, <1>3, <1>4 DEF IInv, TypeOK, DataSame, client
<1>6. Turns' /\ OldOnly'
  BY <1>3, <1>4 DEF IInv, Turns, OldOnly
<1>7. Empty' /\ Arrived'
  BY <1>1, <1>2, <1>4, DataKept
     DEF IInv, TypeOK, Empty, Arrived, Consumers, DataSame
<1> QED
  BY <1>1, <1>5, <1>6, <1>7, DataKept DEF IInv

\* The waits for a target: a scan keeps the turn of the menu, a dial is
\* nobody's turn.
LEMMA HandshakeKeeps ==
  ASSUME IInv, MenuScan \/ ScanEnds \/ DialReturns
  PROVE  IInv'
<1>1. /\ DataSame /\ err' = err /\ mark' = mark /\ shells' = shells /\ got' = got
      /\ UNCHANGED client
  BY DEF MenuScan, ScanEnds, DialReturns, DataSame, session, client
<1>2. /\ handler \in {"menu", "scan", "dial"} /\ pc["shell"] = "off"
      /\ handler' \in {"menu", "scan", "shell"} /\ remote' \in {"open", "exited"}
  BY DEF IInv, TypeOK, Turns, MenuScan, ScanEnds, DialReturns
<1>3. /\ pc' \in [Consumers -> {"off", "check", "look", "select", "got", "failed"}]
      /\ \A x \in Consumers : pc'[x] = "select" => pc[x] = "select"
      /\ handler' # "shell" => pc'["shell"] = "off"
      /\ handler' = "shell" => pc'["menu"] = "off"
  BY <1>2 DEF IInv, TypeOK, Turns, Consumers, Go, MenuScan, ScanEnds, DialReturns
<1>4. TypeOK'
  BY <1>1, <1>2, <1>3 DEF IInv, TypeOK, DataSame, client
<1>5. Turns' /\ OldOnly'
  BY <1>2, <1>3 DEF Turns, OldOnly
<1>6. Empty' /\ Arrived'
  BY <1>1, <1>3, DataKept DEF IInv, Empty, Arrived, DataSame
<1> QED
  BY <1>1, <1>4, <1>5, <1>6, DataKept DEF IInv

LEMMA ShellKeeps ==
  ASSUME IInv, WorkerWrite \/ WorkerEnds \/ RemoteExit \/ ShellEnds \/ BackToMenu
  PROVE  IInv'
<1>1. /\ DataSame /\ err' = err /\ shells' = shells /\ UNCHANGED client
  BY DEF WorkerWrite, WorkerEnds, RemoteExit, ShellEnds, BackToMenu, DataSame,
     session, client
<1>2. got' = got \/ got' = [got EXCEPT !["shell"] = {}]
  BY DEF WorkerWrite, WorkerEnds, RemoteExit, ShellEnds, BackToMenu
<1>3. /\ handler' \in {"menu", "scan", "dial", "shell", "joining", "ended"}
      /\ remote' \in {"open", "exited"} /\ mark' \in 0 .. MaxKeys
  BY BoundsNat DEF IInv, TypeOK, WorkerWrite, WorkerEnds, RemoteExit, ShellEnds,
     BackToMenu
<1>4. /\ pc' \in [Consumers -> {"off", "check", "look", "select", "got", "failed"}]
      /\ \A x \in Consumers : pc'[x] \in {"select", "look"} => pc'[x] = pc[x]
  BY DEF IInv, TypeOK, Consumers, Go, WorkerWrite, WorkerEnds, RemoteExit,
     ShellEnds, BackToMenu
<1>5. TypeOK'
  BY <1>1, <1>2, <1>3, <1>4 DEF IInv, TypeOK, DataSame, client
<1>6. Turns'
  BY DEF IInv, TypeOK, Turns, Consumers, Go, WorkerWrite, WorkerEnds, RemoteExit,
     ShellEnds, BackToMenu, WorkerDone
<1>7. Empty' /\ Arrived'
  BY <1>1, <1>2, <1>4, DataKept
     DEF IInv, TypeOK, Empty, Arrived, Consumers, DataSame
<1>8. OldOnly'
  <2>1. CASE handler = "joining" /\ mark' = mark
    BY <1>1, <1>2, <1>4, <2>1 DEF IInv, TypeOK, OldOnly, Consumers, DataSame
  <2>2. CASE ShellEnds
    BY <2>2 DEF IInv, TypeOK, OldOnly, Arrived, ShellEnds, session
  <2>3. CASE handler # "joining" /\ ~ShellEnds
    BY <2>3 DEF OldOnly, WorkerWrite, WorkerEnds, RemoteExit, BackToMenu
  <2> QED
    BY <2>1, <2>2, <2>3 DEF WorkerWrite, WorkerEnds, RemoteExit, ShellEnds,
       BackToMenu
<1> QED
  BY <1>1, <1>5, <1>6, <1>7, <1>8, DataKept DEF IInv

-----------------------------------------------------------------------------
(* Steps that move keys.                                                   *)

\* What the pump reads is the next keys.
LEMMA PumpReadData ==
  ASSUME IInv, PumpRead
  PROVE  /\ pump.data = {} /\ pump'.pc = "send" /\ fetched' \in fetched .. typed
         /\ pump'.data = fetched + 1 .. fetched'
         /\ pump' \in [pc : {"read", "send", "stopped"}, data : SUBSET Keys,
                       err : BOOLEAN]
<1>1. pump.data = {} /\ typed \in 0 .. MaxKeys /\ fetched \in 0 .. typed
  BY DEF IInv, TypeOK, Empty, PumpRead
<1>2. PICK m \in fetched .. typed, b \in BOOLEAN :
        /\ fetched' = m
        /\ pump' = [pc |-> "send", data |-> fetched + 1 .. m, err |-> b]
  <2>1. CASE \E m \in fetched + 1 .. typed :
               /\ pump' = [pc |-> "send", data |-> fetched + 1 .. m,
                           err |-> FALSE]
               /\ fetched' = m
    <3>1. PICK m \in fetched + 1 .. typed :
            /\ pump' = [pc |-> "send", data |-> fetched + 1 .. m, err |-> FALSE]
            /\ fetched' = m
      BY <2>1
    <3>2. m \in fetched .. typed
      BY <1>1
    <3> QED
      BY <3>1, <3>2
  <2>2. CASE /\ pump' = [pc |-> "send", data |-> {}, err |-> TRUE]
             /\ UNCHANGED fetched
    <3>1. fetched + 1 .. fetched = {} /\ fetched \in fetched .. typed
      BY <1>1
    <3> QED
      BY <2>2, <3>1
  <2> QED
    BY <2>1, <2>2 DEF PumpRead
<1>3. fetched + 1 .. m \in SUBSET Keys
  BY <1>1, BoundsNat DEF Keys
<1> QED
  BY <1>1, <1>2, <1>3

LEMMA PumpReadKeeps ==
  ASSUME IInv, PumpRead
  PROVE  IInv'
<1>1. /\ pump.data = {} /\ pump'.pc = "send" /\ fetched' \in fetched .. typed
      /\ pump'.data = fetched + 1 .. fetched'
      /\ pump' \in [pc : {"read", "send", "stopped"}, data : SUBSET Keys,
                    err : BOOLEAN]
  BY PumpReadData
<1>2. /\ reads' = reads /\ pending' = pending /\ handed' = handed /\ err' = err
      /\ pc' = pc /\ got' = got /\ handler' = handler /\ remote' = remote
      /\ shells' = shells /\ mark' = mark /\ typed' = typed /\ eof' = eof
      /\ gone' = gone /\ Buffered' = Buffered
  BY DEF PumpRead, session, client, Buffered
<1>3. fetched \in Nat /\ fetched' \in Nat /\ fetched <= fetched' /\ typed \in Nat
  BY <1>1, BoundsNat DEF IInv, TypeOK
<1>4. TypeOK'
  BY <1>1, <1>2, <1>3 DEF IInv, TypeOK
<1>5. Turns' /\ Empty' /\ OldOnly'
  BY <1>1, <1>2 DEF IInv, Turns, Empty, OldOnly
<1>6. Arrived'
  BY <1>1, <1>2, <1>3 DEF IInv, Arrived
<1>7. KeysInOrder'
  BY <1>1, <1>2, <1>3 DEF IInv, Arrived, KeysInOrder, Before
<1> QED
  BY <1>4, <1>5, <1>6, <1>7 DEF IInv

\* The pump passes its chunk on, or drops it when the connection is gone.
LEMMA PumpSendData ==
  ASSUME IInv, PumpSend
  PROVE  \/ /\ Buffered = {} /\ Buffered' = pump.data
            /\ reads' \in {<<c>> : c \in ChunkType}
         \/ /\ gone /\ reads' = reads /\ Buffered' = Buffered
<1>1. CASE gone /\ reads' = reads
  BY <1>1 DEF Buffered
<1>2. CASE Room /\ reads' = Append(reads, [data |-> pump.data, err |-> pump.err])
  <2> DEFINE c == [data |-> pump.data, err |-> pump.err]
  <2>1. c \in ChunkType /\ c.data = pump.data
    BY DEF IInv, TypeOK, ChunkType
  <2>2. reads = <<>> /\ Buffered = {}
    BY <1>2, ReadsShape DEF IInv
  <2>3. reads' = <<c>>
    BY <1>2, <2>2
  <2> HIDE DEF c
  <2>4. reads' # <<>> /\ Head(reads') = c
    BY <2>3
  <2> QED
    BY <2>1, <2>2, <2>3, <2>4 DEF Buffered
<1> QED
  BY <1>1, <1>2 DEF PumpSend

LEMMA PumpSendKeeps ==
  ASSUME IInv, PumpSend
  PROVE  IInv'
<1>1. /\ fetched' = fetched /\ pending' = pending /\ handed' = handed /\ err' = err
      /\ pc' = pc /\ got' = got /\ handler' = handler /\ remote' = remote
      /\ shells' = shells /\ mark' = mark /\ typed' = typed /\ eof' = eof
      /\ gone' = gone
  BY DEF PumpSend, session, client
<1>2. /\ pump'.data = {} /\ pump'.pc \in {"stopped", "read"}
      /\ pump' \in [pc : {"read", "send", "stopped"}, data : SUBSET Keys,
                    err : BOOLEAN]
  <2>1. PICK w \in {"stopped", "read"} :
          pump' = [pc |-> w, data |-> {}, err |-> FALSE]
    BY DEF PumpSend
  <2> QED
    BY <2>1
<1>3. \/ /\ Buffered = {} /\ Buffered' = pump.data
         /\ reads' \in {<<c>> : c \in ChunkType}
      \/ /\ gone /\ reads' = reads /\ Buffered' = Buffered
  BY PumpSendData
<1>4. TypeOK'
  BY <1>1, <1>2, <1>3 DEF IInv, TypeOK
<1>5. Turns' /\ Empty' /\ OldOnly'
  BY <1>1, <1>2 DEF IInv, Turns, Empty, OldOnly
<1>6. Arrived' /\ KeysInOrder'
  BY <1>1, <1>2, <1>3 DEF IInv, Arrived, KeysInOrder, Before
<1> QED
  BY <1>4, <1>5, <1>6 DEF IInv

LEMMA LookKeeps ==
  ASSUME IInv, NEW x \in Consumers, Look(x)
  PROVE  IInv'
<1>1. /\ fetched' = fetched /\ reads' = reads /\ pump' = pump /\ err' = err
      /\ handler' = handler /\ remote' = remote /\ shells' = shells
      /\ mark' = mark /\ typed' = typed /\ eof' = eof /\ gone' = gone
      /\ Buffered' = Buffered
  BY DEF Look, client, Buffered
<1>2. pc[x] = "look" /\ pending' = {}
  BY DEF Look, Rest
<1>3. /\ pc' \in [Consumers -> {"off", "check", "look", "select", "got", "failed"}]
      /\ pc'[x] \in {"got", "failed", "select"}
      /\ \A y \in Consumers : y # x => pc'[y] = pc[y]
  BY DEF IInv, TypeOK, Look, Go
<1>4. handed' = handed \cup pending
  BY DEF Look
<1>5. /\ got' \in [Consumers -> SUBSET Keys]
      /\ got'["shell"] = got["shell"] \/ (x = "shell" /\ got'["shell"] = pending)
  BY DEF IInv, TypeOK, Look, Consumers
<1>6. TypeOK'
  BY <1>1, <1>2, <1>3, <1>4, <1>5 DEF IInv, TypeOK
<1>7. Turns' /\ Empty'
  BY <1>1, <1>2, <1>3 DEF IInv, Turns, Empty, Consumers
<1>8. Arrived' /\ OldOnly'
  BY <1>1, <1>2, <1>3, <1>4, <1>5 DEF IInv, Arrived, OldOnly
<1>9. KeysInOrder'
  BY <1>1, <1>2, <1>4 DEF IInv, KeysInOrder, Before
<1> QED
  BY <1>6, <1>7, <1>8, <1>9 DEF IInv

LEMMA SelectData ==
  ASSUME IInv, NEW x \in Consumers, Select(x)
  PROVE  \/ UNCHANGED <<reads, pending, err>> /\ Buffered' = Buffered
         \/ /\ pending' = Buffered /\ Buffered' = {} /\ err' \in BOOLEAN
            /\ pending' \in SUBSET Keys /\ reads' = <<>>
<1>1. CASE UNCHANGED <<reads, session>>
  BY <1>1 DEF Buffered, session
<1>2. CASE /\ reads # <<>>
           /\ pending' = Head(reads).data /\ err' = Head(reads).err
           /\ reads' = Tail(reads)
  <2>1. /\ Tail(reads) = <<>> /\ Head(reads) \in ChunkType
        /\ Buffered = Head(reads).data
    BY <1>2, ReadsShape DEF IInv
  <2> QED
    BY <1>2, <2>1 DEF Buffered, ChunkType
<1> QED
  BY <1>1, <1>2 DEF Select

LEMMA SelectKeeps ==
  ASSUME IInv, NEW x \in Consumers, Select(x)
  PROVE  IInv'
<1>1. /\ fetched' = fetched /\ pump' = pump /\ got' = got /\ handed' = handed
      /\ handler' = handler /\ remote' = remote /\ shells' = shells
      /\ mark' = mark /\ typed' = typed /\ eof' = eof /\ gone' = gone
  BY DEF Select, client
<1>2. pc[x] = "select" /\ pending = {}
  BY DEF IInv, Empty, Select
<1>3. /\ pc' \in [Consumers -> {"off", "check", "look", "select", "got", "failed"}]
      /\ pc'[x] \in {"failed", "check"}
      /\ \A y \in Consumers : y # x => pc'[y] = pc[y]
  BY DEF IInv, TypeOK, Select, Go, AfterReceive
<1>4. \A y \in Consumers : pc'[y] \notin {"look", "select"}
  BY <1>2, <1>3 DEF IInv, TypeOK, Turns, Consumers
<1>5. \/ UNCHANGED <<reads, pending, err>> /\ Buffered' = Buffered
      \/ /\ pending' = Buffered /\ Buffered' = {} /\ err' \in BOOLEAN
         /\ pending' \in SUBSET Keys /\ reads' = <<>>
  BY SelectData
<1>6. TypeOK'
  BY <1>1, <1>3, <1>5 DEF IInv, TypeOK
<1>7. Turns' /\ Empty' /\ OldOnly'
  BY <1>1, <1>2, <1>3, <1>4 DEF IInv, Turns, Empty, OldOnly, Consumers
<1>8. Arrived' /\ KeysInOrder'
  BY <1>1, <1>2, <1>5 DEF IInv, Arrived, KeysInOrder, Before
<1> QED
  BY <1>6, <1>7, <1>8 DEF IInv

-----------------------------------------------------------------------------
LEMMA NextIInv == IInv /\ [Next]_vars => IInv'
<1> SUFFICES ASSUME IInv, [Next]_vars PROVE IInv'
  OBVIOUS
<1>1. CASE UNCHANGED vars
  <2>1. /\ DataSame /\ err' = err /\ pc' = pc /\ got' = got /\ handler' = handler
        /\ remote' = remote /\ shells' = shells /\ mark' = mark
        /\ UNCHANGED client
    BY <1>1 DEF vars, DataSame, client
  <2>2. TypeOK' /\ Turns' /\ Empty' /\ Arrived' /\ OldOnly'
    BY <2>1, DataKept
       DEF IInv, TypeOK, Turns, Empty, Arrived, OldOnly, DataSame, client
  <2> QED
    BY <2>1, <2>2, DataKept DEF IInv
<1>2. CASE Next
  BY <1>2, ClientKeeps, CheckContextKeeps, MenuKeeps, HandshakeKeeps, ShellKeeps, PumpReadKeeps,
     PumpSendKeeps, LookKeeps, SelectKeeps DEF Next, ReadContext
<1> QED
  BY <1>1, <1>2

\* The inductive invariant holds in every reachable state.
THEOREM InputInvariant == Spec => []IInv
BY InitIInv, NextIInv, PTL DEF Spec

\* The goroutines, the channel and the session keep their types.
THEOREM InputTypeCorrect == Spec => []TypeOK
<1>1. IInv => TypeOK
  BY DEF IInv
<1> QED
  BY <1>1, InputInvariant, PTL

\* The menu and a shell are never in ReadContext together.
THEOREM InputOneConsumer == Spec => []OneConsumer
<1>1. IInv => OneConsumer
  BY DEF IInv, Turns, TypeOK, OneConsumer
<1> QED
  BY <1>1, InputInvariant, PTL

\* No key is lost, duplicated or reordered between channel and consumers.
THEOREM InputKeysInOrder == Spec => []KeysInOrder
<1>1. IInv => KeysInOrder
  BY DEF IInv
<1> QED
  BY <1>1, InputInvariant, PTL

\* Cancelling the input of a shell steals no key typed later.
THEOREM InputLateKeysAreKept == Spec => []LateKeysAreKept
<1>1. IInv => LateKeysAreKept
  BY DEF IInv, OldOnly, LateKeysAreKept
<1> QED
  BY <1>1, InputInvariant, PTL

-----------------------------------------------------------------------------
(* The session implements Keyboard.  What was read from the channel has no *)
(* gap, even after a chunk was dropped because the connection is gone: it   *)
(* was the last one, and the pump stops with it.                            *)

OnTheWay == handed \cup pending \cup Buffered \cup pump.data

\* A chunk is a run of keys.
Run(S) == S = {} \/ \E i, j \in Nat : i <= j /\ S = i..j

Runs == Run(pending) /\ Run(Buffered) /\ Run(pump.data)

NoGap ==
  /\ \A k \in OnTheWay : 1..k \subseteq OnTheWay
  /\ pump.pc # "stopped" => OnTheWay = 1..fetched

\* Only a consumer that ReadContext has returned to has keys in its hand.
HandsEmpty == \A x \in Consumers : pc[x] # "got" => got[x] = {}

QInv == Runs /\ NoGap /\ HandsEmpty

LEMMA QInit == Init => QInv
<1> SUFFICES ASSUME Init PROVE QInv
  OBVIOUS
<1>1. OnTheWay = {} /\ fetched = 0 /\ pending = {} /\ Buffered = {} /\ pump.data = {}
  BY DEF Init, OnTheWay, Buffered
<1>2. 1..0 = {}
  OBVIOUS
<1> QED
  BY <1>1, <1>2 DEF QInv, Runs, Run, NoGap, HandsEmpty, Init

\* Steps that move no key.
LEMMA QInvData ==
  ASSUME QInv, UNCHANGED <<pump, fetched, reads, pending, handed>>
  PROVE  Runs' /\ NoGap'
<1>1. Buffered' = Buffered /\ OnTheWay' = OnTheWay
  BY DEF Buffered, OnTheWay
<1> QED
  BY <1>1 DEF QInv, Runs, NoGap

LEMMA QInvPumpRead ==
  ASSUME IInv, QInv, PumpRead
  PROVE  Runs' /\ NoGap'
<1>1. /\ pump.data = {} /\ pump'.pc = "send" /\ fetched' \in fetched .. typed
      /\ pump'.data = fetched + 1 .. fetched'
  BY PumpReadData
<1>2. /\ pending' = pending /\ handed' = handed /\ Buffered' = Buffered
      /\ pump.pc = "read"
  BY DEF PumpRead, session, Buffered
<1>3. fetched \in Nat /\ fetched' \in Nat /\ fetched <= fetched'
  BY <1>1, BoundsNat DEF IInv, TypeOK
<1>4. OnTheWay = 1..fetched
  BY <1>2 DEF QInv, NoGap
<1>5. OnTheWay' = (1..fetched) \cup (fetched + 1 .. fetched')
  BY <1>1, <1>2, <1>4 DEF OnTheWay
<1>6. OnTheWay' = 1..fetched'
  <2>1. \A k : k \in (1..fetched) \cup (fetched + 1 .. fetched') <=> k \in 1..fetched'
    BY <1>3
  <2> QED
    BY <1>5, <2>1
<1>7. \A k \in 1..fetched' : 1..k \subseteq 1..fetched'
  BY <1>3
<1>8. Run(fetched + 1 .. fetched')
  <2>1. CASE fetched = fetched'
    <3>1. \A n \in Nat : n + 1 .. n = {}
      OBVIOUS
    <3> QED
      BY <1>3, <2>1, <3>1 DEF Run
  <2>2. CASE fetched # fetched'
    <3>1. fetched + 1 \in Nat /\ fetched + 1 <= fetched'
      BY <1>3, <2>2
    <3> QED
      BY <1>3, <3>1 DEF Run
  <2> QED
    BY <2>1, <2>2
<1> QED
  BY <1>1, <1>2, <1>6, <1>7, <1>8 DEF QInv, Runs, NoGap

LEMMA QInvPumpSend ==
  ASSUME IInv, QInv, PumpSend
  PROVE  Runs' /\ NoGap'
<1>1. /\ fetched' = fetched /\ pending' = pending /\ handed' = handed
      /\ pump.pc = "send" /\ pump'.data = {}
  BY DEF PumpSend, session, client
<1>2. CASE Buffered = {} /\ Buffered' = pump.data
  <2>1. OnTheWay' = OnTheWay
    BY <1>1, <1>2 DEF OnTheWay
  <2> QED
    BY <1>1, <1>2, <2>1 DEF QInv, Runs, Run, NoGap
<1>4. CASE /\ pump'.pc = "stopped" /\ Buffered' = Buffered
  <2>1. OnTheWay' = handed \cup pending \cup Buffered
    BY <1>1, <1>4 DEF OnTheWay
  <2>2. OnTheWay \subseteq Nat
    BY DEF IInv, Arrived, OnTheWay
  <2>3. ASSUME NEW k \in OnTheWay', NEW l \in 1..k
        PROVE  l \in OnTheWay'
    <3>1. k \in OnTheWay /\ k \notin pump.data
      BY <2>1, <2>2 DEF OnTheWay, IInv, KeysInOrder, Before
    <3>2. l \in OnTheWay
      BY <3>1 DEF QInv, NoGap
    <3>3. l \notin pump.data
      <4>1. SUFFICES ASSUME l \in pump.data PROVE k < l
        BY <2>2, <3>1
      <4> QED
        BY <2>1, <4>1 DEF IInv, KeysInOrder, Before
    <3> QED
      BY <2>1, <3>2, <3>3 DEF OnTheWay
  <2> QED
    BY <1>1, <1>4, <2>3 DEF QInv, Runs, Run, NoGap
<1>5. \/ Buffered = {} /\ Buffered' = pump.data
      \/ pump'.pc = "stopped" /\ Buffered' = Buffered
  <2>1. CASE Room /\ reads' = Append(reads, [data |-> pump.data, err |-> pump.err])
    <3>1. reads = <<>>
      BY <2>1, ReadsShape DEF IInv
    <3>2. reads' = <<[data |-> pump.data, err |-> pump.err]>>
      BY <2>1, <3>1
    <3>3. reads' # <<>> /\ Head(reads').data = pump.data
      BY <3>2
    <3> QED
      BY <3>1, <3>3 DEF Buffered
  <2>2. CASE gone /\ pump'.pc = "stopped" /\ reads' = reads
    BY <2>2 DEF Buffered
  <2> QED
    BY <2>1, <2>2 DEF PumpSend
<1> QED
  BY <1>2, <1>4, <1>5

LEMMA QInvSelect ==
  ASSUME IInv, QInv, NEW x \in Consumers, Select(x)
  PROVE  Runs' /\ NoGap'
<1>1. fetched' = fetched /\ pump' = pump /\ handed' = handed
  BY DEF Select
<1>2. pending = {}
  BY DEF IInv, Empty, Select
<1>3. CASE UNCHANGED <<reads, pending, err>> /\ Buffered' = Buffered
  BY <1>1, <1>3, QInvData
<1>4. CASE pending' = Buffered /\ Buffered' = {}
  <2>1. OnTheWay' = OnTheWay
    BY <1>1, <1>2, <1>4 DEF OnTheWay
  <2> QED
    BY <1>1, <1>4, <2>1 DEF QInv, Runs, Run, NoGap
<1> QED
  BY <1>3, <1>4, SelectData

LEMMA QInvLook ==
  ASSUME IInv, QInv, NEW x \in Consumers, Look(x)
  PROVE  Runs' /\ NoGap'
<1>1. /\ fetched' = fetched /\ pump' = pump /\ Buffered' = Buffered
      /\ pending' = {} /\ handed' = handed \cup pending
  BY DEF Look, Rest, Buffered
<1>2. OnTheWay' = OnTheWay
  BY <1>1 DEF OnTheWay
<1> QED
  BY <1>1, <1>2 DEF QInv, Runs, Run, NoGap

\* Which steps move keys.
LEMMA KeyMoves ==
  ASSUME [Next]_vars
  PROVE  \/ UNCHANGED <<pump, fetched, reads, pending, handed>>
         \/ PumpRead \/ PumpSend
         \/ \E x \in Consumers : Look(x) \/ Select(x)
BY DEF Next, vars, session, ReadContext, Type, CloseInput, Disconnect, CheckContext,
   MenuKeys, MenuScan, ScanEnds, MenuConnect, MenuEnds, ReaderLeaves, DialReturns,
   WorkerWrite, WorkerEnds, RemoteExit, ShellEnds, BackToMenu

\* ... and what they do to the hands of the consumers.
LEMMA HandMoves ==
  ASSUME IInv, QInv, [Next]_vars
  PROVE  /\ HandsEmpty'
         /\ \/ UNCHANGED <<handed, got>>
            \/ handed' = handed /\ \E y \in Consumers : got' = [got EXCEPT ![y] = {}]
            \/ \E y \in Consumers : Look(y) /\ pending # {}
<1> USE DEF Go
<1>0. /\ got \in [Consumers -> SUBSET Keys]
      /\ pc \in [Consumers -> {"off", "check", "look", "select", "got", "failed"}]
  BY DEF IInv, TypeOK
<1>1. CASE UNCHANGED vars
  BY <1>1 DEF vars, QInv, HandsEmpty
<1>2. CASE Type \/ CloseInput \/ Disconnect \/ PumpRead \/ PumpSend
           \/ RemoteExit \/ ShellEnds \/ MenuScan \/ ScanEnds
  BY <1>2 DEF QInv, HandsEmpty, Type, CloseInput, Disconnect, PumpRead, PumpSend,
     RemoteExit, ShellEnds, MenuScan, ScanEnds
<1>3. ASSUME NEW x \in Consumers, CheckContext(x) \/ Select(x)
      PROVE  HandsEmpty' /\ UNCHANGED <<handed, got>>
  <2>1. pc[x] \in {"check", "select"} /\ UNCHANGED <<handed, got>>
        /\ \A y \in Consumers : y # x => pc'[y] = pc[y]
    BY <1>0, <1>3 DEF CheckContext, Select
  <2> QED
    BY <2>1 DEF QInv, HandsEmpty
<1>4. ASSUME NEW x \in Consumers, Look(x)
      PROVE  HandsEmpty' /\ (pending # {} \/ UNCHANGED <<handed, got>>)
  <2>1. CASE pending # {}
    <3>1. pc'[x] = "got" /\ \A y \in Consumers : y # x => pc'[y] = pc[y] /\ got'[y] = got[y]
      BY <1>0, <1>4, <2>1 DEF Look
    <3> QED
      BY <2>1, <3>1 DEF QInv, HandsEmpty
  <2>2. CASE pending = {}
    <3>1. pc[x] = "look" /\ UNCHANGED <<handed, got>>
          /\ \A y \in Consumers : y # x => pc'[y] = pc[y]
      BY <1>0, <1>4, <2>2 DEF Look
    <3> QED
      BY <3>1 DEF QInv, HandsEmpty
  <2> QED
    BY <2>1, <2>2
<1>5. CASE MenuKeys \/ MenuConnect \/ MenuEnds \/ ReaderLeaves
  <2>1. handed' = handed /\ got' = [got EXCEPT !["menu"] = {}]
    BY <1>5 DEF MenuKeys, MenuConnect, MenuEnds, ReaderLeaves
  <2>2. got'["menu"] = {} /\ got'["shell"] = got["shell"]
    BY <1>0, <2>1 DEF Consumers
  <2>3. pc'["shell"] # pc["shell"] => pc["shell"] = "off"
    BY <1>0, <1>5 DEF MenuKeys, MenuConnect, MenuEnds, ReaderLeaves, Consumers, IInv, Turns
  <2> QED
    BY <2>1, <2>2, <2>3 DEF QInv, HandsEmpty, Consumers
<1>6. CASE WorkerWrite
  <2>1. handed' = handed /\ got' = [got EXCEPT !["shell"] = {}] /\ pc'["menu"] = pc["menu"]
    BY <1>0, <1>6 DEF WorkerWrite, Consumers
  <2>2. got'["shell"] = {} /\ got'["menu"] = got["menu"]
    BY <1>0, <2>1 DEF Consumers
  <2> QED
    BY <2>1, <2>2 DEF QInv, HandsEmpty, Consumers
<1>7. CASE WorkerEnds \/ BackToMenu \/ DialReturns
  <2>1. UNCHANGED <<handed, got>>
        /\ \A y \in Consumers : pc'[y] # pc[y] => pc[y] \in {"off", "failed"}
    BY <1>0, <1>7 DEF WorkerEnds, BackToMenu, DialReturns, Consumers, IInv, Turns
  <2> QED
    BY <2>1 DEF QInv, HandsEmpty
<1> QED
  BY <1>1, <1>2, <1>3, <1>4, <1>5, <1>6, <1>7 DEF Next, ReadContext, Consumers

LEMMA QInvStep ==
  ASSUME IInv, QInv, [Next]_vars
  PROVE  QInv'
BY KeyMoves, HandMoves, QInvData, QInvPumpRead, QInvPumpSend, QInvSelect, QInvLook
   DEF QInv

\* A chunk that is handed out is the next keys.
LEMMA LookTakes ==
  ASSUME IInv, QInv, NEW x \in Consumers, Look(x), pending # {}
  PROVE  Queue!Take(x)
<1>1. PICK i, m \in Nat : i <= m /\ pending = i..m
  BY DEF QInv, Runs, Run
<1>2. m \in pending /\ i \in pending
  BY <1>1
<1>3. typed \in Nat /\ fetched \in Nat /\ fetched <= typed
  BY BoundsNat DEF IInv, TypeOK
<1>4. pending \subseteq 1..fetched /\ handed \subseteq 1..fetched
  BY DEF IInv, Arrived
<1>5. m \in 1..typed
  BY <1>2, <1>3, <1>4
<1>6. m \notin handed /\ \A k \in handed : k < i
  BY <1>1, <1>2 DEF IInv, KeysInOrder, Before
<1>7. handed \cup pending = 1..m
  <2>1. ASSUME NEW k \in handed \cup pending PROVE k \in 1..m
    <3>1. k \in Nat /\ k >= 1
      BY <1>3, <1>4
    <3> QED
      BY <1>1, <1>6, <3>1
  <2>2. ASSUME NEW k \in 1..m PROVE k \in handed \cup pending
    <3>1. k \in OnTheWay
      BY <1>2 DEF QInv, NoGap, OnTheWay
    <3>2. k \notin Buffered /\ k \notin pump.data
      <4>1. \A l \in Buffered \cup pump.data : m < l
        BY <1>2 DEF IInv, KeysInOrder, Before
      <4> QED
        BY <1>1, <4>1
    <3> QED
      BY <3>1, <3>2 DEF OnTheWay
  <2> QED
    BY <2>1, <2>2
<1>8. (1..m) \ handed = pending
  <2>1. \A k \in pending : k \notin handed
    BY <1>3, <1>4 DEF IInv, KeysInOrder, Before
  <2> QED
    BY <1>7, <2>1
<1>9. /\ handed' = handed \cup pending /\ typed' = typed
      /\ got' = [got EXCEPT ![x] = pending]
  BY DEF Look, client
<1>10. \A y \in Consumers : got[y] = {}
  BY DEF Look, IInv, Turns, TypeOK, QInv, HandsEmpty, Consumers
<1> QED
  BY <1>5, <1>6, <1>7, <1>8, <1>9, <1>10 DEF Queue!Take

\* Every step is a step of the keyboard, or changes nothing it shows.
LEMMA QueueStep ==
  ASSUME IInv, QInv, [Next]_vars
  PROVE  [Queue!Next]_<<typed, handed, got>>
<1>1. CASE Type
  BY <1>1 DEF Type, Queue!Type, Queue!Next
<1>2. CASE typed' = typed
  <2>1. CASE UNCHANGED <<handed, got>>
    BY <1>2, <2>1
  <2>2. CASE handed' = handed /\ \E y \in Consumers : got' = [got EXCEPT ![y] = {}]
    BY <1>2, <2>2 DEF Queue!Finish, Queue!Next
  <2>3. CASE \E y \in Consumers : Look(y) /\ pending # {}
    BY <2>3, LookTakes DEF Queue!Next
  <2> QED
    BY <2>1, <2>2, <2>3, HandMoves
<1>3. Type \/ typed' = typed
  BY DEF Next, vars, client, ReadContext, CloseInput, Disconnect, PumpRead, PumpSend,
     CheckContext, Look, Select, MenuKeys, MenuConnect, MenuEnds, ReaderLeaves,
     MenuScan, ScanEnds, DialReturns,
     WorkerWrite, WorkerEnds, RemoteExit, ShellEnds, BackToMenu
<1> QED
  BY <1>1, <1>2, <1>3

\* The pump, the pending bytes and the two consumers with their cancellations
\* implement one keyboard: every key goes to one consumer, once and in order,
\* until the connection ends.
THEOREM InputKeysInSequence == Spec => KeysInSequence
<1>1. Spec => [](IInv /\ QInv)
  <2>1. Init => QInv
    BY QInit
  <2>2. IInv /\ QInv /\ [Next]_vars => QInv'
    BY QInvStep
  <2> QED
    BY <2>1, <2>2, InputInvariant, PTL DEF Spec
<1>2. Init => Queue!Init
  BY DEF Init, Queue!Init
<1>3. IInv /\ QInv /\ [Next]_vars => [Queue!Next]_<<typed, handed, got>>
  BY QueueStep
<1> QED
  BY <1>1, <1>2, <1>3, PTL DEF Spec, KeysInSequence, Queue!Spec
=============================================================================
