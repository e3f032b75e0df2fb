------------------------------- MODULE Keyboard -------------------------------
(***************************************************************************)
(* What an interactive session promises about its input, without           *)
(* goroutines, buffers or cancellation: one consumer at a time takes the   *)
(* next keys, in the order they were typed; none is skipped and none is    *)
(* handed out twice, up to the point where the connection ends.            *)
(***************************************************************************)
EXTENDS Naturals

CONSTANT Consumers

VARIABLES
  typed,   \* number of keys typed so far
  taken,   \* the keys that have been handed out
  hand     \* the keys every consumer is working on

Init ==
  /\ typed = 0
  /\ taken = {}
  /\ hand = [x \in Consumers |-> {}]

Type == typed' = typed + 1 /\ UNCHANGED <<taken, hand>>

\* The next keys, as many as one read returns.
Take(x) ==
  /\ \A y \in Consumers : hand[y] = {}
  /\ \E m \in 1..typed :
       /\ m \notin taken
       /\ taken' = 1..m
       /\ hand' = [hand EXCEPT ![x] = (1..m) \ taken]
  /\ UNCHANGED typed

Finish(x) ==
  /\ hand' = [hand EXCEPT ![x] = {}]
  /\ UNCHANGED <<typed, taken>>

Next == Type \/ \E x \in Consumers : Take(x) \/ Finish(x)

Spec == Init /\ [][Next]_<<typed, taken, hand>>
=============================================================================
