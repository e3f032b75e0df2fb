------------------------------ MODULE SlotPool ------------------------------
(***************************************************************************)
(* What the session limits of the gateway promise, without counters: a    *)
(* channel holds at most one slot, on behalf of one user, and a slot is    *)
(* only handed out while fewer than MaxSessions are out in all and fewer   *)
(* than MaxSessionsPerUser for that user.                                  *)
(***************************************************************************)
EXTENDS Naturals, FiniteSets

CONSTANTS
  Channels,            \* SSH channels being served
  Users,               \* gateway users
  NoUser,              \* the owner of a slot nobody holds
  MaxSessions,         \* config: max_sessions
  MaxSessionsPerUser   \* config: max_sessions_per_user

VARIABLE slot          \* the user every channel holds a slot for

Holders   == {c \in Channels : slot[c] # NoUser}
HeldBy(u) == {c \in Channels : slot[c] = u}

Init == slot = [c \in Channels |-> NoUser]

Take(c, u) ==
  /\ slot[c] = NoUser
  /\ Cardinality(Holders) < MaxSessions
  /\ Cardinality(HeldBy(u)) < MaxSessionsPerUser
  /\ slot' = [slot EXCEPT ![c] = u]

Give(c) ==
  /\ slot[c] # NoUser
  /\ slot' = [slot EXCEPT ![c] = NoUser]

Next == \E c \in Channels : Give(c) \/ \E u \in Users : Take(c, u)

Spec == Init /\ [][Next]_slot
=============================================================================
