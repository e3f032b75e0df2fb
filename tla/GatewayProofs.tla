---------------------------- MODULE GatewayProofs ----------------------------
(***************************************************************************)
(* Proofs for Gateway, for any number of channels, users and targets and   *)
(* any limits: the counters are exact, and the handlers implement the      *)
(* abstract slot pool, so the limits hold of the sessions themselves.      *)
(*                                                                         *)
(* The argument: seen from the counters every step of a channel either     *)
(* leaves it on its side of acquire and release, or acquires for a handler *)
(* that found a free slot, or releases (Effect).  The inductive invariant  *)
(* adds that an open channel has a user, so that a release finds the entry *)
(* it decrements.                                                         *)
(***************************************************************************)
EXTENDS Gateway, FiniteSetTheorems, TLAPS

\* Steps after a successful access check and before the session ends.
Checked(r) ==
  \/ r.pc \in {"fetch", "rule", "dial", "proxy"}
  \/ r.pc = "acquire" /\ r.kind = "forward"

\* A handler past stateFromContext has a user, from the access check on it has
\* a target, and it is only where handlers of its kind get.
WellFormed(r) ==
  /\ r.pc = "check" \/ Checked(r) => r.target \in Targets
  /\ r.pc \notin {"done", "state"} => r.user \in Users
  /\ r.pc \in {"load", "menu", "scan", "fetch"} => r.kind = "menu"
  /\ r.pc = "rule" => r.kind = "forward"

HandlersOK == \A c \in Channels : WellFormed(chan[c])

IInv == TypeOK /\ HandlersOK /\ CountersExact

\* The handler record r holds a slot (as Serving says of a channel).
Holds(r) ==
  IF r.kind = "forward" THEN r.pc \in {"dial", "proxy", "end"}
  ELSE r.pc \in {"load", "menu", "scan", "lookup", "check", "fetch", "dial", "proxy",
                 "end"}

\* What a step of the handler of c may do to the slots: nothing, take a free
\* one, or give the one it holds back.
SlotEffect(c, r) ==
  \/ /\ Holds(r) <=> Holds(chan[c])
     /\ Holds(r) => r.user = chan[c].user
     /\ UNCHANGED counters
  \/ /\ ~Holds(chan[c]) /\ Holds(r)
     /\ SlotFree(r.user)
     /\ total' = total + 1
     /\ perUser' = [perUser EXCEPT ![r.user] = @ + 1]
  \/ /\ Holds(chan[c]) /\ ~Holds(r)
     /\ Release(chan[c].user)

\* ... and to the record of the handler: it becomes r.
Effect(c, r) ==
  /\ r \in ChanType
  /\ chan' = [chan EXCEPT ![c] = r]
  /\ WellFormed(r)
  /\ gone' \in SUBSET Channels
  /\ SlotEffect(c, r)

-----------------------------------------------------------------------------
(* The steps of a handler, by what they do to the slots.                   *)

LEMMA HolderIsOpen ==
  ASSUME NEW r, Holds(r)
  PROVE  r.pc \notin {"done", "state"}
BY DEF Holds

LEMMA ClosedHoldsNone == Closed \in ChanType /\ Closed.pc = "done" /\ ~Holds(Closed)
BY DEF Closed, ChanType, AllKinds, Holds

\* A handler that moves on, on the same side of acquire and release.
LEMMA MoveEffect ==
  ASSUME TypeOK, HandlersOK, NEW c \in Channels, NEW r \in ChanType,
         chan' = [chan EXCEPT ![c] = r], UNCHANGED <<counters, gone>>,
         chan[c].pc \notin {"done", "state"}, r.user = chan[c].user, r.kind = chan[c].kind,
         Holds(r) <=> Holds(chan[c]),
         r.pc \in {"load", "menu", "scan", "fetch"} => r.kind = "menu",
         r.pc = "rule" => r.kind = "forward",
         r.pc = "check" \/ Checked(r) => r.target \in Targets
  PROVE  \E s : Effect(c, s)
<1>1. WellFormed(r)
  BY DEF HandlersOK, WellFormed
<1>2. Effect(c, r)
  BY <1>1 DEF Effect, SlotEffect, TypeOK
<1> QED
  BY <1>2

\* Goto is such a move.
LEMMA GotoEffect ==
  ASSUME TypeOK, HandlersOK, NEW c \in Channels,
         NEW pc \in {"acquire", "load", "menu", "scan", "lookup", "check", "rule",
                     "fetch", "dial", "proxy", "end"},
         Goto(c, pc), UNCHANGED <<counters, gone>>,
         chan[c].pc \notin {"done", "state"},
         Holds([chan[c] EXCEPT !.pc = pc]) <=> Holds(chan[c]),
         pc \in {"load", "menu", "scan", "fetch"} => chan[c].kind = "menu",
         pc = "rule" => chan[c].kind = "forward",
         pc \in {"acquire", "check", "rule", "fetch", "dial", "proxy"} =>
           chan[c].target \in Targets
  PROVE  \E r : Effect(c, r)
<1> DEFINE r == [chan[c] EXCEPT !.pc = pc]
<1>1. chan[c] \in ChanType
  BY DEF TypeOK
<1>2. r \in ChanType /\ r.user = chan[c].user /\ r.kind = chan[c].kind
      /\ r.pc = pc /\ r.target = chan[c].target
  BY <1>1 DEF ChanType
<1>3. chan' = [chan EXCEPT ![c] = r]
  BY DEF Goto
<1>4. Holds(r) <=> Holds(chan[c])
  OBVIOUS
<1> HIDE DEF r
<1>5. r.pc = "check" \/ Checked(r) => r.target \in Targets
  BY <1>2 DEF Checked
<1> QED
  BY <1>2, <1>3, <1>4, <1>5, MoveEffect

LEMMA CloseEffect ==
  ASSUME TypeOK, NEW c \in Channels, Close(c), ~Holds(chan[c])
  PROVE  \E r : Effect(c, r)
<1>1. Effect(c, Closed)
  BY ClosedHoldsNone DEF Effect, SlotEffect, WellFormed, Checked, Close, TypeOK
<1> QED
  BY <1>1

LEMMA ReleaseEffect ==
  ASSUME TypeOK, NEW c \in Channels, CloseAndRelease(c), Holds(chan[c])
  PROVE  \E r : Effect(c, r)
<1>1. Effect(c, Closed)
  BY ClosedHoldsNone DEF Effect, SlotEffect, WellFormed, Checked, CloseAndRelease, TypeOK
<1> QED
  BY <1>1

LEMMA FailEffect ==
  ASSUME TypeOK, HandlersOK, NEW c \in Channels, Fail(c), Holds(chan[c])
  PROVE  \E r : Effect(c, r)
<1> DEFINE pc == IF chan[c].kind = "menu" THEN "load" ELSE "end"
<1>1. chan[c] \in ChanType /\ chan[c].pc \notin {"done", "state"}
  BY HolderIsOpen DEF TypeOK
<1>2. Holds([chan[c] EXCEPT !.pc = pc])
  BY <1>1 DEF Holds, ChanType
<1> QED
  BY <1>1, <1>2, GotoEffect DEF Fail, counters

-----------------------------------------------------------------------------
(* One lemma per action of a channel.                                      *)

LEMMA OpenEffect ==
  ASSUME TypeOK, NEW c \in Channels, NEW k \in Kinds, Open(c, k)
  PROVE  \E r : Effect(c, r)
<1> DEFINE r == [Closed EXCEPT !.pc = "state", !.kind = k]
<1>1. r \in ChanType /\ r.pc = "state"
  BY KindsOK DEF Closed, ChanType
<1>2. ~Holds(r) /\ ~Holds(chan[c])
  BY <1>1 DEF Holds, Open
<1>3. chan' = [chan EXCEPT ![c] = r] /\ UNCHANGED <<counters, gone>>
  BY DEF Open
<1> HIDE DEF r
<1>4. Effect(c, r)
  BY <1>1, <1>2, <1>3 DEF Effect, SlotEffect, WellFormed, Checked, TypeOK
<1> QED
  BY <1>4

LEMMA StateFromContextEffect ==
  ASSUME TypeOK, HandlersOK, NEW c \in Channels, StateFromContext(c)
  PROVE  \E r : Effect(c, r)
<1>1. ~Holds(chan[c]) /\ chan[c] \in ChanType
  BY DEF Holds, StateFromContext, TypeOK
<1>2. CASE Close(c)
  BY <1>1, <1>2, CloseEffect
<1>3. CASE ~Close(c)
  <2> DEFINE pc == IF chan[c].kind = "forward" THEN "lookup" ELSE "acquire"
  <2>1. PICK u \in Users :
          /\ chan' = [chan EXCEPT ![c].user = u, ![c].ugen = ugen[u],
                                  ![c].role = role[u], ![c].pc = pc]
          /\ UNCHANGED <<counters, gone>>
    BY <1>3 DEF StateFromContext
  <2> DEFINE r == [chan[c] EXCEPT !.user = u, !.ugen = ugen[u],
                                  !.role = role[u], !.pc = pc]
  <2>2. role[u] \in {"admin", "member"} /\ ugen[u] \in Nat
    BY DEF TypeOK
  <2>3. r \in ChanType /\ r.user = u /\ r.kind = chan[c].kind /\ r.pc = pc
    BY <1>1, <2>2 DEF ChanType
  <2>4. ~Holds(r) /\ WellFormed(r)
    BY <2>3 DEF Holds, WellFormed, Checked
  <2>5. chan' = [chan EXCEPT ![c] = r]
    BY <1>1, <2>1 DEF TypeOK
  <2> HIDE DEF r
  <2>6. Effect(c, r)
    BY <1>1, <2>1, <2>3, <2>4, <2>5 DEF Effect, SlotEffect, TypeOK
  <2> QED
    BY <2>6
<1> QED
  BY <1>2, <1>3

LEMMA AcquireEffect ==
  ASSUME TypeOK, HandlersOK, NEW c \in Channels, Acquire(c)
  PROVE  \E r : Effect(c, r)
<1>1. /\ ~Holds(chan[c]) /\ chan[c] \in ChanType /\ chan[c].user \in Users
      /\ chan[c].kind = "forward" => chan[c].target \in Targets
  BY DEF Holds, Acquire, TypeOK, HandlersOK, WellFormed, Checked
<1>2. CASE Close(c)
  BY <1>1, <1>2, CloseEffect
<1>3. CASE ~Close(c)
  <2> DEFINE pc == CASE chan[c].kind = "menu"    -> "load"
                     [] chan[c].kind = "forward" -> "dial"
                     [] OTHER                    -> "lookup"
             r  == [chan[c] EXCEPT !.pc = pc]
  <2>1. /\ SlotFree(chan[c].user)
        /\ total'   = total + 1
        /\ perUser' = [perUser EXCEPT ![chan[c].user] = @ + 1]
        /\ chan' = [chan EXCEPT ![c] = r]
        /\ UNCHANGED gone
    BY <1>3 DEF Acquire, Goto
  <2>2. r \in ChanType /\ r.user = chan[c].user /\ r.kind = chan[c].kind
        /\ r.pc = pc /\ r.target = chan[c].target
    BY <1>1 DEF ChanType
  <2>3. Holds(r) /\ WellFormed(r)
    BY <1>1, <2>2 DEF Holds, WellFormed, Checked
  <2> HIDE DEF r
  <2>4. Effect(c, r)
    BY <1>1, <2>1, <2>2, <2>3 DEF Effect, SlotEffect, TypeOK
  <2> QED
    BY <2>4
<1> QED
  BY <1>2, <1>3

LEMMA LoadEffect ==
  ASSUME TypeOK, HandlersOK, NEW c \in Channels, Load(c)
  PROVE  \E r : Effect(c, r)
<1>1. Holds(chan[c]) /\ chan[c].pc \notin {"done", "state"} /\ chan[c] \in ChanType
      /\ chan[c].kind = "menu"
  BY DEF Holds, Load, TypeOK, HandlersOK, WellFormed
<1>2. CASE CloseAndRelease(c)
  BY <1>1, <1>2, ReleaseEffect
<1>3. CASE ~CloseAndRelease(c)
  <2> DEFINE L == Listed(chan[c].role, chan[c].user)
             r == [chan[c] EXCEPT !.pc = "menu", !.target = NoTarget,
                                  !.row = 0, !.listed = L]
  <2>1. chan' = [chan EXCEPT ![c] = r] /\ UNCHANGED <<counters, gone>>
    BY <1>1, <1>3 DEF Load, TypeOK
  <2>2. L \in SUBSET Targets
    BY DEF Listed
  <2> HIDE DEF L
  <2>3. r \in ChanType /\ r.user = chan[c].user /\ r.kind = chan[c].kind
        /\ r.pc = "menu"
    BY <1>1, <2>2 DEF ChanType
  <2>4. Holds(r)
    BY <1>1, <2>3 DEF Holds
  <2> HIDE DEF r
  <2> QED
    BY <1>1, <2>1, <2>3, <2>4, MoveEffect DEF Checked
<1> QED
  BY <1>2, <1>3

LEMMA ReloadEffect ==
  ASSUME TypeOK, HandlersOK, NEW c \in Channels, Reload(c)
  PROVE  \E r : Effect(c, r)
<1> DEFINE L == IF c \in gone THEN {} ELSE Listed(chan[c].role, chan[c].user)
           r == [chan[c] EXCEPT !.listed = L]
<1>1. chan[c].pc = "menu" /\ chan[c] \in ChanType /\ chan[c].kind = "menu"
      /\ Holds(chan[c])
  BY DEF Holds, Reload, TypeOK, HandlersOK, WellFormed
<1>2. chan' = [chan EXCEPT ![c] = r] /\ UNCHANGED <<counters, gone>>
  BY DEF Reload
<1>3. L \in SUBSET Targets
  BY DEF Listed
<1> HIDE DEF L
<1>4. r \in ChanType /\ r.user = chan[c].user /\ r.kind = chan[c].kind
      /\ r.pc = "menu"
  BY <1>1, <1>3 DEF ChanType
<1>5. Holds(r)
  BY <1>1, <1>4 DEF Holds
<1> HIDE DEF r
<1> QED
  BY <1>1, <1>2, <1>4, <1>5, MoveEffect DEF Checked

LEMMA ScanEffect ==
  ASSUME TypeOK, HandlersOK, NEW c \in Channels, MenuScan(c) \/ ScanEnds(c)
  PROVE  \E r : Effect(c, r)
<1>1. chan[c].pc \in {"menu", "scan"} /\ chan[c] \in ChanType /\ chan[c].kind = "menu"
      /\ Holds(chan[c])
  BY DEF Holds, MenuScan, ScanEnds, TypeOK, HandlersOK, WellFormed
<1>2. ASSUME NEW pc \in {"menu", "scan"}, Goto(c, pc), UNCHANGED <<counters, gone>>
      PROVE  \E r : Effect(c, r)
  <2>1. Holds([chan[c] EXCEPT !.pc = pc])
    BY <1>1, <1>2 DEF Holds, ChanType
  <2> QED
    BY <1>1, <1>2, <2>1, GotoEffect
<1> QED
  BY <1>2 DEF MenuScan, ScanEnds

LEMMA MenuSelectEffect ==
  ASSUME TypeOK, HandlersOK, NEW c \in Channels, NEW t \in Targets,
         MenuSelect(c, t)
  PROVE  \E r : Effect(c, r)
<1> DEFINE r == [chan[c] EXCEPT !.pc = "check", !.target = t, !.listed = {}]
<1>1. chan[c].pc \notin {"done", "state"} /\ chan[c] \in ChanType /\ chan[c].kind = "menu"
      /\ Holds(chan[c])
  BY DEF Holds, MenuSelect, TypeOK, HandlersOK, WellFormed
<1>2. r \in ChanType /\ r.user = chan[c].user /\ r.kind = chan[c].kind
      /\ r.pc = "check" /\ r.target = t
  BY <1>1 DEF ChanType
<1>3. Holds(r)
  BY <1>1, <1>2 DEF Holds
<1>4. chan' = [chan EXCEPT ![c] = r] /\ UNCHANGED <<counters, gone>>
  BY <1>1 DEF MenuSelect, TypeOK
<1> HIDE DEF r
<1> QED
  BY <1>1, <1>2, <1>3, <1>4, MoveEffect DEF Checked

LEMMA LookupEffect ==
  ASSUME TypeOK, HandlersOK, NEW c \in Channels, Lookup(c)
  PROVE  \E r : Effect(c, r)
<1>1. chan[c] \in ChanType /\ chan[c].pc = "lookup"
  BY DEF Lookup, TypeOK
<1>2. Holds(chan[c]) <=> chan[c].kind # "forward"
  BY <1>1 DEF Holds
<1>3. ASSUME NEW t \in Targets, UNCHANGED <<counters, gone>>,
             chan' = [chan EXCEPT ![c].pc = "check", ![c].target = t,
                                  ![c].row = tgen[t]]
      PROVE  \E r : Effect(c, r)
  <2> DEFINE r == [chan[c] EXCEPT !.pc = "check", !.target = t, !.row = tgen[t]]
  <2>1. chan' = [chan EXCEPT ![c] = r]
    BY <1>1, <1>3 DEF TypeOK
  <2>2. tgen[t] \in Nat
    BY DEF TypeOK
  <2>3. r \in ChanType /\ r.user = chan[c].user /\ r.kind = chan[c].kind
        /\ r.pc = "check" /\ r.target = t
    BY <1>1, <2>2 DEF ChanType
  <2>4. Holds(r) <=> Holds(chan[c])
    BY <1>1, <2>3 DEF Holds
  <2> HIDE DEF r
  <2> QED
    BY <1>1, <1>3, <2>1, <2>3, <2>4, MoveEffect DEF Checked
<1>4. CASE IF chan[c].kind = "forward" THEN Close(c) ELSE Fail(c)
  BY <1>2, <1>4, CloseEffect, FailEffect
<1> QED
  BY <1>3, <1>4 DEF Lookup

LEMMA CheckEffect ==
  ASSUME TypeOK, HandlersOK, NEW c \in Channels, Check(c)
  PROVE  \E r : Effect(c, r)
<1>1. chan[c] \in ChanType /\ chan[c].pc = "check" /\ chan[c].target \in Targets
  BY DEF Check, TypeOK, HandlersOK, WellFormed
<1>2. Holds(chan[c]) <=> chan[c].kind # "forward"
  BY <1>1 DEF Holds
<1> DEFINE pc == CASE chan[c].kind = "menu"    -> "fetch"
                   [] chan[c].kind = "forward" -> "rule"
                   [] OTHER                    -> "dial"
<1>3. ASSUME UNCHANGED <<counters, gone>>, NEW n \in Nat,
             chan' = [chan EXCEPT ![c].pc = pc, ![c].row = n]
      PROVE  \E r : Effect(c, r)
  <2> DEFINE r == [chan[c] EXCEPT !.pc = pc, !.row = n]
  <2>1. chan' = [chan EXCEPT ![c] = r]
    BY <1>1, <1>3 DEF TypeOK
  <2>2. /\ pc \in {"fetch", "rule", "dial"}
        /\ pc = "fetch" => chan[c].kind = "menu"
        /\ pc = "rule" => chan[c].kind = "forward"
    OBVIOUS
  <2>3. r \in ChanType /\ r.user = chan[c].user /\ r.kind = chan[c].kind
        /\ r.pc = pc /\ r.target = chan[c].target
    BY <1>1, <1>3, <2>2 DEF ChanType
  <2>4. Holds(r) <=> Holds(chan[c])
    BY <1>1, <2>3 DEF Holds
  <2> HIDE DEF pc, r
  <2> QED
    BY <1>1, <1>3, <2>1, <2>2, <2>3, <2>4, MoveEffect DEF Checked
<1>4. CASE IF chan[c].kind = "forward" THEN Close(c) ELSE Fail(c)
  BY <1>2, <1>4, CloseEffect, FailEffect
<1>5. CASE ~(IF chan[c].kind = "forward" THEN Close(c) ELSE Fail(c))
  <2> DEFINE n == IF chan[c].kind = "menu" THEN tgen[chan[c].target] ELSE chan[c].row
  <2>1. /\ UNCHANGED <<counters, gone>>
        /\ chan' = [chan EXCEPT ![c].pc = pc, ![c].row = n]
    BY <1>5 DEF Check
  <2>2. n \in Nat
    <3>1. tgen[chan[c].target] \in Nat
      BY <1>1 DEF TypeOK
    <3> QED
      BY <1>1, <3>1 DEF ChanType
  <2> HIDE DEF n, pc
  <2> QED
    BY <1>3, <2>1, <2>2
<1> QED
  BY <1>4, <1>5

LEMMA RuleEffect ==
  ASSUME TypeOK, HandlersOK, NEW c \in Channels, Rule(c)
  PROVE  \E r : Effect(c, r)
<1>1. /\ chan[c] \in ChanType /\ chan[c].pc = "rule" /\ ~Holds(chan[c])
      /\ chan[c].target \in Targets
  BY DEF Rule, TypeOK, Holds, HandlersOK, WellFormed, Checked
<1>2. CASE Goto(c, "acquire") /\ UNCHANGED <<counters, gone>>
  <2>1. ~Holds([chan[c] EXCEPT !.pc = "acquire"])
    BY <1>1 DEF Holds, ChanType
  <2> QED
    BY <1>1, <1>2, <2>1, GotoEffect
<1>3. CASE Close(c)
  BY <1>1, <1>3, CloseEffect
<1> QED
  BY <1>2, <1>3 DEF Rule

LEMMA FetchEffect ==
  ASSUME TypeOK, HandlersOK, NEW c \in Channels, Fetch(c)
  PROVE  \E r : Effect(c, r)
<1>1. /\ chan[c] \in ChanType /\ chan[c].pc = "fetch" /\ chan[c].kind = "menu"
      /\ chan[c].target \in Targets
  BY DEF Fetch, TypeOK, HandlersOK, WellFormed, Checked
<1>2. Holds(chan[c])
  BY <1>1 DEF Holds
<1>3. CASE Fail(c)
  BY <1>2, <1>3, FailEffect
<1>4. CASE ~Fail(c)
  <2> DEFINE n == tgen[chan[c].target]
             r == [chan[c] EXCEPT !.pc = "dial", !.row = n]
  <2>1. chan' = [chan EXCEPT ![c] = r] /\ UNCHANGED <<counters, gone>>
    BY <1>1, <1>4 DEF Fetch, TypeOK
  <2>2. n \in Nat
    BY <1>1 DEF TypeOK
  <2> HIDE DEF n
  <2>3. r \in ChanType /\ r.user = chan[c].user /\ r.kind = chan[c].kind
        /\ r.pc = "dial" /\ r.target = chan[c].target
    BY <1>1, <2>2 DEF ChanType
  <2>4. Holds(r)
    BY <2>3 DEF Holds
  <2> HIDE DEF r
  <2> QED
    BY <1>1, <1>2, <2>1, <2>3, <2>4, MoveEffect
<1> QED
  BY <1>3, <1>4

LEMMA DialEffect ==
  ASSUME TypeOK, HandlersOK, NEW c \in Channels, Dial(c)
  PROVE  \E r : Effect(c, r)
<1>1. chan[c] \in ChanType /\ chan[c].pc \notin {"done", "state"} /\ Holds(chan[c])
      /\ chan[c].target \in Targets
  BY DEF Dial, TypeOK, Holds, HandlersOK, WellFormed, Checked
<1>2. CASE Fail(c)
  BY <1>1, <1>2, FailEffect
<1>3. CASE ~Fail(c)
  <2> DEFINE C == IF chan[c].kind = "forward" THEN {"up", "down"} ELSE {}
             r == [chan[c] EXCEPT !.pc = "proxy", !.copies = C]
  <2>1. chan' = [chan EXCEPT ![c] = r] /\ UNCHANGED <<counters, gone>>
    BY <1>1, <1>3 DEF Dial, TypeOK
  <2>2. r \in ChanType /\ r.user = chan[c].user /\ r.kind = chan[c].kind
        /\ r.pc = "proxy" /\ r.target = chan[c].target
    BY <1>1 DEF ChanType
  <2>3. Holds(r)
    BY <2>2 DEF Holds
  <2> HIDE DEF r
  <2> QED
    BY <1>1, <2>1, <2>2, <2>3, MoveEffect
<1> QED
  BY <1>2, <1>3

LEMMA CopyEndsEffect ==
  ASSUME TypeOK, HandlersOK, NEW c \in Channels, NEW d, CopyEnds(c, d)
  PROVE  \E r : Effect(c, r)
<1> DEFINE pc == IF chan[c].copies = {d} THEN "end" ELSE "proxy"
           r  == [chan[c] EXCEPT !.copies = @ \ {d}, !.pc = pc]
<1>1. chan[c] \in ChanType /\ chan[c].pc \notin {"done", "state"} /\ Holds(chan[c])
      /\ chan[c].target \in Targets
  BY DEF CopyEnds, TypeOK, Holds, HandlersOK, WellFormed, Checked
<1>2. chan' = [chan EXCEPT ![c] = r] /\ UNCHANGED <<counters, gone>>
  BY <1>1 DEF CopyEnds, TypeOK
<1>3. r \in ChanType /\ r.user = chan[c].user /\ r.kind = chan[c].kind
      /\ r.pc \in {"end", "proxy"} /\ r.target = chan[c].target
  BY <1>1 DEF ChanType
<1>4. Holds(r)
  BY <1>3 DEF Holds
<1> HIDE DEF r
<1> QED
  BY <1>1, <1>2, <1>3, <1>4, MoveEffect

LEMMA ClientGoneEffect ==
  ASSUME TypeOK, HandlersOK, NEW c \in Channels, ClientGone(c)
  PROVE  \E r : Effect(c, r)
<1>1. Effect(c, chan[c])
  BY DEF ClientGone, Effect, SlotEffect, TypeOK, HandlersOK
<1> QED
  BY <1>1

LEMMA ChannelEffect ==
  ASSUME TypeOK, HandlersOK, NEW c \in Channels, HandlerStep(c) \/ ClientStep(c)
  PROVE  \E r : Effect(c, r)
<1>1. ASSUME End(c) PROVE \E r : Effect(c, r)
  BY <1>1, ReleaseEffect DEF End, Holds
<1>2. ASSUME MenuQuit(c) PROVE \E r : Effect(c, r)
  BY <1>2, ReleaseEffect DEF MenuQuit, Holds, HandlersOK, WellFormed
<1>3. ASSUME ProxyEnds(c) PROVE \E r : Effect(c, r)
  BY <1>3, FailEffect DEF ProxyEnds, Holds
<1>4. CASE HandlerStep(c)
  BY <1>1, <1>4, StateFromContextEffect, AcquireEffect, LoadEffect,
     LookupEffect, CheckEffect, RuleEffect, FetchEffect, DialEffect, ScanEffect
     DEF HandlerStep
<1>5. CASE ClientStep(c)
  BY <1>2, <1>3, <1>5, OpenEffect, ReloadEffect, MenuSelectEffect, ScanEffect,
     ClientGoneEffect, CopyEndsEffect DEF ClientStep
<1> QED
  BY <1>4, <1>5

-----------------------------------------------------------------------------
(* From the records of the handlers to the slots of the pool.              *)

Holders   == {c \in Channels : Slot[c] # NoUser}
HeldBy(u) == {c \in Channels : Slot[c] = u}

\* The slots that are out are the serving handlers.
LEMMA SlotsAreServing ==
  ASSUME HandlersOK
  PROVE  /\ Holders = {c \in Channels : Serving(c)}
         /\ \A u \in Users : HeldBy(u) = ServingFor(u)
<1>1. \A c \in Channels : Serving(c) => chan[c].user \in Users
  BY DEF HandlersOK, WellFormed, Serving
<1> QED
  BY <1>1, MarkersFresh DEF Holders, HeldBy, Slot, ServingFor

LEMMA SlotOfEffect ==
  ASSUME TypeOK, NEW c \in Channels, NEW r, Effect(c, r)
  PROVE  /\ Slot' = [Slot EXCEPT ![c] = IF Holds(r) THEN r.user ELSE NoUser]
         /\ Slot[c] = IF Holds(chan[c]) THEN chan[c].user ELSE NoUser
BY DEF TypeOK, Slot, Serving, Holds, Effect

LEMMA HandlersOKStep ==
  ASSUME TypeOK, HandlersOK, NEW c \in Channels, NEW r, Effect(c, r)
  PROVE  HandlersOK' /\ chan' \in [Channels -> ChanType]
BY DEF HandlersOK, Effect, TypeOK

\* The slots can be counted.
SlotsCountable ==
  /\ IsFiniteSet(Holders) /\ Cardinality(Holders) \in Nat
  /\ \A u : IsFiniteSet(HeldBy(u)) /\ Cardinality(HeldBy(u)) \in Nat

LEMMA CountSlots == SlotsCountable
<1>1. Holders \subseteq Channels /\ \A u : HeldBy(u) \subseteq Channels
  BY DEF Holders, HeldBy
<1> QED
  BY <1>1, ChannelsFinite, FS_Subset, FS_CardinalityType DEF SlotsCountable

\* One channel takes a slot for u.
LEMMA TakeCounts ==
  ASSUME NEW c \in Channels, NEW u \in Users, Slot[c] = NoUser,
         Slot' = [Slot EXCEPT ![c] = u]
  PROVE  /\ Cardinality(Holders') = Cardinality(Holders) + 1
         /\ \A v \in Users : Cardinality(HeldBy(v)') =
              IF v = u THEN Cardinality(HeldBy(v)) + 1
              ELSE Cardinality(HeldBy(v))
<1>1. Holders' = Holders \cup {c} /\ c \notin Holders
  BY MarkersFresh DEF Holders, Slot
<1>2. HeldBy(u)' = HeldBy(u) \cup {c} /\ c \notin HeldBy(u)
  BY MarkersFresh DEF HeldBy, Slot
<1>3. \A v \in Users \ {u} : HeldBy(v)' = HeldBy(v)
  BY MarkersFresh DEF HeldBy, Slot
<1>4. Cardinality(Holders') = Cardinality(Holders) + 1
  BY <1>1, CountSlots, FS_AddElement DEF SlotsCountable
<1>5. Cardinality(HeldBy(u)') = Cardinality(HeldBy(u)) + 1
  BY <1>2, CountSlots, FS_AddElement DEF SlotsCountable
<1> QED
  BY <1>3, <1>4, <1>5

\* One channel gives the slot of u back.
LEMMA GiveCounts ==
  ASSUME NEW c \in Channels, NEW u \in Users, Slot[c] = u,
         Slot' = [Slot EXCEPT ![c] = NoUser]
  PROVE  /\ Cardinality(Holders') = Cardinality(Holders) - 1
         /\ \A v \in Users : Cardinality(HeldBy(v)') =
              IF v = u THEN Cardinality(HeldBy(v)) - 1
              ELSE Cardinality(HeldBy(v))
<1>1. Holders' = Holders \ {c} /\ c \in Holders
  BY MarkersFresh DEF Holders, Slot
<1>2. HeldBy(u)' = HeldBy(u) \ {c} /\ c \in HeldBy(u)
  BY MarkersFresh DEF HeldBy, Slot
<1>3. \A v \in Users \ {u} : HeldBy(v)' = HeldBy(v)
  BY MarkersFresh DEF HeldBy, Slot
<1>4. Cardinality(Holders') = Cardinality(Holders) - 1
  BY <1>1, CountSlots, FS_RemoveElement DEF SlotsCountable
<1>5. Cardinality(HeldBy(u)') = Cardinality(HeldBy(u)) - 1
  <2>1. IsFiniteSet(HeldBy(u))
    BY CountSlots DEF SlotsCountable
  <2>2. Cardinality(HeldBy(u) \ {c}) = Cardinality(HeldBy(u)) - 1
    BY <1>2, <2>1, FS_RemoveElement
  <2> QED BY <1>2, <2>2
<1> QED
  BY <1>3, <1>4, <1>5

\* CountersExact, in terms of the slots.
SlotsExact == /\ total = Cardinality(Holders)
              /\ \A u \in Users : perUser[u] = Cardinality(HeldBy(u))

LEMMA ExactInSlots == HandlersOK => (CountersExact <=> SlotsExact)
BY SlotsAreServing DEF CountersExact, SlotsExact

\* The instance counts with the same Cardinality.
LEMMA SameCardinality == \A S : Pool!Cardinality(S) = Cardinality(S)
BY DEF Pool!Cardinality, Cardinality, Pool!IsFiniteSet, IsFiniteSet

CountersTyped == /\ total \in 0 .. MaxSessions
                 /\ perUser \in [Users -> 0 .. MaxSessionsPerUser]

\* A step of a channel keeps the counters exact and within their limits, and
\* is a step of the slot pool.
LEMMA PoolStep ==
  ASSUME IInv, NEW c \in Channels, NEW r, Effect(c, r), HandlersOK'
  PROVE  CountersExact' /\ CountersTyped' /\ [Pool!Next]_Slot
<1>1. /\ total = Cardinality(Holders)
      /\ \A u \in Users : perUser[u] = Cardinality(HeldBy(u))
  BY ExactInSlots DEF IInv, SlotsExact
<1>2. SUFFICES /\ total' = Cardinality(Holders')
               /\ \A u \in Users : perUser'[u] = Cardinality(HeldBy(u)')
               /\ CountersTyped'
               /\ [Pool!Next]_Slot
  <2>1. (HandlersOK => (CountersExact <=> SlotsExact))'
    BY ExactInSlots, PTL
  <2> QED
    BY <2>1, <1>2 DEF SlotsExact
<1>3. /\ Slot' = [Slot EXCEPT ![c] = IF Holds(r) THEN r.user ELSE NoUser]
      /\ Slot[c] = IF Holds(chan[c]) THEN chan[c].user ELSE NoUser
  BY SlotOfEffect DEF IInv
<1>4. CountersTyped /\ total \in Nat /\ \A u \in Users : perUser[u] \in Nat
  BY LimitsPositive DEF IInv, TypeOK, CountersTyped
<1>5. CASE /\ Holds(r) <=> Holds(chan[c])
           /\ Holds(r) => r.user = chan[c].user
           /\ UNCHANGED counters
  <2>1. Slot' = Slot
    BY <1>3, <1>5 DEF Slot
  <2>2. Holders' = Holders /\ \A u : HeldBy(u)' = HeldBy(u)
    BY <2>1 DEF Holders, HeldBy
  <2> QED
    BY <1>1, <1>4, <1>5, <2>1, <2>2 DEF counters, CountersTyped
<1>6. CASE /\ ~Holds(chan[c]) /\ Holds(r)
           /\ SlotFree(r.user)
           /\ total' = total + 1
           /\ perUser' = [perUser EXCEPT ![r.user] = @ + 1]
  <2>1. r.user \in Users
    BY <1>6, HolderIsOpen DEF Effect, WellFormed
  <2>2. Slot[c] = NoUser /\ Slot' = [Slot EXCEPT ![c] = r.user]
    BY <1>3, <1>6
  <2>3. /\ Cardinality(Holders') = Cardinality(Holders) + 1
        /\ \A v \in Users : Cardinality(HeldBy(v)') =
             IF v = r.user THEN Cardinality(HeldBy(v)) + 1
             ELSE Cardinality(HeldBy(v))
    BY <2>1, <2>2, TakeCounts
  <2>4. total < MaxSessions /\ perUser[r.user] < MaxSessionsPerUser
    BY <1>6 DEF SlotFree
  <2>5. Pool!Take(c, r.user)
    BY <1>1, <2>1, <2>2, <2>4, SameCardinality
       DEF Pool!Take, Pool!Holders, Pool!HeldBy, Holders, HeldBy
  <2>6. CountersTyped'
    BY <1>4, <1>6, <2>1, <2>4, LimitsPositive DEF CountersTyped
  <2>7. /\ total' = Cardinality(Holders')
        /\ \A u \in Users : perUser'[u] = Cardinality(HeldBy(u)')
    BY <1>1, <1>4, <1>6, <2>1, <2>3 DEF CountersTyped
  <2> QED
    BY <2>1, <2>5, <2>6, <2>7 DEF Pool!Next
<1>7. CASE /\ Holds(chan[c]) /\ ~Holds(r)
           /\ Release(chan[c].user)
  <2> DEFINE u == chan[c].user
  <2>1. u \in Users
    BY <1>7, HolderIsOpen DEF IInv, HandlersOK, WellFormed
  <2>2. Slot[c] = u /\ Slot' = [Slot EXCEPT ![c] = NoUser]
    BY <1>3, <1>7
  <2>3. /\ Cardinality(Holders') = Cardinality(Holders) - 1
        /\ \A v \in Users : Cardinality(HeldBy(v)') =
             IF v = u THEN Cardinality(HeldBy(v)) - 1
             ELSE Cardinality(HeldBy(v))
    BY <2>1, <2>2, GiveCounts
  <2>4. Cardinality(Holders') \in Nat
        /\ \A v : Cardinality(HeldBy(v)') \in Nat
    <3>1. SlotsCountable'
      BY CountSlots, PTL
    <3> QED
      BY <3>1 DEF SlotsCountable
  <2>5. total - 1 \in Nat /\ perUser[u] - 1 \in Nat
    BY <1>1, <2>1, <2>3, <2>4
  <2>6. total' = total - 1 /\ perUser' = [perUser EXCEPT ![u] = @ - 1]
    <3>1. (IF perUser[u] - 1 <= 0 THEN 0 ELSE perUser[u] - 1) = perUser[u] - 1
      BY <2>5
    <3> QED
      BY <1>7, <3>1 DEF Release
  <2>7. Pool!Give(c)
    BY <2>1, <2>2, MarkersFresh DEF Pool!Give
  <2>8. CountersTyped'
    BY <1>4, <2>1, <2>5, <2>6, LimitsPositive DEF CountersTyped
  <2>9. /\ total' = Cardinality(Holders')
        /\ \A v \in Users : perUser'[v] = Cardinality(HeldBy(v)')
    BY <1>1, <1>4, <2>1, <2>3, <2>6 DEF CountersTyped
  <2> QED
    BY <2>7, <2>8, <2>9 DEF Pool!Next
<1> QED
  BY <1>5, <1>6, <1>7 DEF Effect, SlotEffect

-----------------------------------------------------------------------------
(* The tables and the history.                                             *)

TablesTyped ==
  /\ role \in [Users -> {"admin", "member"}]
  /\ account \in [Users -> {"enabled", "disabled", "deleted"}]
  /\ target \in [Targets -> {"enabled", "disabled", "deleted"}]
  /\ grants \in [Principals \X Targets -> (SUBSET Caps) \cup {NoGrant}]
  /\ members \in SUBSET (Groups \X Users)
  /\ rules \in SUBSET Targets
  /\ ugen \in [Users -> Nat \ {0}]
  /\ tgen \in [Targets -> Nat \ {0}]
  /\ changes \in 0 .. MaxChanges

LEMMA AdminChangeTyped ==
  ASSUME TablesTyped, AdminChange
  PROVE  TablesTyped'
<1>1. changes' \in 0 .. MaxChanges
  BY MaxChangesNat DEF TablesTyped, AdminChange
<1>2. \A u \in Users, b \in BOOLEAN : SetUserEnabled(u, b) => TablesTyped'
  BY <1>1 DEF TablesTyped, SetUserEnabled
<1>3. \A u \in Users, r \in {"admin", "member"} :
        SetUserRole(u, r) => TablesTyped'
  BY <1>1 DEF TablesTyped, SetUserRole
<1>4. \A u \in Users : DeleteUser(u) => TablesTyped'
  BY <1>1 DEF TablesTyped, DeleteUser
<1>5. \A g \in Groups, u \in Users, b \in BOOLEAN :
        SetGroupMember(g, u, b) => TablesTyped'
  BY <1>1 DEF TablesTyped, SetGroupMember
<1>6. \A t \in Targets, b \in BOOLEAN : SetTargetEnabled(t, b) => TablesTyped'
  BY <1>1 DEF TablesTyped, SetTargetEnabled
<1>7. \A t \in Targets : DeleteTarget(t) => TablesTyped'
  BY <1>1 DEF TablesTyped, DeleteTarget
<1>8. \A t \in Targets, b \in BOOLEAN : SetForwardRule(t, b) => TablesTyped'
  BY <1>1 DEF TablesTyped, SetForwardRule
<1>9. \A p \in Principals, t \in Targets, s \in GrantSets \cup {NoGrant} :
        SetGrantCapabilities(p, t, s) => TablesTyped'
  BY <1>1, GrantSetsOK DEF TablesTyped, SetGrantCapabilities
<1>10. \A g \in Groups : DeleteGroup(g) => TablesTyped'
  BY <1>1 DEF TablesTyped, DeleteGroup
<1>11. \A u \in Users, r \in {"admin", "member"} : AddUser(u, r) => TablesTyped'
  BY <1>1 DEF TablesTyped, AddUser
<1>12. \A t \in Targets : AddTarget(t) => TablesTyped'
  BY <1>1 DEF TablesTyped, AddTarget
<1> QED
  BY <1>2, <1>3, <1>4, <1>5, <1>6, <1>7, <1>8, <1>9, <1>10, <1>11, <1>12
     DEF AdminChange, UserChange, TargetChange

LEMMA TypeOKParts ==
  TypeOK <=> /\ TablesTyped /\ CountersTyped
             /\ chan \in [Channels -> ChanType]
             /\ gone \in SUBSET Channels
             /\ seen \in SUBSET (Channels \X {"access", "rule", "otherRow"})
BY DEF TypeOK, TablesTyped, CountersTyped

LEMMA ObserveTyped ==
  ASSUME Observe
  PROVE  seen' \in SUBSET (Channels \X {"access", "rule", "otherRow"})
BY DEF Observe

\* A step that leaves handlers and counters alone.
LEMMA HandlersStutter ==
  ASSUME IInv, UNCHANGED <<counters, chan>>
  PROVE  HandlersOK' /\ CountersExact' /\ CountersTyped' /\ Slot' = Slot
<1>1. CountersTyped
  BY DEF IInv, TypeOK, CountersTyped
<1> QED
  BY <1>1 DEF IInv, HandlersOK, WellFormed, CountersExact, CountersTyped,
     counters, Serving, ServingFor, Slot

-----------------------------------------------------------------------------
(* The invariant and the refinement.                                       *)

LEMMA InitIInv == Init => IInv /\ Pool!Init
<1> SUFFICES ASSUME Init PROVE IInv /\ Pool!Init
  OBVIOUS
<1>1. chan \in [Channels -> ChanType] /\ \A c \in Channels : chan[c] = Closed
  BY ClosedHoldsNone DEF Init
<1>2. TypeOK
  <2>1. TablesTyped
    BY MaxChangesNat DEF Init, TablesTyped
  <2>2. CountersTyped
    BY LimitsPositive DEF Init, CountersTyped
  <2> QED
    BY <1>1, <2>1, <2>2, TypeOKParts DEF Init
<1>3. \A c \in Channels : ~Serving(c)
  BY <1>1 DEF Serving, Closed
<1>4. HandlersOK
  BY <1>1, ClosedHoldsNone DEF HandlersOK, WellFormed, Checked
<1>5. {c \in Channels : Serving(c)} = {} /\ \A u : ServingFor(u) = {}
  BY <1>3 DEF ServingFor
<1>6. CountersExact
  BY <1>5, FS_EmptySet DEF CountersExact, Init
<1>7. Pool!Init
  BY <1>3 DEF Pool!Init, Slot
<1> QED
  BY <1>2, <1>4, <1>6, <1>7 DEF IInv

LEMMA NextIInv == IInv /\ [Next]_vars => IInv' /\ [Pool!Next]_Slot
<1> SUFFICES ASSUME IInv, [Next]_vars PROVE IInv' /\ [Pool!Next]_Slot
  OBVIOUS
<1>1. (TypeOK <=> /\ TablesTyped /\ CountersTyped
                  /\ chan \in [Channels -> ChanType]
                  /\ gone \in SUBSET Channels
                  /\ seen \in SUBSET (Channels \X {"access", "rule", "otherRow"}))'
  BY TypeOKParts, PTL
<1>2. TablesTyped /\ TypeOK
  BY TypeOKParts DEF IInv
<1>3. CASE UNCHANGED vars
  <2>1. HandlersOK' /\ CountersExact' /\ CountersTyped' /\ Slot' = Slot
    BY <1>3, HandlersStutter DEF vars, counters
  <2>2. TablesTyped'
    BY <1>2, <1>3 DEF TablesTyped, vars
  <2>3. TypeOK'
    BY <1>1, <1>2, <1>3, <2>1, <2>2 DEF vars, TypeOK
  <2> QED
    BY <2>1, <2>3 DEF IInv
<1>4. CASE AdminChange /\ Observe
  <2>1. HandlersOK' /\ CountersExact' /\ CountersTyped' /\ Slot' = Slot
    BY <1>4, HandlersStutter DEF AdminChange
  <2>2. TypeOK'
    BY <1>1, <1>2, <1>4, <2>1, AdminChangeTyped, ObserveTyped
       DEF AdminChange, TypeOK
  <2> QED
    BY <2>1, <2>2 DEF IInv
<1>5. ASSUME NEW c \in Channels, HandlerStep(c) \/ ClientStep(c), Observe
      PROVE  IInv' /\ [Pool!Next]_Slot
  <2>1. PICK r : Effect(c, r)
    BY <1>5, ChannelEffect DEF IInv
  <2>2. HandlersOK' /\ chan' \in [Channels -> ChanType]
    BY <2>1, HandlersOKStep DEF IInv
  <2>3. CountersExact' /\ CountersTyped' /\ [Pool!Next]_Slot
    BY <2>1, <2>2, PoolStep
  <2>4. TablesTyped'
    BY <1>2, <1>5 DEF HandlerStep, ClientStep, tables, TablesTyped
  <2>5. TypeOK'
    BY <1>1, <1>5, <2>1, <2>2, <2>3, <2>4, ObserveTyped DEF Effect
  <2> QED
    BY <2>2, <2>3, <2>5 DEF IInv
<1> QED
  BY <1>3, <1>4, <1>5 DEF Next

\* The inductive invariant holds in every reachable state.
THEOREM GatewayInvariant == Spec => []IInv
BY InitIInv, NextIInv, PTL DEF Spec

\* Types, and the counters of the Server stay between zero and the limits.
THEOREM GatewayTypeCorrect == Spec => []TypeOK
<1>1. IInv => TypeOK
  BY DEF IInv
<1> QED
  BY <1>1, GatewayInvariant, PTL

\* The counters are the number of handlers between acquire and release.
THEOREM GatewayCountersExact == Spec => []CountersExact
<1>1. IInv => CountersExact
  BY DEF IInv
<1> QED
  BY <1>1, GatewayInvariant, PTL

\* The handlers implement the slot pool: the session limits hold.
THEOREM GatewayLimitsEnforced == Spec => LimitsEnforced
BY InitIInv, NextIInv, PTL DEF Spec, LimitsEnforced, Pool!Spec

-----------------------------------------------------------------------------
(***************************************************************************)
(* Nobody reaches Dial unentitled, for any number of channels, users and   *)
(* targets and any administrative changes, rows that take over an id       *)
(* included, but where a query of the handler found another row.           *)
(*                                                                         *)
(* The invariant DialsWereEntitled is strengthened along the control flow: *)
(* what the last check of a handler established is remembered at every     *)
(* step between that check and Dial, and the handler carries the target it *)
(* was checked for.                                                        *)
(***************************************************************************)

\* Steps of a forward after its destination was allowed.
RuleChecked(r) == r.kind = "forward" /\ r.pc \in {"acquire", "dial", "proxy"}

\* What is known of the handler of c when its record is r.
Justified(c, r, S) ==
  <<c, "otherRow">> \notin S =>
    /\ Checked(r) => <<c, "access">> \in S
    /\ RuleChecked(r) => <<c, "rule">> \in S

AllJustified == \A c \in Channels : Justified(c, chan[c], seen)

AInv == IInv /\ AllJustified

-----------------------------------------------------------------------------
\* A handler past a check has a request.
LEMMA CheckedRequests ==
  ASSUME NEW c \in Channels, HandlersOK', Checked(chan'[c])
  PROVE  Requesting(c)'
BY MarkersFresh DEF HandlersOK, WellFormed, Checked, Requesting

\* What was seen of a request stays seen while the handler is past a check.
LEMMA SeenStays ==
  ASSUME NEW c \in Channels, HandlersOK', Observe, Checked(chan'[c]),
         NEW x \in {"access", "rule", "otherRow"}, <<c, x>> \in seen
  PROVE  <<c, x>> \in seen'
BY CheckedRequests DEF Observe

\* A step of c that enters no new check region, and the other handlers.
LEMMA MoveJustified ==
  ASSUME AllJustified, HandlersOK', Observe, NEW c \in Channels,
         Checked(chan'[c]) => Checked(chan[c]),
         RuleChecked(chan'[c]) => RuleChecked(chan[c])
  PROVE  Justified(c, chan'[c], seen')
<1>1. RuleChecked(chan'[c]) => Checked(chan'[c])
  BY DEF RuleChecked, Checked
<1>2. Justified(c, chan[c], seen)
  BY DEF AllJustified
<1> QED
  BY <1>1, <1>2, SeenStays DEF Justified

\* Passing the access check is what is observed, or another row is.
LEMMA PassSeen ==
  ASSUME NEW c \in Channels, HandlersOK', Passes(c), Observe, UNCHANGED tables,
         chan[c].pc = "check", chan'[c].pc \in {"fetch", "rule", "dial"},
         chan'[c].kind = chan[c].kind, chan'[c].user = chan[c].user,
         chan'[c].ugen = chan[c].ugen, chan'[c].role = chan[c].role,
         chan'[c].target = chan[c].target,
         chan'[c].row = IF chan[c].kind = "menu" THEN tgen[chan[c].target]
                        ELSE chan[c].row
  PROVE  <<c, "access">> \in seen' \/ <<c, "otherRow">> \in seen'
<1>1. Requesting(c)'
  BY CheckedRequests DEF Checked
<1>2. CASE FindsOtherRow(c)
  BY <1>1, <1>2 DEF Observe
<1>3. CASE ~FindsOtherRow(c)
  <2>1. SameUser(c)
    BY <1>3 DEF FindsOtherRow
  <2>2. chan[c].kind # "menu" => SameTarget(c)
    BY <1>3 DEF FindsOtherRow
  <2>3. SameUser(c)' /\ SameTarget(c)'
    BY <2>1, <2>2 DEF SameUser, SameTarget, tables
  <2>4. CanAccessCapability(chan[c].role, chan[c].user, chan[c].target,
                            CapabilityOf(chan[c].kind))'
    BY DEF Passes, CanAccessCapability, CapabilityOf, Has, GroupsOf, tables
  <2>5. EntitledAsRead(c)'
    BY <1>1, <2>3, <2>4 DEF EntitledAsRead, CapabilityOf, CanAccessCapability,
       Has, GroupsOf
  <2> QED
    BY <1>1, <2>5 DEF Observe
<1> QED
  BY <1>2, <1>3

LEMMA RuleSeen ==
  ASSUME NEW c \in Channels, HandlersOK', Observe, UNCHANGED tables,
         chan[c].target \in rules, chan[c].pc = "rule",
         chan'[c].pc = "acquire", chan'[c].kind = "forward",
         chan'[c].target = chan[c].target, chan'[c].row = chan[c].row
  PROVE  <<c, "rule">> \in seen' \/ <<c, "otherRow">> \in seen'
<1>1. Requesting(c)'
  BY CheckedRequests DEF Checked
<1>2. CASE SameTarget(c)
  <2>1. SameTarget(c)' /\ chan'[c].target \in rules'
    BY <1>2 DEF SameTarget, tables
  <2> QED
    BY <1>1, <2>1 DEF Observe
<1>3. CASE ~SameTarget(c)
  BY <1>1, <1>3 DEF Observe, FindsOtherRow
<1> QED
  BY <1>2, <1>3

-----------------------------------------------------------------------------
(* One lemma per action of a channel.                                      *)

LEMMA GotoRecord ==
  ASSUME TypeOK, NEW c \in Channels, NEW pc, Goto(c, pc)
  PROVE  /\ chan'[c].pc = pc /\ chan'[c].kind = chan[c].kind
         /\ chan'[c].user = chan[c].user /\ chan'[c].role = chan[c].role
         /\ chan'[c].ugen = chan[c].ugen
         /\ chan'[c].target = chan[c].target /\ chan'[c].row = chan[c].row
BY DEF TypeOK, ChanType, Goto

LEMMA StateRecord ==
  ASSUME TypeOK, NEW c \in Channels, StateFromContext(c), ~Close(c)
  PROVE  /\ \E u \in Users :
              /\ account[u] = "enabled" /\ chan'[c].user = u
              /\ chan'[c].ugen = ugen[u] /\ chan'[c].role = role[u]
         /\ chan'[c].pc = IF chan[c].kind = "forward" THEN "lookup" ELSE "acquire"
         /\ chan'[c].kind = chan[c].kind
<1> DEFINE pc == IF chan[c].kind = "forward" THEN "lookup" ELSE "acquire"
<1>1. PICK u \in Users :
        /\ account[u] = "enabled"
        /\ chan' = [chan EXCEPT ![c].user = u, ![c].ugen = ugen[u],
                                ![c].role = role[u], ![c].pc = pc]
  BY DEF StateFromContext
<1>2. chan \in [Channels -> ChanType] /\ chan[c] \in ChanType
  BY DEF TypeOK
<1>3. /\ chan'[c].user = u /\ chan'[c].ugen = ugen[u]
      /\ chan'[c].role = role[u] /\ chan'[c].pc = pc
      /\ chan'[c].kind = chan[c].kind
  BY <1>1, <1>2 DEF ChanType
<1> QED
  BY <1>1, <1>3

LEMMA TargetRecord ==
  ASSUME TypeOK, NEW c \in Channels,
         \/ \E t \in Targets : MenuSelect(c, t)
         \/ Lookup(c) /\ ~Close(c) /\ ~Fail(c)
  PROVE  /\ chan[c].pc \in {"menu", "lookup"} /\ chan'[c].pc = "check"
         /\ chan'[c].user = chan[c].user /\ chan'[c].kind = chan[c].kind
         /\ chan'[c].role = chan[c].role /\ chan'[c].ugen = chan[c].ugen
<1>1. chan \in [Channels -> ChanType] /\ chan[c] \in ChanType
  BY DEF TypeOK
<1>2. ASSUME NEW t \in Targets, MenuSelect(c, t)
      PROVE  /\ chan[c].pc = "menu" /\ chan'[c].pc = "check"
             /\ chan'[c].user = chan[c].user /\ chan'[c].kind = chan[c].kind
             /\ chan'[c].role = chan[c].role /\ chan'[c].ugen = chan[c].ugen
  BY <1>1, <1>2 DEF MenuSelect, ChanType
<1>3. ASSUME Lookup(c), ~Close(c), ~Fail(c)
      PROVE  /\ chan[c].pc = "lookup" /\ chan'[c].pc = "check"
             /\ chan'[c].user = chan[c].user /\ chan'[c].kind = chan[c].kind
             /\ chan'[c].role = chan[c].role /\ chan'[c].ugen = chan[c].ugen
  <2>1. PICK t \in Targets :
          chan' = [chan EXCEPT ![c].pc = "check", ![c].target = t, ![c].row = tgen[t]]
    BY <1>3 DEF Lookup
  <2> QED
    BY <1>1, <1>3, <2>1 DEF Lookup, ChanType
<1> QED
  BY <1>2, <1>3

\* Steps that end before, or fall back behind, the checks.
LEMMA UncheckedJustified ==
  ASSUME NEW c \in Channels,
         chan'[c].pc \in {"done", "state", "load", "menu", "scan", "lookup", "check",
                         "end"}
  PROVE  Justified(c, chan'[c], seen')
BY DEF Justified, Checked, RuleChecked

LEMMA FailJustified ==
  ASSUME TypeOK, NEW c \in Channels, Fail(c)
  PROVE  Justified(c, chan'[c], seen')
<1>1. chan'[c].pc \in {"load", "end"}
  BY GotoRecord DEF Fail
<1> QED
  BY <1>1, UncheckedJustified

LEMMA CloseJustified ==
  ASSUME TypeOK, NEW c \in Channels, Close(c) \/ CloseAndRelease(c)
  PROVE  Justified(c, chan'[c], seen')
<1>1. chan'[c].pc = "done"
  BY DEF Close, CloseAndRelease, Closed, TypeOK
<1> QED
  BY <1>1, UncheckedJustified

LEMMA StateFromContextJustified ==
  ASSUME TypeOK, NEW c \in Channels, StateFromContext(c)
  PROVE  Justified(c, chan'[c], seen')
<1>1. CASE Close(c)
  BY <1>1, CloseJustified
<1>2. CASE ~Close(c)
  <2>1. /\ chan'[c].pc = IF chan[c].kind = "forward" THEN "lookup" ELSE "acquire"
        /\ chan'[c].kind = chan[c].kind
    BY <1>2, StateRecord
  <2> QED
    BY <2>1 DEF Justified, Checked, RuleChecked
<1> QED
  BY <1>1, <1>2

LEMMA AcquireJustified ==
  ASSUME TypeOK, HandlersOK', AllJustified, Observe, NEW c \in Channels,
         Acquire(c)
  PROVE  Justified(c, chan'[c], seen')
<1>1. CASE Close(c)
  BY <1>1, CloseJustified
<1>2. CASE ~Close(c)
  <2> DEFINE pc == CASE chan[c].kind = "menu"    -> "load"
                     [] chan[c].kind = "forward" -> "dial"
                     [] OTHER                    -> "lookup"
  <2>1. Goto(c, pc) /\ chan[c].pc = "acquire"
    BY <1>2 DEF Acquire
  <2>2. chan'[c].pc = pc /\ chan'[c].kind = chan[c].kind
    BY <2>1, GotoRecord
  <2>3. /\ Checked(chan'[c]) => Checked(chan[c])
        /\ RuleChecked(chan'[c]) => RuleChecked(chan[c])
    BY <2>1, <2>2 DEF Checked, RuleChecked
  <2> QED
    BY <2>3, MoveJustified
<1> QED
  BY <1>1, <1>2

\* A menu and the lookup of a target are in front of the checks.
LEMMA BeforeJustified ==
  ASSUME TypeOK, NEW c \in Channels,
         \/ \E k \in Kinds : Open(c, k)
         \/ \E t \in Targets : MenuSelect(c, t)
         \/ Load(c) \/ Reload(c) \/ Lookup(c) \/ MenuScan(c) \/ ScanEnds(c)
  PROVE  Justified(c, chan'[c], seen')
<1>1. CASE Close(c) \/ CloseAndRelease(c) \/ Fail(c)
  BY <1>1, CloseJustified, FailJustified
<1>2. CASE \E k \in Kinds : Open(c, k)
  <2>1. chan'[c].pc = "state"
    BY <1>2 DEF Open, Closed, TypeOK
  <2> QED BY <2>1, UncheckedJustified
<1>3. CASE \E t \in Targets : MenuSelect(c, t)
  <2>1. chan'[c].pc = "check"
    BY <1>3, TargetRecord
  <2> QED BY <2>1, UncheckedJustified
<1>4. CASE Load(c) /\ ~CloseAndRelease(c)
  <2>1. chan'[c].pc = "menu"
    BY <1>4 DEF Load, TypeOK, ChanType
  <2> QED BY <2>1, UncheckedJustified
<1>5. CASE Reload(c)
  <2>1. chan'[c].pc = "menu"
    BY <1>5 DEF Reload, TypeOK, ChanType
  <2> QED BY <2>1, UncheckedJustified
<1>6. CASE Lookup(c) /\ ~Close(c) /\ ~Fail(c)
  <2>1. chan'[c].pc = "check"
    BY <1>6, TargetRecord
  <2> QED BY <2>1, UncheckedJustified
<1>7. CASE MenuScan(c) \/ ScanEnds(c)
  <2>1. chan'[c].pc \in {"menu", "scan"}
    BY <1>7, GotoRecord DEF MenuScan, ScanEnds
  <2> QED BY <2>1, UncheckedJustified
<1> QED
  BY <1>1, <1>2, <1>3, <1>4, <1>5, <1>6, <1>7

\* The access check is what justifies the steps behind it.
LEMMA CheckJustified ==
  ASSUME TypeOK, HandlersOK', Observe, NEW c \in Channels, Check(c),
         UNCHANGED tables
  PROVE  Justified(c, chan'[c], seen')
<1>1. CASE Close(c) \/ Fail(c)
  BY <1>1, CloseJustified, FailJustified
<1>2. CASE ~Close(c) /\ ~Fail(c)
  <2>1. /\ Passes(c) /\ chan[c].pc = "check"
        /\ chan'[c].pc = CASE chan[c].kind = "menu"    -> "fetch"
                           [] chan[c].kind = "forward" -> "rule"
                           [] OTHER                    -> "dial"
        /\ chan'[c].row = IF chan[c].kind = "menu" THEN tgen[chan[c].target]
                          ELSE chan[c].row
        /\ chan'[c].kind = chan[c].kind /\ chan'[c].user = chan[c].user
        /\ chan'[c].ugen = chan[c].ugen /\ chan'[c].role = chan[c].role
        /\ chan'[c].target = chan[c].target
    BY <1>2 DEF Check, TypeOK, ChanType
  <2>2. chan'[c].pc \in {"fetch", "rule", "dial"}
    BY <2>1
  <2>3. <<c, "access">> \in seen' \/ <<c, "otherRow">> \in seen'
    BY <2>1, <2>2, PassSeen
  <2>4. ~RuleChecked(chan'[c])
    BY <2>1 DEF RuleChecked
  <2> QED
    BY <2>3, <2>4 DEF Justified
<1> QED
  BY <1>1, <1>2

\* So is the allowlist for a forward.
LEMMA RuleJustified ==
  ASSUME TypeOK, HandlersOK, HandlersOK', AllJustified, Observe,
         NEW c \in Channels, Rule(c), UNCHANGED tables
  PROVE  Justified(c, chan'[c], seen')
<1>1. CASE Close(c)
  BY <1>1, CloseJustified
<1>2. CASE ~Close(c)
  <2>1. /\ chan[c].pc = "rule" /\ chan[c].kind = "forward"
        /\ chan[c].target \in rules /\ Goto(c, "acquire")
    BY <1>2 DEF Rule, HandlersOK, WellFormed, ForwardAllowed
  <2>2. /\ chan'[c].pc = "acquire" /\ chan'[c].kind = "forward"
        /\ chan'[c].target = chan[c].target /\ chan'[c].row = chan[c].row
    BY <2>1, GotoRecord
  <2>3. <<c, "rule">> \in seen' \/ <<c, "otherRow">> \in seen'
    BY <2>1, <2>2, RuleSeen
  <2>4. Checked(chan'[c]) /\ Checked(chan[c])
    BY <2>1, <2>2 DEF Checked
  <2>5. <<c, "access">> \in seen' \/ <<c, "otherRow">> \in seen'
    BY <2>4, SeenStays DEF AllJustified, Justified
  <2> QED
    BY <2>3, <2>5 DEF Justified
<1> QED
  BY <1>1, <1>2

LEMMA FetchJustified ==
  ASSUME TypeOK, HandlersOK, HandlersOK', AllJustified, Observe,
         NEW c \in Channels, Fetch(c)
  PROVE  Justified(c, chan'[c], seen')
<1>1. CASE Fail(c)
  BY <1>1, FailJustified
<1>2. CASE ~Fail(c)
  <2>1. chan[c].pc = "fetch" /\ chan[c].kind = "menu"
    BY DEF Fetch, HandlersOK, WellFormed
  <2>2. chan'[c].pc = "dial" /\ chan'[c].kind = "menu"
    BY <1>2, <2>1 DEF Fetch, TypeOK, ChanType
  <2> QED
    BY <2>1, <2>2, MoveJustified DEF Checked, RuleChecked
<1> QED
  BY <1>1, <1>2

\* Dial and CopyEnds stay behind the checks, or fall back.
LEMMA ConnectedJustified ==
  ASSUME AllJustified, HandlersOK', Observe, NEW c \in Channels,
         chan[c].pc \in {"dial", "proxy"}, chan'[c].pc \in {"proxy", "end"},
         chan'[c].kind = chan[c].kind
  PROVE  Justified(c, chan'[c], seen')
BY MoveJustified DEF Checked, RuleChecked

LEMMA ChannelJustified ==
  ASSUME TypeOK, HandlersOK, HandlersOK', AllJustified, Observe,
         NEW c \in Channels, HandlerStep(c) \/ ClientStep(c)
  PROVE  Justified(c, chan'[c], seen')
<1>1. UNCHANGED tables
  BY DEF HandlerStep, ClientStep
<1>2. ASSUME Dial(c) PROVE Justified(c, chan'[c], seen')
  <2>1. CASE Fail(c)
    BY <2>1, FailJustified
  <2>2. CASE ~Fail(c)
    <3>1. chan[c].pc = "dial" /\ chan'[c].pc = "proxy"
          /\ chan'[c].kind = chan[c].kind
      BY <1>2, <2>2 DEF Dial, TypeOK, ChanType
    <3> QED
      BY <3>1, ConnectedJustified
  <2> QED
    BY <2>1, <2>2
<1>3. ASSUME NEW d \in {"up", "down"}, CopyEnds(c, d)
      PROVE  Justified(c, chan'[c], seen')
  <2>1. chan[c].pc = "proxy" /\ chan'[c].pc \in {"proxy", "end"}
        /\ chan'[c].kind = chan[c].kind
    BY <1>3 DEF CopyEnds, TypeOK, ChanType
  <2> QED
    BY <2>1, ConnectedJustified
<1>4. ASSUME End(c) \/ MenuQuit(c) PROVE Justified(c, chan'[c], seen')
  BY <1>4, CloseJustified DEF End, MenuQuit
<1>5. ASSUME ProxyEnds(c) PROVE Justified(c, chan'[c], seen')
  BY <1>5, FailJustified DEF ProxyEnds
<1>6. ASSUME ClientGone(c) PROVE Justified(c, chan'[c], seen')
  BY <1>6, MoveJustified DEF ClientGone
<1>7. CASE HandlerStep(c)
  BY <1>1, <1>2, <1>4, <1>7, StateFromContextJustified, AcquireJustified,
     BeforeJustified, CheckJustified, RuleJustified, FetchJustified
     DEF HandlerStep
<1>8. CASE ClientStep(c)
  BY <1>3, <1>4, <1>5, <1>6, <1>8, BeforeJustified DEF ClientStep
<1> QED
  BY <1>7, <1>8

-----------------------------------------------------------------------------
LEMMA InitAInv == Init => AInv
<1> SUFFICES ASSUME Init PROVE AInv
  OBVIOUS
<1>1. IInv
  BY InitIInv
<1>2. \A c \in Channels : Justified(c, chan[c], seen)
  BY DEF Init, Closed, Justified, Checked, RuleChecked
<1> QED
  BY <1>1, <1>2 DEF AInv, AllJustified

LEMMA NextAInv == AInv /\ [Next]_vars => AInv'
<1> SUFFICES ASSUME AInv, [Next]_vars PROVE AInv'
  OBVIOUS
<1>1. IInv' /\ TypeOK /\ HandlersOK /\ HandlersOK' /\ AllJustified
  BY NextIInv DEF AInv, IInv
<1>2. CASE UNCHANGED vars
  BY <1>1, <1>2 DEF vars, AInv, AllJustified
<1>3. CASE AdminChange /\ Observe
  <2>1. chan' = chan
    BY <1>3 DEF AdminChange
  <2> QED
    BY <1>1, <1>3, <2>1, MoveJustified DEF AInv, AllJustified
<1>4. ASSUME NEW c \in Channels, HandlerStep(c) \/ ClientStep(c), Observe
      PROVE  AInv'
  <2>1. PICK r : Effect(c, r)
    BY <1>1, <1>4, ChannelEffect
  <2>2. ASSUME NEW d \in Channels, d # c PROVE chan'[d] = chan[d]
    BY <1>1, <2>1, <2>2 DEF Effect, TypeOK
  <2>3. ASSUME NEW d \in Channels PROVE Justified(d, chan'[d], seen')
    <3>1. CASE d = c
      BY <1>1, <1>4, <3>1, ChannelJustified
    <3>2. CASE d # c
      BY <1>1, <1>4, <2>2, <3>2, MoveJustified
    <3> QED
      BY <3>1, <3>2
  <2> QED
    BY <1>1, <2>3 DEF AInv, AllJustified
<1> QED
  BY <1>2, <1>3, <1>4 DEF Next

\* Every connection to a target was entitled after it was requested.
THEOREM GatewayDialsWereEntitled == Spec => []DialsWereEntitled
<1>1. AInv => DialsWereEntitled
  BY DEF AInv, AllJustified, Justified, Checked, RuleChecked, DialsWereEntitled
<1> QED
  BY <1>1, InitAInv, NextAInv, PTL DEF Spec


-----------------------------------------------------------------------------
(* What the check of an open menu is worth.                                *)

\* Nobody is disabled, deleted, replaced or given another role while a menu of theirs
\* is open.
AccountsKept ==
  [][\A c \in Channels :
       LET u == chan[c].user IN
       chan[c].kind = "menu" /\ chan[c].pc \notin {"done", "state"} =>
         /\ account'[u] = account[u] /\ role'[u] = role[u]
         /\ ugen'[u] = ugen[u]]_vars

\* Then the row a menu has read is the one in the database.
Current(r) == r.kind = "menu" /\ r.pc \notin {"done", "state"} =>
                /\ account[r.user] = "enabled" /\ role[r.user] = r.role
                /\ ugen[r.user] = r.ugen

RowsCurrent == \A c \in Channels : Current(chan[c])

\* A handler keeps the user row it has read.
SameRow(q, r) == r.user = q.user /\ r.kind = q.kind /\ r.role = q.role /\ r.ugen = q.ugen

LEMMA RowOfHandler ==
  ASSUME TypeOK, NEW c \in Channels, HandlerStep(c) \/ ClientStep(c),
         chan'[c].pc \notin {"done", "state"}
  PROVE  \/ chan[c].pc \notin {"done", "state"} /\ SameRow(chan[c], chan'[c])
         \/ /\ chan'[c].user \in Users /\ account[chan'[c].user] = "enabled"
            /\ chan'[c].role = role[chan'[c].user]
            /\ chan'[c].ugen = ugen[chan'[c].user]
            /\ chan[c].pc = "state"
<1> DEFINE Kept == chan[c].pc \notin {"done", "state"} /\ SameRow(chan[c], chan'[c])
<1>1. chan \in [Channels -> ChanType] /\ chan[c] \in ChanType
  BY DEF TypeOK
<1>2. ASSUME Close(c) \/ CloseAndRelease(c) PROVE FALSE
  BY <1>1, <1>2 DEF Close, CloseAndRelease, Closed
<1>3. ASSUME chan[c].pc \notin {"done", "state"}, NEW x, Goto(c, x)
      PROVE  Kept
  BY <1>3, GotoRecord DEF SameRow
<1>4. CASE StateFromContext(c)
  BY <1>2, <1>4, StateRecord DEF StateFromContext
<1>5. ASSUME Acquire(c) \/ Rule(c) PROVE Kept
  BY <1>2, <1>3, <1>5 DEF Acquire, Rule
<1>6. ASSUME Load(c) \/ Dial(c) PROVE Kept
  BY <1>1, <1>2, <1>3, <1>6 DEF Load, Dial, Fail, ChanType, SameRow
<1>7. ASSUME End(c) \/ MenuQuit(c) \/ ProxyEnds(c) \/ MenuScan(c) \/ ScanEnds(c)
      PROVE  Kept
  BY <1>2, <1>3, <1>7 DEF End, MenuQuit, ProxyEnds, MenuScan, ScanEnds, Fail
<1>8. CASE \E k \in Kinds : Open(c, k)
  BY <1>1, <1>8 DEF Open, Closed
<1>9. ASSUME NEW t \in Targets, MenuSelect(c, t) PROVE Kept
  BY <1>9, TargetRecord DEF SameRow
<1>10. ASSUME Reload(c) PROVE Kept
  <2> DEFINE L == IF c \in gone THEN {} ELSE Listed(chan[c].role, chan[c].user)
  <2>1. chan[c].pc = "menu" /\ chan' = [chan EXCEPT ![c].listed = L]
    BY <1>10 DEF Reload
  <2> HIDE DEF L
  <2> QED BY <1>1, <2>1 DEF ChanType, SameRow
<1>11. ASSUME NEW d \in {"up", "down"}, CopyEnds(c, d) PROVE Kept
  BY <1>1, <1>11 DEF CopyEnds, ChanType, SameRow
<1>12. ASSUME ClientGone(c) PROVE Kept
  BY <1>12 DEF ClientGone, SameRow
<1>13. ASSUME Lookup(c) PROVE Kept
  <2>1. CASE Close(c) \/ Fail(c)
    BY <1>2, <1>3, <1>13, <2>1 DEF Lookup, Fail
  <2>2. CASE ~Close(c) /\ ~Fail(c)
    BY <1>13, <2>2, TargetRecord DEF SameRow
  <2> QED BY <2>1, <2>2
<1>14. ASSUME Check(c) PROVE Kept
  <2>1. CASE Close(c) \/ Fail(c)
    BY <1>2, <1>3, <1>14, <2>1 DEF Check, Fail
  <2>2. CASE ~Close(c) /\ ~Fail(c)
    BY <1>1, <1>14, <2>2 DEF Check, ChanType, SameRow
  <2> QED BY <2>1, <2>2
<1>15. ASSUME Fetch(c) PROVE Kept
  <2>1. CASE Fail(c)
    BY <1>2, <1>3, <1>15, <2>1 DEF Fetch, Fail
  <2>2. CASE ~Fail(c)
    BY <1>1, <1>15, <2>2 DEF Fetch, ChanType, SameRow
  <2> QED BY <2>1, <2>2
<1> HIDE DEF Kept
<1>16. CASE HandlerStep(c)
  <2>1. Kept \/ StateFromContext(c)
    BY <1>5, <1>6, <1>7, <1>13, <1>14, <1>15, <1>16 DEF HandlerStep
  <2> QED BY <1>4, <2>1 DEF Kept
<1>17. CASE ClientStep(c)
  <2>1. Kept \/ \E k \in Kinds : Open(c, k)
    BY <1>7, <1>9, <1>10, <1>11, <1>12, <1>17 DEF ClientStep
  <2> QED BY <1>8, <2>1 DEF Kept
<1> QED
  BY <1>16, <1>17

LEMMA RowsStayCurrent ==
  ASSUME TypeOK, HandlersOK, RowsCurrent, [Next]_vars,
         [\A c \in Channels :
            LET u == chan[c].user IN
            chan[c].kind = "menu" /\ chan[c].pc \notin {"done", "state"} =>
              /\ account'[u] = account[u] /\ role'[u] = role[u]
              /\ ugen'[u] = ugen[u]]_vars
  PROVE  RowsCurrent'
<1>1. CASE UNCHANGED vars
  BY <1>1 DEF vars, RowsCurrent, Current
<1>2. CASE AdminChange /\ ~UNCHANGED vars
  BY <1>2 DEF AdminChange, RowsCurrent, Current
<1>3. ASSUME NEW c \in Channels, HandlerStep(c) \/ ClientStep(c) PROVE RowsCurrent'
  <2>1. PICK r : Effect(c, r)
    BY <1>3, ChannelEffect
  <2>2. UNCHANGED <<account, role, ugen>>
    BY <1>3 DEF HandlerStep, ClientStep, tables
  <2>3. SUFFICES ASSUME NEW d \in Channels PROVE Current(chan[d])'
    BY DEF RowsCurrent
  <2>4. CASE d # c
    BY <2>1, <2>2, <2>4 DEF Effect, TypeOK, RowsCurrent, Current
  <2>5. CASE d = c
    <3>1. SUFFICES ASSUME chan'[d].pc \notin {"done", "state"}, chan'[d].kind = "menu"
                   PROVE  /\ account[chan'[d].user] = "enabled"
                          /\ role[chan'[d].user] = chan'[d].role
                          /\ ugen[chan'[d].user] = chan'[d].ugen
      BY <2>2 DEF Current
    <3>2. CASE chan[c].pc \notin {"done", "state"} /\ SameRow(chan[c], chan'[c])
      BY <2>5, <3>1, <3>2 DEF RowsCurrent, Current, SameRow
    <3> QED
      BY <1>3, <2>5, <3>1, <3>2, RowOfHandler
  <2> QED BY <2>4, <2>5
<1> QED BY <1>1, <1>2, <1>3 DEF Next

\* The check before a connection of a menu agrees with the account as it is in
\* the database, provided nobody changes the account while the menu is open:
\* the user row of stateFromContext, kept as long as the session lasts, is the
\* only thing that can be out of date, all the rest is read again.
THEOREM GatewayRecheckUnlessChanged == Spec /\ AccountsKept => RecheckSeesTheAccount
<1>1. Init => RowsCurrent
  BY DEF Init, RowsCurrent, Current, Closed
<1>2. ASSUME IInv, RowsCurrent, [Next]_vars, NEW c \in Channels,
             chan[c].pc = "check", chan'[c].pc = "fetch"
      PROVE  /\ account[chan[c].user] = "enabled" /\ ugen[chan[c].user] = chan[c].ugen
             /\ CanAccessCapability(role[chan[c].user], chan[c].user, chan[c].target, "shell")
  <2>1. PICK d \in Channels : HandlerStep(d) \/ ClientStep(d)
    BY <1>2 DEF Next, AdminChange, vars
  <2>2. TypeOK /\ HandlersOK
    BY <1>2 DEF IInv
  <2>3. PICK r : Effect(d, r)
    BY <2>1, <2>2, ChannelEffect
  <2>4. d = c /\ chan'[c] = r
    BY <1>2, <2>2, <2>3 DEF Effect, TypeOK
  <2>5. Check(c)
    <3>1. chan' # chan
      BY <1>2
    <3> QED
      BY <1>2, <2>1, <2>4, <3>1 DEF HandlerStep, ClientStep, StateFromContext, Acquire, Load,
         Lookup, Rule, Fetch, Dial, End, Open, MenuSelect, Reload, MenuQuit, ProxyEnds,
         CopyEnds, ClientGone, MenuScan, ScanEnds
  <2>6. chan[c].kind = "menu"
    BY <1>2, <2>1, <2>2, <2>3, <2>4, RowOfHandler DEF Effect, WellFormed, SameRow
  <2>7. Passes(c)
    <3>1. SUFFICES ASSUME ~Passes(c) PROVE FALSE
      OBVIOUS
    <3>2. Fail(c)
      BY <2>5, <2>6, <3>1 DEF Check
    <3> QED BY <1>2, <2>2, <2>6, <3>2 DEF Fail, Goto, TypeOK, ChanType
  <2> QED BY <1>2, <2>6, <2>7 DEF RowsCurrent, Current, Passes, CapabilityOf
<1>3. IInv /\ RowsCurrent /\ [Next]_vars =>
        [\A c \in Channels :
           chan[c].pc = "check" /\ chan'[c].pc = "fetch" =>
             LET u == chan[c].user IN
             /\ account[u] = "enabled" /\ ugen[u] = chan[c].ugen
             /\ CanAccessCapability(role[u], u, chan[c].target, "shell")]_vars
  BY <1>2
<1>4. IInv => TypeOK /\ HandlersOK
  BY DEF IInv
<1> QED
  BY <1>1, <1>3, <1>4, GatewayInvariant, RowsStayCurrent, PTL
     DEF Spec, AccountsKept, RecheckSeesTheAccount
=============================================================================
