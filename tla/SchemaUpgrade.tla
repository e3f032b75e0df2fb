---------------------------- MODULE SchemaUpgrade ----------------------------
(***************************************************************************)
(* What store.Open promises about the schema of a database, without        *)
(* processes, locks, transactions or statements: the base tables appear    *)
(* one after the other, version 1 is recorded once they are all there, and *)
(* every later version takes effect in one step, in order, once, and keeps *)
(* the rows the tables have.                                               *)
(***************************************************************************)
EXTENDS Naturals

CONSTANTS
  Files,        \* database files
  BaseStatements, \* tables and indexes of version 1
  RebuiltAt,    \* the one among them that later versions rebuild
  LastVersion   \* the version Open migrates to

VARIABLE schema   \* of every file: how much of version 1 and how often each
                  \* later one took effect, the versions recorded, and the
                  \* rows of the table that is rebuilt

Versions == 1..LastVersion

\* A file without tables, and a database of version 1 with rows in it.
Empty == [applied |-> [v \in Versions |-> 0], recorded |-> {}, rows |-> "absent"]

Old == [applied |-> [v \in Versions |-> IF v = 1 THEN BaseStatements ELSE 0],
        recorded |-> {1}, rows |-> "full"]

Init == schema \in [Files -> {Empty, Old}]

Applied(f, v) == [schema[f].applied EXCEPT ![v] = @ + 1]

CreateNext(f) ==
  /\ schema[f].recorded = {}
  /\ schema[f].applied[1] < BaseStatements
  /\ schema' = [schema EXCEPT ![f] =
                  [applied |-> Applied(f, 1), recorded |-> {},
                   rows |-> IF schema[f].applied[1] + 1 = RebuiltAt
                            THEN "empty" ELSE schema[f].rows]]

RecordFirst(f) ==
  /\ schema[f].recorded = {}
  /\ schema[f].applied[1] = BaseStatements
  /\ schema' = [schema EXCEPT ![f] = [applied |-> schema[f].applied, recorded |-> {1},
                                      rows |-> schema[f].rows]]

Upgrade(f, v) ==
  /\ schema[f].applied[v] = 0
  /\ schema[f].recorded = 1..(v - 1)
  /\ schema' = [schema EXCEPT ![f] = [applied |-> Applied(f, v), recorded |-> 1..v,
                                      rows |-> schema[f].rows]]

Next == \E f \in Files : \/ CreateNext(f) \/ RecordFirst(f)
                         \/ \E v \in 2..LastVersion : Upgrade(f, v)

Spec == Init /\ [][Next]_schema
=============================================================================
