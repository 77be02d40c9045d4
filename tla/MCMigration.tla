---------------------------- MODULE MCMigration ----------------------------
(***************************************************************************)
(* Databases of every kind migration_v2.rs tells apart: none, empty, V1    *)
(* with and without its optional tables, V2, V2 before its last index with *)
(* and without rows that violate it, and layouts that are refused.         *)
(***************************************************************************)
EXTENDS Migration

Legacy ==
  [objects |-> V1Objects, versions |-> {"stateful.v1.initial"},
   shaped |-> TRUE, twoSlots |-> FALSE]

Unindexed == [V2Db EXCEPT !.objects = @ \ {"agent slot index"}]

MCFound ==
  {None, EmptyDb, Legacy,
   [Legacy EXCEPT !.objects = @ \cup V1HumanObservations \cup V1WriteFences],
   [Legacy EXCEPT !.objects = @ \cup {"human_observations"}],
   [Legacy EXCEPT !.shaped = FALSE],
   CreateV2First(Legacy),
   V2Db, Unindexed, [Unindexed EXCEPT !.twoSlots = TRUE]}
=============================================================================
