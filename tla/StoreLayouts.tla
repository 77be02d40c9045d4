---------------------------- MODULE StoreLayouts ----------------------------
(***************************************************************************)
(* What migration_v2.rs tells apart about the content of a database file:  *)
(* the objects of its schema, the versions in schema_migrations, whether   *)
(* the columns of the V1 tables have their final shape, and whether some   *)
(* agent has two rows in active_leases.  Rows are never migrated and are   *)
(* left out.  The long lists of tables, columns and indexes are one object *)
(* per group that the code accepts or rejects as a whole.                  *)
(***************************************************************************)
EXTENDS Naturals

CONSTANTS
  None,   \* no file
  Torn    \* a file whose content has not been written completely

\* schema_v2.rs creates its objects one autocommitted statement after the
\* other, schema_migrations with the marker first.
V2First == {"v2 schema_migrations"}
V2Objects == V2First \cup {"v2 tables", "agent slot index"}

V1Objects == {"v1 tables", "v1 indexes"}
V1HumanObservations == {"human_observations", "human_observations index"}
V1WriteFences == {"write_fences", "write_fences indexes"}

\* The content of a file that SQLite can open; "other" is what nothing accepts.
Object == V2Objects \cup V1Objects \cup V1HumanObservations \cup V1WriteFences \cup {"other"}
Version == {"stateful.v1.initial", "stateful.v2.lease1", "other"}
Database ==
  [objects : SUBSET Object, versions : SUBSET Version, shaped : BOOLEAN, twoSlots : BOOLEAN]

ASSUME NoDatabaseAssumption == None \notin Database /\ Torn \notin Database \cup {None}

EmptyDb == [objects |-> {}, versions |-> {}, shaped |-> TRUE, twoSlots |-> FALSE]

\* create_v2_schema, stopped after its first statements, and finished.
CreateV2First(d) ==
  [d EXCEPT !.objects = @ \cup V2First, !.versions = @ \cup {"stateful.v2.lease1"}]
CreateV2Schema(d) == [CreateV2First(d) EXCEPT !.objects = @ \cup V2Objects]

V2Db == CreateV2Schema(EmptyDb)

HasV2Marker(d) == "stateful.v2.lease1" \in d.versions

HasExactV2Schema(d) == d.objects = V2Objects

\* The one upgrade in place: only the unique index over agents is missing, and
\* the rows would satisfy it.
IsAgentSlotIndexUpgrade(d) ==
  d.objects = V2Objects \ {"agent slot index"} /\ ~d.twoSlots

IsV2Database(d) ==
  HasV2Marker(d) /\ (HasExactV2Schema(d) \/ IsAgentSlotIndexUpgrade(d))

IsEmptyDatabase(d) == d.objects = {}

\* Exactly the V1 objects, each optional group complete or absent.
HasLegacyLayout(d) ==
  /\ d.objects = V1Objects
       \cup (IF "human_observations" \in d.objects THEN V1HumanObservations ELSE {})
       \cup (IF "write_fences" \in d.objects THEN V1WriteFences ELSE {})
  /\ d.shaped
  /\ d.versions = {"stateful.v1.initial"}
=============================================================================
