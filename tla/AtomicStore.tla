----------------------------- MODULE AtomicStore -----------------------------
(***************************************************************************)
(* What opening the database promises.  There is one logical database.     *)
(* A known old layout becomes the current one in a single step; a layout   *)
(* that is not recognised is never touched; nothing ever goes back.  Only  *)
(* the first initialisation is not atomic: it passes through a database    *)
(* that has the marker and a part of the tables.                           *)
(***************************************************************************)
EXTENDS StoreLayouts

CONSTANT Found   \* what may be there before the first open

VARIABLE logical

Init == logical \in Found

Create == logical = None /\ logical' = EmptyDb

Begin == logical # None /\ IsEmptyDatabase(logical) /\ logical' = CreateV2First(logical)

\* Goes on with the tables that Begin has started to create.
Complete ==
  /\ logical # None
  /\ logical = CreateV2First(EmptyDb)
  /\ logical' = V2Db

AddIndex ==
  /\ logical # None
  /\ IsV2Database(logical)
  /\ ~HasExactV2Schema(logical)
  /\ logical' = CreateV2Schema(logical)

Migrate == logical # None /\ HasLegacyLayout(logical) /\ logical' = V2Db

Next == Create \/ Begin \/ Complete \/ AddIndex \/ Migrate

Safety == Init /\ [][Next]_logical

Spec ==
  /\ Safety
  /\ WF_logical(Begin) /\ WF_logical(AddIndex) /\ WF_logical(Migrate)
=============================================================================
