------------------------------ MODULE Migration ------------------------------
(***************************************************************************)
(* open_file of migration_v2.rs: several processes open the same database, *)
(* one file operation at a time, and any of them may stop anywhere, killed *)
(* or by an I/O error.  A stopped process leaves the files as they are and *)
(* loses its lock, which is a transaction of SQLite.                       *)
(*                                                                         *)
(* The manifest is written to a temporary file, synced and renamed, so its *)
(* change is one step here.  A power failure that keeps the order of the   *)
(* changes to the directory leaves what a process stopped earlier leaves.  *)
(***************************************************************************)
EXTENDS StoreLayouts

CONSTANTS
  Opener,      \* processes that open the database
  Found,       \* what may be there before the first open
  MaxAborts    \* bound: how often a process stops in the middle

ASSUME MigrationAssumption == MaxAborts \in Nat

\* The versions are rows of schema_migrations, the other two fields are about
\* the columns and rows of tables: a database without objects has none of them.
ASSUME FoundAssumption ==
  /\ Found \subseteq Database \cup {None}
  /\ \A d \in Found \ {None} : IsEmptyDatabase(d) => d = EmptyDb

File == {"main", "backup", "candidate", "recovery", "restore"}

Stages ==
  {"backup_pending", "backup_created", "old_checkpointed", "old_quarantined",
   "new_validated", "new_promoted", "parent_synced"}

ASSUME NoneAssumption == None \notin Opener \cup Stages

VARIABLES
  fs,        \* the content of each file
  side,      \* the -wal, -shm and -journal files beside each database: none,
             \* its own, or those of a database that is no longer there
  manifest,  \* the stage of the manifest, None without one
  lock,      \* the opener inside the migration lock, or None
  pc,        \* where each opener is
  conn,      \* none, main, or stale: the file it has open was replaced
  aborts,    \* how often an opener stopped so far
  origin,    \* history: what was there before the first open
  raced      \* history: an opener without the lock meddled with a migration

files == <<fs, side, manifest>>
vars == <<fs, side, manifest, lock, pc, conn, aborts, origin, raced>>

Init ==
  /\ origin \in Found
  /\ fs = [f \in File |-> IF f = "main" THEN origin ELSE None]
  /\ \E s \in (IF origin = None THEN {"none", "foreign"} ELSE {"none", "own"}) :
       side = [f \in File |-> IF f = "main" THEN s ELSE "none"]
  /\ manifest = None
  /\ lock = None
  /\ pc = [o \in Opener |-> "idle"]
  /\ conn = [o \in Opener |-> "none"]
  /\ aborts = 0
  /\ raced = FALSE

Goto(o, from, to) == pc[o] = from /\ pc' = [pc EXCEPT ![o] = to]

\* The sidecars of a file that is removed or replaced belong to nothing.
Orphaned(s) == IF s = "none" THEN "none" ELSE "foreign"

\* The connections to a main file that is removed or replaced.
Cut == [o \in Opener |-> IF conn[o] = "main" THEN "stale" ELSE conn[o]]

\* The call returns with an error: locks and connections are dropped.
Return(o, from) ==
  /\ Goto(o, from, "failed")
  /\ lock' = IF lock = o THEN None ELSE lock
  /\ conn' = [conn EXCEPT ![o] = "none"]
  /\ UNCHANGED <<files, aborts, origin, raced>>

Keep == UNCHANGED <<lock, aborts, origin, raced>>

-----------------------------------------------------------------------------
(* open_file, before the lock *)

OpenFile(o) ==
  /\ pc[o] \in {"idle", "failed"}
  /\ pc' = [pc EXCEPT ![o] = IF manifest # None THEN "acquire" ELSE "look"]
  /\ UNCHANGED <<files, conn>> /\ Keep

\* regular_file_exists and ensure_no_orphan_sidecars, then one of two ways.
Look(o, from, exists) ==
  \/ /\ fs["main"] # None
     /\ Goto(o, from, exists)
     /\ UNCHANGED <<files, conn>> /\ Keep
  \/ /\ fs["main"] = None /\ side["main"] = "none"
     /\ Goto(o, from, "create")
     /\ UNCHANGED <<files, conn>> /\ Keep
  \/ /\ fs["main"] = None /\ side["main"] # "none"
     /\ Return(o, from)

\* What SQLite opens: a file that is missing is created.
Opened == IF fs["main"] = None THEN EmptyDb ELSE fs["main"]

\* open_file tests for a manifest before it looks for the main file, and has no
\* lock: a migration may begin in between.  The V1 database of a migration may
\* still be looked at; but the opener meddles when it creates a main file that
\* the migration has taken away, or opens the one that it has just promoted.
Meddles == manifest # None /\ (fs["main"] = None \/ ~HasLegacyLayout(fs["main"]))

\* A recognised V2 database is opened without the lock.  Otherwise the
\* connection is closed, which may be the end of a left-over WAL.
Probe(o) ==
  /\ fs' = [fs EXCEPT !["main"] = Opened]
  /\ \/ /\ IsV2Database(Opened)
        /\ Goto(o, "probe", "finish")
        /\ conn' = [conn EXCEPT ![o] = "main"]
        /\ UNCHANGED side
     \/ /\ ~IsV2Database(Opened)
        /\ Goto(o, "probe", "acquire")
        /\ side' \in {side, [side EXCEPT !["main"] = "none"]}
        /\ UNCHANGED conn
  /\ raced' = (raced \/ Meddles)
  /\ UNCHANGED <<manifest, lock, aborts, origin>>

Acquire(o) ==
  /\ lock = None
  /\ Goto(o, "acquire", "locked")
  /\ lock' = o
  /\ UNCHANGED <<files, conn, aborts, origin, raced>>

\* BEGIN EXCLUSIVE times out, or the lock file appears while it is created.
AcquireFails(o) == lock # None /\ Return(o, "acquire")

-----------------------------------------------------------------------------
(* A new or an empty database *)

CreateNewV2(o) ==
  \/ /\ fs["main"] = None
     /\ Goto(o, "create", "init")
     /\ fs' = [fs EXCEPT !["main"] = EmptyDb]
     /\ conn' = [conn EXCEPT ![o] = "main"]
     /\ raced' = (raced \/ Meddles)
     /\ UNCHANGED <<side, manifest, lock, aborts, origin>>
  \/ fs["main"] # None /\ Return(o, "create")

\* Writes of a connection reach the main file unless it was replaced.
Write(o, content) ==
  /\ fs' = IF conn[o] = "main" THEN [fs EXCEPT !["main"] = content] ELSE fs
  /\ side' = IF conn[o] = "main" THEN [side EXCEPT !["main"] = "own"] ELSE side
  /\ UNCHANGED <<manifest, conn>> /\ Keep

InitializeV2(o) ==
  \/ Goto(o, "init", "tables") /\ Write(o, CreateV2First(fs["main"]))
  \/ Goto(o, "tables", "finish") /\ Write(o, CreateV2Schema(fs["main"]))

\* The store is returned to its caller, or refused for what else is in it, and
\* the lock is dropped.
FinishV2File(o) ==
  LET d == CreateV2Schema(fs["main"])
      served == conn[o] = "stale" \/ HasExactV2Schema(d)
  IN /\ Goto(o, "finish", IF served THEN "serving" ELSE "failed")
     /\ lock' = IF lock = o THEN None ELSE lock
     /\ conn' = [conn EXCEPT ![o] = IF served THEN @ ELSE "none"]
     /\ fs' = IF conn[o] = "main" THEN [fs EXCEPT !["main"] = d] ELSE fs
     /\ side' = IF conn[o] = "main" THEN [side EXCEPT !["main"] = "own"] ELSE side
     /\ UNCHANGED <<manifest, aborts, origin, raced>>

-----------------------------------------------------------------------------
(* open_locked *)

\* What recover_interrupted_migration needs at this stage.
Recoverable ==
  IF manifest = "backup_pending" THEN fs["main"] # None ELSE fs["backup"] # None

OpenLocked(o) ==
  IF manifest # None /\ ~Recoverable THEN Return(o, "locked")
  ELSE /\ Goto(o, "locked", CASE manifest = None -> "look locked"
                              [] manifest = "backup_pending" -> "discard"
                              [] OTHER -> "restore")
       /\ UNCHANGED <<files, conn>> /\ Keep

\* Mutant: every database with the marker is completed.
ClassifyByMarker(o) ==
  LET d == Opened IN
  /\ fs' = [fs EXCEPT !["main"] = d]
  /\ UNCHANGED manifest /\ Keep
  /\ conn' = [conn EXCEPT ![o] = "main"]
  /\ \/ HasV2Marker(d) /\ Goto(o, "classify", "finish") /\ UNCHANGED side
     \/ ~HasV2Marker(d) /\ IsEmptyDatabase(d) /\ Goto(o, "classify", "init") /\ UNCHANGED side
     \/ /\ HasLegacyLayout(d)
        /\ Goto(o, "classify", "pending")
        /\ side' \in {side, [side EXCEPT !["main"] = "own"]}

\* The order of the tests decides what happens to each layout.
ClassifyLocked(o) ==
  LET d == Opened IN
  IF HasV2Marker(d) /\ ~IsV2Database(d) THEN Return(o, "classify")
  ELSE
    /\ fs' = [fs EXCEPT !["main"] = d]
    /\ UNCHANGED manifest /\ Keep
    /\ conn' = [conn EXCEPT ![o] = "main"]
    /\ \/ IsV2Database(d) /\ Goto(o, "classify", "finish") /\ UNCHANGED side
       \/ ~HasV2Marker(d) /\ IsEmptyDatabase(d) /\ Goto(o, "classify", "init") /\ UNCHANGED side
       \/ /\ HasLegacyLayout(d)
          /\ Goto(o, "classify", "pending")
          /\ side' \in {side, [side EXCEPT !["main"] = "own"]}

\* An unknown layout is refused.
RejectUnknown(o) ==
  LET d == Opened IN
  /\ ~HasV2Marker(d) /\ ~IsEmptyDatabase(d) /\ ~HasLegacyLayout(d)
  /\ Return(o, "classify")

-----------------------------------------------------------------------------
(* migrate_legacy *)

Persist(o, from, stage, to) ==
  /\ Goto(o, from, to)
  /\ manifest' = stage
  /\ UNCHANGED <<fs, side, conn>> /\ Keep

BackupPending(o) == Persist(o, "pending", "backup_pending", "backup")

\* Mutant: announces the backup before it is complete.
BackupAnnounced(o) ==
  \/ Persist(o, "backup", "backup_created", "copy")
  \/ /\ Goto(o, "copy", "copied")
     /\ fs' = [fs EXCEPT !["backup"] = Torn]
     /\ UNCHANGED <<side, manifest, conn>> /\ Keep
  \/ /\ Goto(o, "copied", "checkpoint")
     /\ fs' = [fs EXCEPT !["backup"] = fs["main"]]
     /\ UNCHANGED <<side, manifest, conn>> /\ Keep

\* The old backup goes, a new one is copied from the pinned snapshot.
CreateBackup(o) ==
  \/ /\ Goto(o, "backup", "copy")
     /\ fs' = [fs EXCEPT !["backup"] = Torn]
     /\ UNCHANGED <<side, manifest, conn>> /\ Keep
  \/ /\ Goto(o, "copy", "copied")
     /\ fs' = [fs EXCEPT !["backup"] = fs["main"]]
     /\ UNCHANGED <<side, manifest, conn>> /\ Keep

BackupCreated(o) == Persist(o, "copied", "backup_created", "checkpoint")

\* COMMIT, checkpoint and close: the WAL is truncated and goes.
Checkpoint(o) ==
  /\ Goto(o, "checkpoint", "checkpointed")
  /\ side' = [side EXCEPT !["main"] = "none"]
  /\ conn' = [conn EXCEPT ![o] = "none"]
  /\ UNCHANGED <<fs, manifest>> /\ Keep

OldCheckpointed(o) == Persist(o, "checkpointed", "old_checkpointed", "quarantine")

\* The main file moves first, its sidecars after it.
QuarantineOldSet(o) ==
  \/ /\ Goto(o, "quarantine", "quarantine sidecars")
     /\ fs' = [fs EXCEPT !["recovery"] = fs["main"], !["main"] = None]
     /\ side' = [side EXCEPT !["main"] = Orphaned(@), !["recovery"] = Orphaned(@)]
     /\ conn' = Cut
     /\ UNCHANGED manifest /\ Keep
  \/ /\ Goto(o, "quarantine sidecars", "quarantined")
     /\ side' = IF side["main"] = "none" THEN side
                ELSE [side EXCEPT !["recovery"] = "own", !["main"] = "none"]
     /\ UNCHANGED <<fs, manifest, conn>> /\ Keep

OldQuarantined(o) == Persist(o, "quarantined", "old_quarantined", "candidate")

CreateCandidateV2(o) ==
  \/ /\ Goto(o, "candidate", "candidate tables")
     /\ fs' = [fs EXCEPT !["candidate"] = CreateV2First(EmptyDb)]
     /\ side' = [side EXCEPT !["candidate"] = "own"]
     /\ UNCHANGED <<manifest, conn>> /\ Keep
  \/ /\ Goto(o, "candidate tables", "validated")
     /\ fs' = [fs EXCEPT !["candidate"] = V2Db]
     /\ side' = [side EXCEPT !["candidate"] = "none"]
     /\ UNCHANGED <<manifest, conn>> /\ Keep

NewValidated(o) == Persist(o, "validated", "new_validated", "promote")

\* rename replaces whatever is at the main path.
PromoteCandidate(o) ==
  /\ Goto(o, "promote", "promoted")
  /\ fs' = [fs EXCEPT !["main"] = fs["candidate"], !["candidate"] = None]
  /\ side' = [side EXCEPT !["main"] = Orphaned(@)]
  /\ conn' = Cut
  /\ UNCHANGED manifest /\ Keep

NewPromoted(o) == Persist(o, "promoted", "new_promoted", "sync")

ParentSynced(o) == Persist(o, "sync", "parent_synced", "unquarantine")

RemoveRecovery(o) ==
  /\ Goto(o, "unquarantine", "migrated")
  /\ fs' = [fs EXCEPT !["recovery"] = None]
  /\ side' = [side EXCEPT !["recovery"] = "none"]
  /\ UNCHANGED <<manifest, conn>> /\ Keep

\* Mutant: serves the new main file, and leaves the manifest.
MigrationDoneUncleared(o) ==
  /\ Goto(o, "migrated", "finish")
  /\ fs' = [fs EXCEPT !["main"] = Opened]
  /\ conn' = [conn EXCEPT ![o] = "main"]
  /\ UNCHANGED <<side, manifest>> /\ Keep

\* clear_manifest, then the new main file is opened.
MigrationDone(o) ==
  /\ Goto(o, "migrated", "finish")
  /\ manifest' = None
  /\ fs' = [fs EXCEPT !["main"] = Opened]
  /\ conn' = [conn EXCEPT ![o] = "main"]
  /\ UNCHANGED side /\ Keep

-----------------------------------------------------------------------------
(* recover_interrupted_migration *)

\* Nothing but a part of the backup has been made.
DiscardBackup(o) ==
  \/ /\ Goto(o, "discard", "discarded")
     /\ fs' = [f \in File |-> IF f = "main" THEN fs[f] ELSE None]
     /\ side' = [f \in File |-> IF f = "main" THEN side[f] ELSE "none"]
     /\ UNCHANGED <<manifest, conn>> /\ Keep
  \/ Persist(o, "discarded", None, "look locked")

\* Mutant: leaves the sidecars of the main file.
RestoreBesideOldSidecars(o) ==
  \/ /\ Goto(o, "restore", "restore sidecars")
     /\ fs' = [fs EXCEPT !["main"] = None]
     /\ side' = [side EXCEPT !["main"] = Orphaned(@)]
     /\ conn' = Cut
     /\ UNCHANGED manifest /\ Keep
  \/ /\ Goto(o, "restore sidecars", "restore copy")
     /\ fs' = [f \in File |-> IF f \in {"main", "backup"} THEN fs[f] ELSE None]
     /\ side' = [side EXCEPT !["candidate"] = "none", !["recovery"] = "none"]
     /\ UNCHANGED <<manifest, conn>> /\ Keep

\* restore_backup_set: remove what the migration has made, main file first.
RemoveMixedSet(o) ==
  \/ /\ Goto(o, "restore", "restore sidecars")
     /\ fs' = [fs EXCEPT !["main"] = None]
     /\ side' = [side EXCEPT !["main"] = Orphaned(@)]
     /\ conn' = Cut
     /\ UNCHANGED manifest /\ Keep
  \/ /\ Goto(o, "restore sidecars", "restore copy")
     /\ fs' = [f \in File |-> IF f \in {"main", "backup"} THEN fs[f] ELSE None]
     /\ side' = [f \in File |-> "none"]
     /\ UNCHANGED <<manifest, conn>> /\ Keep

\* Copy the backup beside, sync it, rename it to the main path.
RestoreBackupSet(o) ==
  \/ /\ Goto(o, "restore copy", "restore written")
     /\ fs' = [fs EXCEPT !["restore"] = Torn]
     /\ UNCHANGED <<side, manifest, conn>> /\ Keep
  \/ /\ Goto(o, "restore written", "restore rename")
     /\ fs' = [fs EXCEPT !["restore"] = fs["backup"]]
     /\ UNCHANGED <<side, manifest, conn>> /\ Keep
  \/ /\ Goto(o, "restore rename", "restored")
     /\ fs' = [fs EXCEPT !["main"] = fs["restore"], !["restore"] = None]
     /\ side' = [side EXCEPT !["main"] = Orphaned(@)]
     /\ conn' = Cut
     /\ UNCHANGED manifest /\ Keep
  \/ Persist(o, "restored", None, "look locked")

-----------------------------------------------------------------------------
(* The end of a process *)

\* Killed, or an I/O error in the middle: only the files stay.
Abort(o) ==
  /\ aborts < MaxAborts
  /\ pc[o] \notin {"idle", "failed"}
  /\ aborts' = aborts + 1
  /\ pc' = [pc EXCEPT ![o] = "idle"]
  /\ lock' = IF lock = o THEN None ELSE lock
  /\ conn' = [conn EXCEPT ![o] = "none"]
  /\ UNCHANGED <<files, origin, raced>>

\* The last connection to close removes the WAL.
Close(o) ==
  /\ Goto(o, "serving", "idle")
  /\ conn' = [conn EXCEPT ![o] = "none"]
  /\ side' = IF conn[o] = "main" /\ \A p \in Opener \ {o} : conn[p] # "main"
             THEN [side EXCEPT !["main"] = "none"] ELSE side
  /\ UNCHANGED <<fs, manifest>> /\ Keep

Migrating(o) ==
  \/ BackupPending(o) \/ CreateBackup(o) \/ BackupCreated(o) \/ Checkpoint(o)
  \/ OldCheckpointed(o) \/ QuarantineOldSet(o) \/ OldQuarantined(o)
  \/ CreateCandidateV2(o) \/ NewValidated(o) \/ PromoteCandidate(o) \/ NewPromoted(o)
  \/ ParentSynced(o) \/ RemoveRecovery(o) \/ MigrationDone(o)

Opening(o) ==
  \/ OpenFile(o) \/ Look(o, "look", "probe") \/ Probe(o) \/ Acquire(o) \/ AcquireFails(o)
  \/ CreateNewV2(o) \/ InitializeV2(o) \/ FinishV2File(o)
  \/ OpenLocked(o) \/ Look(o, "look locked", "classify")
  \/ ClassifyLocked(o) \/ RejectUnknown(o)
  \/ DiscardBackup(o) \/ RemoveMixedSet(o) \/ RestoreBackupSet(o)

Next == \E o \in Opener : Opening(o) \/ Migrating(o) \/ Abort(o) \/ Close(o)

(***************************************************************************)
(* A process that runs goes on.  That an open which failed or was stopped  *)
(* is tried again is an assumption about the users: a database that nobody *)
(* opens stays as it is.                                                   *)
(***************************************************************************)
Fairness ==
  \A o \in Opener :
    WF_vars(Opening(o)) /\ WF_vars(Migrating(o))

Spec == Init /\ [][Next]_vars /\ Fairness

-----------------------------------------------------------------------------
(* Properties *)

\* The database an open would end up with: the backup while a manifest says
\* that there is one, otherwise the main file.
Logical == IF manifest \in {None, "backup_pending"} THEN fs["main"] ELSE fs["backup"]

Atomic == INSTANCE AtomicStore WITH logical <- Logical

\* Through every interruption and recovery the logical database changes only as
\* AtomicStore says: V1 turns into V2 in one step, layouts that open_locked
\* refuses stay, no step goes back; and a V1 database does become V2.
RefinesAtomicStore == Atomic!Spec

\* A V1 database that was there at the start is never lost: it is complete at
\* the main path until there is a complete backup of it, and then it is there.
LegacyKept ==
  origin # None /\ HasLegacyLayout(origin) =>
    \/ fs["backup"] = origin
    \/ fs["main"] = origin /\ manifest \in {None, "backup_pending"}

\* restore_backup_set refuses "mixed-generation recovery": unless an opener
\* without the lock meddled, no database is ever beside the sidecars of another.
NoMixedGenerations == ~raced => (side["main"] = "foreign" => fs["main"] = None)

\* Unless an opener without the lock meddled, a store in use has the exact V2
\* schema, is the database at the main path, and no migration is under way: an
\* opener that a migration overtakes between its test for a manifest and the
\* lock is refused or queues for the lock.
ServesTheMainFile ==
  \A o \in Opener : pc[o] = "serving" /\ ~raced =>
    conn[o] = "main" /\ HasExactV2Schema(fs["main"]) /\ manifest = None
=============================================================================
