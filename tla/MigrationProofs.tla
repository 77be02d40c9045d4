---------------------------- MODULE MigrationProofs ----------------------------
(*****************************************************************************)
(* Proofs about open_file for any number of openers and of interruptions and *)
(* for every set of databases that may be found.                             *)
(*                                                                           *)
(* MInv holds whatever the openers without the lock do: it is about what is  *)
(* kept of a V1 database and what the logical database may do.  PInv holds   *)
(* until an opener without the lock meddles: it is about the main file, its  *)
(* sidecars and who uses them.                                               *)
(*****************************************************************************)
EXTENDS Migration, TLAPS

(* The backend of a step that names none, and the time it may take. *)
USE ZenonT(40)

\* Where an opener is while it must have the lock.
Looking == {"look locked", "classify", "pending"}
BackingUp == {"backup", "copy", "copied", "discard", "discarded"}
Replacing ==
  {"checkpoint", "checkpointed", "quarantine", "quarantine sidecars", "quarantined",
   "candidate", "candidate tables", "validated", "promote"}
Replaced == {"promoted", "sync", "unquarantine", "migrated"}
Restoring ==
  {"restore", "restore sidecars", "restore copy", "restore written", "restore rename", "restored"}

Holding == {"locked"} \cup Looking \cup BackingUp \cup Replacing \cup Replaced \cup Restoring

BackedUp == Stages \ {"backup_pending"}

\* What stands in a database that the initialisation has begun.
Started == CreateV2First(EmptyDb)

IsLegacy(d) == d \in Database /\ HasLegacyLayout(d)

\* What the files are typed with.  The main file is never torn, and only the
\* empty database has no objects.
FilesOK ==
  /\ fs \in [File -> Database \cup {None, Torn}]
  /\ fs["main"] # Torn
  /\ fs["main"] # None /\ IsEmptyDatabase(fs["main"]) => fs["main"] = EmptyDb
  /\ manifest \in Stages \cup {None}

\* What an interrupted migration leaves: the V1 database is where the manifest
\* says.
Interrupted ==
  /\ manifest = "backup_pending" => IsLegacy(fs["main"])
  /\ manifest \in BackedUp => IsLegacy(fs["backup"])

\* A connection to the main file that is going to write finds there what it has
\* looked for: nothing it writes can destroy a V1 database.
WriterOK(o) ==
  conn[o] = "main" =>
    /\ fs["main"] # None
    /\ pc[o] = "init" => fs["main"] \in {EmptyDb, Started, V2Db}
    /\ pc[o] = "tables" => fs["main"] \in {Started, V2Db}
    /\ pc[o] = "finish" => IsV2Database(fs["main"])
    /\ pc[o] = "serving" => HasExactV2Schema(fs["main"]) /\ IsV2Database(fs["main"])

\* The opener inside the lock: its step agrees with the manifest, and the file
\* it goes on to publish is complete.
HolderOK(o) ==
  /\ pc[o] \in Holding => lock = o
  /\ pc[o] \in Looking => manifest = None
  /\ pc[o] \in BackingUp => manifest = "backup_pending"
  /\ pc[o] \in Replacing \cup Replaced \cup Restoring => manifest \in BackedUp
  /\ pc[o] = "pending" => IsLegacy(fs["main"])
  /\ pc[o] = "copied" => fs["backup"] = fs["main"]
  /\ pc[o] \in {"validated", "promote"} => fs["candidate"] = V2Db
  /\ pc[o] \in Replaced => fs["main"] = V2Db
  /\ pc[o] = "restore rename" => fs["restore"] = fs["backup"]
  /\ pc[o] = "restored" => fs["main"] = fs["backup"]

\* The V1 database of the beginning is the logical database, or the backup of a
\* migration that is over.
OriginKept ==
  origin # None /\ HasLegacyLayout(origin) =>
    \/ Logical = origin
    \/ fs["backup"] = origin /\ manifest = None /\ fs["main"] # None /\ IsV2Database(fs["main"])

Typed == pc = [o \in Opener |-> pc[o]] /\ conn \in [Opener -> {"none", "main", "stale"}]

MInv ==
  /\ Typed /\ FilesOK /\ Interrupted /\ OriginKept
  /\ \A o \in Opener : WriterOK(o) /\ HolderOK(o)

\* Where an opener has the main file open in order to use it.
Using == {"init", "tables", "finish", "serving"}

\* No database is beside the sidecars of another one.
Unmixed == side["main"] = "foreign" => fs["main"] = None

\* While nobody meddles: what an opener relies on is still so.  Until it has
\* the lock it relies on nothing once a migration has begun.
RelianceOK(o) ==
  /\ pc[o] = "probe" /\ manifest = None => fs["main"] # None
  /\ pc[o] = "classify" => fs["main"] # None
  /\ pc[o] = "create" /\ manifest = None /\ fs["main"] = None => side["main"] # "foreign"
  /\ pc[o] \in Using => conn[o] = "main" /\ manifest = None
  /\ pc[o] \in {"quarantine sidecars", "restore sidecars"} => fs["main"] = None
  /\ pc[o] \in {"quarantined", "candidate", "candidate tables", "validated", "promote",
                "restore copy", "restore written", "restore rename"} =>
       fs["main"] = None /\ side["main"] = "none"

PInv ==
  /\ side \in [File -> {"none", "own", "foreign"}]
  /\ Unmixed
  /\ \A o \in Opener : RelianceOK(o)

-----------------------------------------------------------------------------
(* Layouts *)

Row(o, v, a, b) == [objects |-> o, versions |-> v, shaped |-> a, twoSlots |-> b]

Marker == {"stateful.v2.lease1"}

\* What create_v2_schema adds, in its first statements and in all.
LEMMA Creating ==
  ASSUME NEW o, NEW v, NEW a, NEW b
  PROVE  /\ CreateV2First(Row(o, v, a, b)) = Row(o \cup V2First, v \cup Marker, a, b)
         /\ CreateV2Schema(Row(o, v, a, b)) = Row((o \cup V2First) \cup V2Objects, v \cup Marker, a, b)
<1>1. ASSUME NEW p, NEW q, NEW x PROVE [Row(p, q, a, b) EXCEPT !.objects = x] = Row(x, q, a, b)
  BY SMTT(40) DEF Row
<1>2. ASSUME NEW p, NEW q, NEW x PROVE [Row(p, q, a, b) EXCEPT !.versions = x] = Row(p, x, a, b)
  BY SMTT(40) DEF Row
<1>3. ASSUME NEW p, NEW q PROVE Row(p, q, a, b).objects = p /\ Row(p, q, a, b).versions = q
  BY DEF Row
<1>4. ASSUME NEW d, NEW x, NEW y
      PROVE  [d EXCEPT !.objects = x, !.versions = y] = [[d EXCEPT !.objects = x] EXCEPT !.versions = y]
  OBVIOUS
<1>5. CreateV2First(Row(o, v, a, b))
        = [Row(o, v, a, b) EXCEPT !.objects = o \cup V2First, !.versions = v \cup Marker]
  BY <1>3 DEF CreateV2First, Marker
<1>6. CreateV2First(Row(o, v, a, b)) = Row(o \cup V2First, v \cup Marker, a, b)
  <2>1. [Row(o, v, a, b) EXCEPT !.objects = o \cup V2First] = Row(o \cup V2First, v, a, b)
    BY <1>1
  <2>2. [Row(o \cup V2First, v, a, b) EXCEPT !.versions = v \cup Marker]
          = Row(o \cup V2First, v \cup Marker, a, b)
    BY <1>2
  <2>3. CreateV2First(Row(o, v, a, b))
          = [[Row(o, v, a, b) EXCEPT !.objects = o \cup V2First] EXCEPT !.versions = v \cup Marker]
    BY <1>4, <1>5
  <2>4. QED
    BY <2>1, <2>2, <2>3
<1>7. CreateV2Schema(Row(o, v, a, b))
        = [Row(o \cup V2First, v \cup Marker, a, b) EXCEPT !.objects = (o \cup V2First) \cup V2Objects]
  BY <1>3, <1>6 DEF CreateV2Schema
<1>8. [Row(o \cup V2First, v \cup Marker, a, b) EXCEPT !.objects = (o \cup V2First) \cup V2Objects]
        = Row((o \cup V2First) \cup V2Objects, v \cup Marker, a, b)
  BY SMTT(40) DEF Row
<1>9. QED
  BY <1>6, <1>7, <1>8

\* The three databases an initialisation passes through.
LEMMA StartedFacts ==
  /\ EmptyDb \in Database /\ Started \in Database /\ V2Db \in Database
  /\ CreateV2First(EmptyDb) = Started
  /\ CreateV2First(Started) = Started /\ CreateV2Schema(Started) = V2Db
  /\ CreateV2First(V2Db) = V2Db /\ CreateV2Schema(V2Db) = V2Db
<1>1. EmptyDb = Row({}, {}, EmptyDb.shaped, EmptyDb.twoSlots)
  BY DEF EmptyDb, Row
<1>2. /\ {} \cup V2First = V2First /\ {} \cup Marker = Marker /\ Marker \cup Marker = Marker
      /\ V2First \cup V2First = V2First /\ V2First \cup V2Objects = V2Objects
      /\ V2Objects \cup V2First = V2Objects /\ V2Objects \cup V2Objects = V2Objects
      /\ V2First \in SUBSET Object /\ V2Objects \in SUBSET Object /\ Marker \in SUBSET Version
  BY DEF V2First, V2Objects, Object, Version, Marker
<1> DEFINE R(o, v) == Row(o, v, EmptyDb.shaped, EmptyDb.twoSlots)
<1>3. ASSUME NEW o, NEW v
      PROVE  /\ CreateV2First(R(o, v)) = R(o \cup V2First, v \cup Marker)
             /\ CreateV2Schema(R(o, v)) = R((o \cup V2First) \cup V2Objects, v \cup Marker)
  BY SMTT(40), Creating
<1> HIDE DEF R
<1>4. EmptyDb = R({}, {})
  BY <1>1 DEF R
<1>5. /\ Started = R({} \cup V2First, {} \cup Marker)
      /\ V2Db = R(({} \cup V2First) \cup V2Objects, {} \cup Marker)
  BY <1>3, <1>4 DEF Started, V2Db
<1>6. /\ Started = R(V2First, Marker)
      /\ V2Db = R(V2Objects, Marker)
  BY <1>2, <1>5
<1>7. EmptyDb \in Database /\ Started \in Database /\ V2Db \in Database
  <2>1. EmptyDb.shaped \in BOOLEAN /\ EmptyDb.twoSlots \in BOOLEAN
    BY DEF EmptyDb
  <2>2. QED
    BY SMTT(40), <1>1, <1>2, <1>6, <2>1 DEF Database, Row, R
<1>8. /\ CreateV2First(Started) = R(V2First \cup V2First, Marker \cup Marker)
      /\ CreateV2Schema(Started)
           = R((V2First \cup V2First) \cup V2Objects, Marker \cup Marker)
      /\ CreateV2First(V2Db) = R(V2Objects \cup V2First, Marker \cup Marker)
      /\ CreateV2Schema(V2Db)
           = R((V2Objects \cup V2First) \cup V2Objects, Marker \cup Marker)
  BY <1>6, <1>3
<1>9. CreateV2First(Started) = Started /\ CreateV2Schema(Started) = V2Db
  BY <1>2, <1>6, <1>8
<1>10. CreateV2First(V2Db) = V2Db /\ CreateV2Schema(V2Db) = V2Db
  BY <1>2, <1>6, <1>8
<1>11. QED
  BY <1>7, <1>9, <1>10 DEF Started

\* How the tests of open_locked classify them.
LEMMA StartedLayouts ==
  /\ IsEmptyDatabase(EmptyDb) /\ ~IsEmptyDatabase(Started) /\ ~IsEmptyDatabase(V2Db)
  /\ ~HasV2Marker(EmptyDb) /\ HasV2Marker(Started) /\ HasV2Marker(V2Db)
  /\ ~IsV2Database(EmptyDb) /\ ~IsV2Database(Started)
  /\ IsV2Database(V2Db) /\ HasExactV2Schema(V2Db)
<1>1. Started.objects = V2First /\ Started.versions = {"stateful.v2.lease1"}
  BY DEF Started, CreateV2First, EmptyDb
<1>2. V2Db.objects = V2Objects /\ V2Db.versions = {"stateful.v2.lease1"}
  BY DEF V2Db, CreateV2Schema, CreateV2First, EmptyDb, V2Objects, V2First
<1>3. EmptyDb.objects = {} /\ EmptyDb.versions = {}
  BY DEF EmptyDb
<1>4. V2First # V2Objects /\ V2First # V2Objects \ {"agent slot index"} /\ V2First # {} /\ V2Objects # {}
  <2>1. "v2 tables" \in V2Objects \ {"agent slot index"} /\ "v2 tables" \notin V2First
    BY DEF V2First, V2Objects
  <2>2. QED
    BY <2>1 DEF V2First
<1>5. QED
  BY <1>1, <1>2, <1>3, <1>4
  DEF IsEmptyDatabase, HasV2Marker, IsV2Database, HasExactV2Schema, IsAgentSlotIndexUpgrade

\* A V1 database is neither empty nor a V2 database and has no marker.
LEMMA LegacyLayouts ==
  ASSUME NEW d, IsLegacy(d)
  PROVE  d \in Database /\ ~IsEmptyDatabase(d) /\ ~HasV2Marker(d) /\ ~IsV2Database(d)
<1>1. d \in Database /\ d.versions = {"stateful.v1.initial"} /\ "v1 tables" \in d.objects
  BY DEF IsLegacy, HasLegacyLayout, V1Objects
<1>2. QED
  BY <1>1 DEF IsEmptyDatabase, HasV2Marker, IsV2Database

\* Completing a V2 database gives the exact schema.
LEMMA V2Layouts ==
  ASSUME NEW d \in Database, IsV2Database(d)
  PROVE  /\ HasV2Marker(d) /\ ~IsEmptyDatabase(d)
         /\ CreateV2First(d) = d
         /\ CreateV2Schema(d) \in Database
         /\ IsV2Database(CreateV2Schema(d)) /\ HasExactV2Schema(CreateV2Schema(d))
         /\ HasExactV2Schema(d) => CreateV2Schema(d) = d
<1>1. HasV2Marker(d) /\ V2First \subseteq d.objects /\ d.objects \subseteq V2Objects
  BY DEF IsV2Database, HasExactV2Schema, IsAgentSlotIndexUpgrade, V2First, V2Objects
<1>2. ~IsEmptyDatabase(d)
  BY <1>1 DEF IsEmptyDatabase, V2First
<1>3. d.objects \cup V2First = d.objects /\ d.versions \cup {"stateful.v2.lease1"} = d.versions
  BY <1>1 DEF HasV2Marker
<1>4. d = [objects |-> d.objects, versions |-> d.versions, shaped |-> d.shaped, twoSlots |-> d.twoSlots]
  BY DEF Database
<1>5. CreateV2First(d) = d
  BY <1>3, <1>4 DEF CreateV2First
<1>6. d.objects \cup V2Objects = V2Objects
  BY <1>1
<1>7. CreateV2Schema(d) = [objects |-> V2Objects, versions |-> d.versions, shaped |-> d.shaped, twoSlots |-> d.twoSlots]
  BY SMTT(40), <1>4, <1>5, <1>6 DEF CreateV2Schema
<1>8. CreateV2Schema(d) \in Database
  <2>1. V2Objects \in SUBSET Object
    BY DEF Object
  <2>2. d.versions \in SUBSET Version /\ d.shaped \in BOOLEAN /\ d.twoSlots \in BOOLEAN
    BY DEF Database
  <2>3. QED
    BY SMTT(40), <1>7, <2>1, <2>2 DEF Database
<1>9. HasV2Marker(CreateV2Schema(d)) /\ HasExactV2Schema(CreateV2Schema(d))
  BY SMTT(40), <1>1, <1>7 DEF HasV2Marker, HasExactV2Schema
<1>10. HasExactV2Schema(d) => CreateV2Schema(d) = d
  BY <1>4, <1>7 DEF HasExactV2Schema
<1>11. QED
  BY <1>1, <1>2, <1>5, <1>8, <1>9, <1>10 DEF IsV2Database

-----------------------------------------------------------------------------
(* Steps *)

\* What a writer may make of the content of the main file.
MainStep(d, e) ==
  \/ e = d
  \/ d = None /\ e = EmptyDb
  \/ d \in {EmptyDb, Started, V2Db} /\ e = CreateV2First(d)
  \/ d \in {Started, V2Db} /\ e = CreateV2Schema(d)
  \/ d # None /\ IsV2Database(d) /\ e = CreateV2Schema(d)

\* A writer leaves V1 databases alone, never undoes a part of the schema and
\* leaves no torn file.
LEMMA MainStepFacts ==
  ASSUME NEW d \in Database \cup {None}, NEW e, MainStep(d, e)
  PROVE  /\ e \in Database \cup {None}
         /\ d # None => e # None
         /\ e = d \/ (e # None /\ IsEmptyDatabase(e) => e = EmptyDb)
         /\ d # None /\ IsLegacy(d) => e = d
         /\ d \in {EmptyDb, Started, V2Db} => e \in {EmptyDb, Started, V2Db}
         /\ d \in {Started, V2Db} => e \in {Started, V2Db}
         /\ d = V2Db => e = V2Db
         /\ d # None /\ IsV2Database(d) => IsV2Database(e)
         /\ d # None /\ IsV2Database(d) /\ HasExactV2Schema(d) => HasExactV2Schema(e)
<1>1. CASE e = d
  BY <1>1, NoDatabaseAssumption
<1>2. CASE d = None /\ e = EmptyDb
  BY <1>2, NoDatabaseAssumption, StartedFacts
<1>3. CASE d \in {EmptyDb, Started, V2Db} /\ e = CreateV2First(d)
  <2>1. ~IsLegacy(d)
    BY <1>3, LegacyLayouts, StartedLayouts
  <2>2. QED
    BY <1>3, <2>1, NoDatabaseAssumption, StartedFacts, StartedLayouts
<1>4. CASE d \in {Started, V2Db} /\ e = CreateV2Schema(d)
  <2>1. ~IsLegacy(d)
    BY <1>4, LegacyLayouts, StartedLayouts
  <2>2. QED
    BY <1>4, <2>1, NoDatabaseAssumption, StartedFacts, StartedLayouts
<1>5. CASE d # None /\ IsV2Database(d) /\ e = CreateV2Schema(d)
  <2>1. ~IsLegacy(d)
    BY <1>5, LegacyLayouts
  <2>2. d \notin {EmptyDb, Started}
    BY <1>5, StartedLayouts
  <2>3. e \in Database /\ ~IsEmptyDatabase(e) /\ IsV2Database(e) /\ HasExactV2Schema(e)
    BY <1>5, V2Layouts
  <2>4. QED
    BY <1>5, <2>1, <2>2, <2>3, NoDatabaseAssumption, StartedFacts
<1>6. QED
  BY <1>1, <1>2, <1>3, <1>4, <1>5 DEF MainStep

\* A step outside the migration proper: the manifest and the files beside the
\* main file stay, the main file changes as a writer changes it, and the other
\* openers keep their places, connections and the lock.
Outside(o) ==
  /\ fs' = [fs EXCEPT !["main"] = fs'["main"]]
  /\ MainStep(fs["main"], fs'["main"])
  /\ manifest' = manifest /\ origin' = origin
  /\ \E to : pc' = [pc EXCEPT ![o] = to]
  /\ \E c \in {"none", "main", "stale"} : conn' = [conn EXCEPT ![o] = c]
  /\ \A q \in Opener \ {o} : lock = q => lock' = q

\* Such a step keeps everything but what the opener itself relies on.
LEMMA OutsideStep ==
  ASSUME MInv, NEW o \in Opener, Outside(o), WriterOK(o)', HolderOK(o)'
  PROVE  MInv'
<1> DEFINE d == fs["main"]
           e == fs'["main"]
<1>1. d \in Database \cup {None}
  BY DEF MInv, FilesOK, File
<1>2. MainStep(d, e)
  BY DEF Outside
<1>3. \A f \in File \ {"main"} : fs'[f] = fs[f]
  BY DEF Outside, MInv, FilesOK
<1> HIDE DEF d, e
<1>4. Typed'
  BY DEF Outside, MInv, Typed
<1>5. FilesOK'
  <2>1. e \in Database \cup {None} /\ (e = d \/ (e # None /\ IsEmptyDatabase(e) => e = EmptyDb))
    BY <1>1, <1>2, MainStepFacts
  <2>2. fs' \in [File -> Database \cup {None, Torn}]
    BY <2>1 DEF Outside, MInv, FilesOK, e
  <2>3. QED
    BY <2>1, <2>2, NoDatabaseAssumption DEF Outside, MInv, FilesOK, d, e
<1>6. Interrupted' /\ (manifest = "backup_pending" => e = d)
  <2>1. d # None /\ IsLegacy(d) => e = d
    BY <1>1, <1>2, MainStepFacts
  <2>2. IsLegacy(d) => d # None
    BY NoDatabaseAssumption DEF IsLegacy
  <2>3. QED
    BY <1>3, <2>1, <2>2 DEF Outside, MInv, Interrupted, d, e, File
<1>7. OriginKept'
  <2>1. d # None /\ IsLegacy(d) => e = d
    BY <1>1, <1>2, MainStepFacts
  <2>2. d # None /\ IsV2Database(d) => e # None /\ IsV2Database(e)
    BY <1>1, <1>2, MainStepFacts
  <2>3. origin = d /\ HasLegacyLayout(origin) => IsLegacy(d) \/ d = None
    BY <1>1 DEF IsLegacy
  <2>4. fs'["backup"] = fs["backup"] /\ manifest' = manifest /\ origin' = origin
    BY <1>3 DEF Outside, File
  <2>5. (Logical = d /\ Logical' = e) \/ Logical' = Logical
    BY <2>4 DEF Logical, d, e
  <2>6. CASE origin = None \/ ~HasLegacyLayout(origin)
    BY <2>4, <2>6 DEF OriginKept
  <2>7. CASE origin # None /\ Logical = origin /\ HasLegacyLayout(origin)
    BY <2>1, <2>3, <2>4, <2>5, <2>7 DEF OriginKept
  <2>8. CASE fs["backup"] = origin /\ manifest = None /\ d # None /\ IsV2Database(d)
    BY <2>2, <2>4, <2>8 DEF OriginKept, e
  <2>9. QED
    BY <2>6, <2>7, <2>8 DEF MInv, OriginKept, d
<1>8. ASSUME NEW q \in Opener \ {o} PROVE WriterOK(q)'
  <2>1. pc'[q] = pc[q] /\ conn'[q] = conn[q]
    BY DEF Outside, MInv, Typed
  <2>2. WriterOK(q)
    BY DEF MInv
  <2>3. QED
    BY <1>1, <1>2, <2>1, <2>2, MainStepFacts DEF WriterOK, d, e
<1>9. ASSUME NEW q \in Opener \ {o} PROVE HolderOK(q)'
  <2>1. pc'[q] = pc[q] /\ manifest' = manifest /\ (lock = q => lock' = q)
    BY DEF Outside, MInv, Typed
  <2>2. HolderOK(q) /\ Interrupted
    BY DEF MInv
  <2>3. (IsLegacy(d) => e = d) /\ (d = V2Db => e = V2Db)
    BY <1>1, <1>2, MainStepFacts, NoDatabaseAssumption DEF IsLegacy
  <2>4. pc[q] \in {"copied", "restored"} => IsLegacy(d)
    BY <2>2 DEF HolderOK, Interrupted, BackingUp, Restoring, d
  <2>5. QED
    BY <1>3, <2>1, <2>2, <2>3, <2>4 DEF HolderOK, d, e, File
<1>10. QED
  BY <1>4, <1>5, <1>6, <1>7, <1>8, <1>9 DEF MInv

\* An opener that goes on without touching a file.
Walks(o, to, c) ==
  /\ UNCHANGED <<fs, manifest, origin>>
  /\ pc' = [pc EXCEPT ![o] = to]
  /\ conn' = [conn EXCEPT ![o] = c]
  /\ \A q \in Opener \ {o} : lock = q => lock' = q

\* A step of open_file that changes no file: the opener goes to another label, perhaps with or
\* without a connection. It is a step that writes back the main file as it is.
LEMMA WalkStep ==
  ASSUME MInv, NEW o \in Opener, NEW to, NEW c \in {"none", "main", "stale"}, Walks(o, to, c),
         WriterOK(o)', HolderOK(o)'
  PROVE  Outside(o) /\ MInv'
<1>1. fs = [fs EXCEPT !["main"] = fs["main"]]
  BY DEF MInv, FilesOK, File
<1>2. Outside(o)
  BY <1>1 DEF Walks, Outside, MainStep
<1>3. QED
  BY <1>2, OutsideStep

\* Steps to a place that nothing is known about keep the invariant.
LEMMA PlainStep ==
  ASSUME MInv, NEW o \in Opener, NEW to, NEW c \in {"none", "main", "stale"}, Walks(o, to, c),
         to \notin Holding,
         c = "none" \/ (c = conn[o] /\ to \notin {"init", "tables", "finish", "serving"})
  PROVE  Outside(o) /\ MInv'
<1>1. pc'[o] = to /\ conn'[o] = c /\ fs' = fs
  BY DEF Walks, MInv, Typed
<1>2. WriterOK(o)
  BY DEF MInv
<1>3. WriterOK(o)'
  BY <1>1, <1>2 DEF WriterOK
<1>4. HolderOK(o)'
  BY <1>1 DEF HolderOK, Holding, Looking, BackingUp, Restoring, Replacing, Replaced
<1>5. QED
  BY <1>3, <1>4, WalkStep

\* The error returns.
LEMMA ReturnStep ==
  ASSUME MInv, NEW o \in Opener, NEW from, Return(o, from)
  PROVE  Outside(o) /\ MInv'
<1>1. Walks(o, "failed", "none")
  BY DEF Return, Goto, Walks, files
<1>2. "failed" \notin Holding
  BY DEF Holding, Looking, BackingUp, Restoring, Replacing, Replaced
<1>3. QED
  BY <1>1, <1>2, PlainStep

\* The beginning of open_file, and the end of a process.
LEMMA PlainSteps ==
  ASSUME MInv, NEW o \in Opener,
         OpenFile(o) \/ AcquireFails(o) \/ RejectUnknown(o) \/ Abort(o) \/ Close(o)
  PROVE  Outside(o) /\ MInv'
<1>0. conn = [conn EXCEPT ![o] = conn[o]] /\ conn[o] \in {"none", "main", "stale"}
  BY DEF MInv, Typed
<1>1. {"acquire", "look", "idle"} \cap Holding = {}
  BY DEF Holding, Looking, BackingUp, Restoring, Replacing, Replaced
<1>2. CASE OpenFile(o)
  <2>1. \E to \in {"acquire", "look"} : Walks(o, to, conn[o])
    BY <1>0, <1>2 DEF OpenFile, Walks, Keep, files
  <2>2. QED
    BY <1>0, <1>1, <2>1, PlainStep
<1>3. CASE AcquireFails(o) \/ RejectUnknown(o)
  BY <1>3, ReturnStep DEF AcquireFails, RejectUnknown
<1>4. CASE Abort(o)
  <2>1. Walks(o, "idle", "none")
    BY <1>4 DEF Abort, Walks, files
  <2>2. QED
    BY <1>1, <2>1, PlainStep
<1>5. CASE Close(o)
  <2>1. Walks(o, "idle", "none")
    BY <1>5 DEF Close, Goto, Walks, Keep
  <2>2. QED
    BY <1>1, <2>1, PlainStep
<1>6. QED
  BY <1>2, <1>3, <1>4, <1>5

\* Looking for the main file, and taking the lock.
LEMMA LookSteps ==
  ASSUME MInv, NEW o \in Opener,
         Look(o, "look", "probe") \/ Look(o, "look locked", "classify") \/ Acquire(o)
  PROVE  Outside(o) /\ MInv'
<1>0. conn = [conn EXCEPT ![o] = conn[o]] /\ conn[o] \in {"none", "main", "stale"}
  BY DEF MInv, Typed
<1>1. {"probe", "create"} \cap Holding = {}
  BY DEF Holding, Looking, BackingUp, Restoring, Replacing, Replaced
<1>2. CASE \E to \in {"probe", "create"} : Walks(o, to, conn[o])
  BY <1>0, <1>1, <1>2, PlainStep
<1>3. CASE pc[o] = "look locked" /\ Walks(o, "classify", conn[o]) /\ lock' = lock
  <2>1. pc'[o] = "classify" /\ conn'[o] = conn[o]
    BY <1>3 DEF Walks, MInv, Typed
  <2>2. WriterOK(o)' /\ HolderOK(o)'
    BY <1>3, <2>1 DEF Walks, MInv, WriterOK, HolderOK, Holding, Looking, BackingUp, Restoring, Replacing, Replaced
  <2>3. QED
    BY <1>0, <1>3, <2>2, WalkStep
<1>4. CASE Acquire(o)
  <2>1. Walks(o, "locked", conn[o])
    BY <1>0, <1>4, NoneAssumption DEF Acquire, Goto, Walks, files
  <2>2. pc'[o] = "locked" /\ conn'[o] = conn[o] /\ lock' = o
    BY <1>4, <2>1 DEF Walks, MInv, Typed, Acquire
  <2>3. WriterOK(o)' /\ HolderOK(o)'
    BY <2>1, <2>2 DEF Walks, MInv, WriterOK, HolderOK, Holding, Looking, BackingUp, Restoring, Replacing, Replaced
  <2>4. QED
    BY <1>0, <2>1, <2>3, WalkStep
<1>5. CASE \E from : Return(o, from)
  BY <1>5, ReturnStep
<1>6. QED
  BY <1>0, <1>2, <1>3, <1>4, <1>5 DEF Look, Goto, Walks, Keep, files

\* open_locked goes to the recovery that the manifest calls for.
LEMMA OpenLockedStep ==
  ASSUME MInv, NEW o \in Opener, OpenLocked(o)
  PROVE  Outside(o) /\ MInv'
<1>0. conn = [conn EXCEPT ![o] = conn[o]] /\ conn[o] \in {"none", "main", "stale"}
  BY DEF MInv, Typed
<1>1. CASE Return(o, "locked")
  BY <1>1, ReturnStep
<1>2. CASE pc[o] = "locked" /\ lock' = lock /\
           \E to : /\ Walks(o, to, conn[o])
                   /\ \/ to = "look locked" /\ manifest = None
                      \/ to = "discard" /\ manifest = "backup_pending"
                      \/ to = "restore" /\ manifest \in BackedUp
  <2>0. PICK to : /\ Walks(o, to, conn[o])
                   /\ \/ to = "look locked" /\ manifest = None
                      \/ to = "discard" /\ manifest = "backup_pending"
                      \/ to = "restore" /\ manifest \in BackedUp
    BY <1>2
  <2>1. pc'[o] = to /\ conn'[o] = conn[o] /\ lock' = o
    BY <1>2, <2>0 DEF Walks, MInv, Typed, HolderOK, Holding
  <2>2. WriterOK(o)'
    BY <2>0, <2>1 DEF Walks, MInv, WriterOK
  <2>3. HolderOK(o)'
    BY <2>0, <2>1 DEF Walks, HolderOK, Looking, BackingUp, Restoring, Replacing, Replaced
  <2>4. QED
    BY <1>0, <2>0, <2>2, <2>3, WalkStep
<1>3. manifest \in BackedUp \cup {"backup_pending", None}
  BY DEF MInv, FilesOK, BackedUp
<1>4. QED
  BY <1>0, <1>1, <1>2, <1>3 DEF OpenLocked, Goto, Walks, Keep, files

\* An opener that goes on and makes d of the main file.
Puts(o, to, c, d) ==
  /\ fs' = [fs EXCEPT !["main"] = d]
  /\ UNCHANGED <<manifest, origin>>
  /\ pc' = [pc EXCEPT ![o] = to]
  /\ conn' = [conn EXCEPT ![o] = c]
  /\ \A q \in Opener \ {o} : lock = q => lock' = q

\* A step that puts a database in the place of the main file while no manifest is there
\* (creating it, or one statement of its initialisation).
LEMMA PutStep ==
  ASSUME MInv, NEW o \in Opener, NEW to, NEW c \in {"none", "main", "stale"}, NEW d,
         Puts(o, to, c, d), MainStep(fs["main"], d),
         \/ to \notin Holding
         \/ /\ to \in {"classify", "pending"} /\ lock' = o /\ manifest = None
            /\ to = "pending" => IsLegacy(d),
         \/ c # "main"
         \/ /\ d # None
            /\ to = "init" => d \in {EmptyDb, Started, V2Db}
            /\ to = "tables" => d \in {Started, V2Db}
            /\ to = "finish" => IsV2Database(d)
            /\ to = "serving" => HasExactV2Schema(d) /\ IsV2Database(d)
  PROVE  Outside(o) /\ MInv'
<1>1. fs'["main"] = d
  BY DEF Puts, MInv, FilesOK, File
<1>2. Outside(o)
  BY <1>1 DEF Puts, Outside
<1>3. pc'[o] = to /\ conn'[o] = c /\ manifest' = manifest
  BY DEF Puts, MInv, Typed
<1>4. WriterOK(o)'
  BY <1>1, <1>3 DEF WriterOK
<1>5. HolderOK(o)'
  BY <1>1, <1>3 DEF HolderOK, Holding, Looking, BackingUp, Restoring, Replacing, Replaced
<1>6. QED
  BY <1>2, <1>4, <1>5, OutsideStep

\* Opening the main file creates it when it is missing.
LEMMA OpenedFacts ==
  ASSUME MInv
  PROVE  /\ MainStep(fs["main"], Opened)
         /\ Opened \in Database /\ Opened # None
         /\ IsEmptyDatabase(Opened) => Opened = EmptyDb
  BY NoDatabaseAssumption, StartedFacts DEF MInv, FilesOK, File, Opened, MainStep

\* The V2 test outside the lock.
LEMMA ProbeStep ==
  ASSUME MInv, NEW o \in Opener, Probe(o)
  PROVE  Outside(o) /\ MInv'
<1>0. conn = [conn EXCEPT ![o] = conn[o]] /\ conn[o] \in {"none", "main", "stale"}
  BY DEF MInv, Typed
<1>1. {"finish", "acquire"} \cap Holding = {}
  BY DEF Holding, Looking, BackingUp, Restoring, Replacing, Replaced
<1>2. CASE IsV2Database(Opened)
  <2>1. Puts(o, "finish", "main", Opened)
    BY <1>2 DEF Probe, Puts, Goto, Keep
  <2>2. QED
    BY <1>1, <1>2, <2>1, OpenedFacts, PutStep
<1>3. CASE ~IsV2Database(Opened)
  <2>1. Puts(o, "acquire", conn[o], Opened)
    BY <1>0, <1>3 DEF Probe, Puts, Goto, Keep
  <2>2. QED
    BY <1>0, <1>1, <2>1, OpenedFacts, PutStep
<1>4. QED
  BY <1>2, <1>3

\* The classification inside the lock.
LEMMA ClassifyStep ==
  ASSUME MInv, NEW o \in Opener, ClassifyLocked(o)
  PROVE  Outside(o) /\ MInv'
<1>1. CASE Return(o, "classify")
  BY <1>1, ReturnStep
<1>2. CASE \E to \in {"finish", "init", "pending"} :
             /\ Puts(o, to, "main", Opened) /\ pc[o] = "classify" /\ lock' = lock
             /\ to = "finish" => IsV2Database(Opened)
             /\ to = "init" => IsEmptyDatabase(Opened)
             /\ to = "pending" => HasLegacyLayout(Opened)
  <2>0. PICK to \in {"finish", "init", "pending"} :
             /\ Puts(o, to, "main", Opened) /\ pc[o] = "classify" /\ lock' = lock
             /\ to = "finish" => IsV2Database(Opened)
             /\ to = "init" => IsEmptyDatabase(Opened)
             /\ to = "pending" => HasLegacyLayout(Opened)
    BY <1>2
  <2>1. lock' = o /\ manifest = None
    BY <2>0 DEF MInv, HolderOK, Holding, Looking
  <2>2. to \notin Holding \/ to = "pending"
    BY <2>0 DEF Holding, Looking, BackingUp, Restoring, Replacing, Replaced
  <2>3. to = "pending" => IsLegacy(Opened)
    BY <2>0, OpenedFacts DEF IsLegacy
  <2>4. to = "init" => Opened = EmptyDb
    BY <2>0, OpenedFacts
  <2>5. QED
    BY <2>0, <2>1, <2>2, <2>3, <2>4, OpenedFacts, PutStep
<1>3. QED
  BY <1>1, <1>2 DEF ClassifyLocked, Goto, Puts, Keep

\* A missing file is created.
LEMMA CreateStep ==
  ASSUME MInv, NEW o \in Opener, CreateNewV2(o)
  PROVE  Outside(o) /\ MInv'
<1>1. CASE Return(o, "create")
  BY <1>1, ReturnStep
<1>2. CASE fs["main"] = None /\ Puts(o, "init", "main", EmptyDb)
  <2>1. MainStep(fs["main"], EmptyDb) /\ EmptyDb # None
    BY <1>2, StartedFacts, NoDatabaseAssumption DEF MainStep
  <2>2. "init" \notin Holding
    BY DEF Holding, Looking, BackingUp, Restoring, Replacing, Replaced
  <2>3. QED
    BY <1>2, <2>1, <2>2, PutStep
<1>3. QED
  BY <1>1, <1>2 DEF CreateNewV2, Goto, Puts, Keep

\* The schema is created: the writes of a connection whose file was replaced
\* reach no file that counts.
LEMMA InitializeStep ==
  ASSUME MInv, NEW o \in Opener, InitializeV2(o)
  PROVE  Outside(o) /\ MInv'
<1>0. conn = [conn EXCEPT ![o] = conn[o]] /\ conn[o] \in {"none", "main", "stale"}
  BY DEF MInv, Typed
<1>1. {"tables", "finish"} \cap Holding = {}
  BY DEF Holding, Looking, BackingUp, Restoring, Replacing, Replaced
<1>2. WriterOK(o)
  BY DEF MInv
<1>3. ASSUME conn[o] # "main", NEW to \in {"tables", "finish"}, Walks(o, to, conn[o])
      PROVE  Outside(o) /\ MInv'
  <2>1. pc'[o] = to /\ conn'[o] # "main"
    BY <1>0, <1>3 DEF Walks, MInv, Typed
  <2>2. WriterOK(o)'
    BY <2>1 DEF WriterOK
  <2>3. HolderOK(o)'
    BY <1>1, <2>1 DEF HolderOK, Holding, Looking, BackingUp, Restoring, Replacing, Replaced
  <2>4. QED
    BY <1>0, <1>3, <2>2, <2>3, WalkStep
<1>4. CASE Goto(o, "init", "tables") /\ Write(o, CreateV2First(fs["main"]))
  <2>1. CASE conn[o] = "main"
    <3>1. fs["main"] \in {EmptyDb, Started, V2Db}
      BY <1>2, <1>4, <2>1 DEF WriterOK, Goto
    <3>2. CreateV2First(fs["main"]) \in {Started, V2Db} /\ MainStep(fs["main"], CreateV2First(fs["main"]))
      BY <3>1, StartedFacts DEF MainStep
    <3>3. Puts(o, "tables", "main", CreateV2First(fs["main"]))
      BY <1>0, <1>4, <2>1 DEF Goto, Write, Puts, Keep
    <3>4. CreateV2First(fs["main"]) # None
      BY <3>2, StartedFacts, NoDatabaseAssumption
    <3>5. QED
      BY <1>1, <3>2, <3>3, <3>4, PutStep
  <2>2. CASE conn[o] # "main"
    <3>1. Walks(o, "tables", conn[o])
      BY <1>0, <1>4, <2>2 DEF Goto, Write, Walks, Keep
    <3>2. QED
      BY <1>3, <2>2, <3>1
  <2>3. QED
    BY <2>1, <2>2
<1>5. CASE Goto(o, "tables", "finish") /\ Write(o, CreateV2Schema(fs["main"]))
  <2>1. CASE conn[o] = "main"
    <3>1. fs["main"] \in {Started, V2Db}
      BY <1>2, <1>5, <2>1 DEF WriterOK, Goto
    <3>2. CreateV2Schema(fs["main"]) = V2Db /\ MainStep(fs["main"], CreateV2Schema(fs["main"]))
      BY <3>1, StartedFacts DEF MainStep
    <3>3. Puts(o, "finish", "main", CreateV2Schema(fs["main"]))
      BY <1>0, <1>5, <2>1 DEF Goto, Write, Puts, Keep
    <3>4. V2Db # None /\ IsV2Database(V2Db)
      BY StartedFacts, StartedLayouts, NoDatabaseAssumption
    <3>5. QED
      BY <1>1, <3>2, <3>3, <3>4, PutStep
  <2>2. CASE conn[o] # "main"
    <3>1. Walks(o, "finish", conn[o])
      BY <1>0, <1>5, <2>2 DEF Goto, Write, Walks, Keep
    <3>2. QED
      BY <1>3, <2>2, <3>1
  <2>3. QED
    BY <2>1, <2>2
<1>6. QED
  BY <1>4, <1>5 DEF InitializeV2

\* The last statements and the schema test of an open.
LEMMA FinishStep ==
  ASSUME MInv, NEW o \in Opener, FinishV2File(o)
  PROVE  Outside(o) /\ MInv'
<1> DEFINE d == CreateV2Schema(fs["main"])
<1>0. conn = [conn EXCEPT ![o] = conn[o]] /\ conn[o] \in {"none", "main", "stale"}
  BY DEF MInv, Typed
<1>1. {"serving", "failed"} \cap Holding = {}
  BY DEF Holding, Looking, BackingUp, Restoring, Replacing, Replaced
<1>2. WriterOK(o) /\ pc[o] = "finish"
  BY DEF MInv, FinishV2File, Goto
<1>3. CASE conn[o] = "main"
  <2>1. fs["main"] # None /\ IsV2Database(fs["main"])
    BY <1>2, <1>3 DEF WriterOK
  <2>2. fs["main"] \in Database
    BY <2>1 DEF MInv, FilesOK, File
  <2>3. d \in Database /\ d # None /\ HasExactV2Schema(d) /\ IsV2Database(d)
    BY <2>1, <2>2, V2Layouts, NoDatabaseAssumption
  <2>4. MainStep(fs["main"], d)
    BY <2>1 DEF MainStep
  <2>5. Puts(o, "serving", "main", d)
    BY <1>3, <2>3 DEF FinishV2File, Goto, Puts
  <2> HIDE DEF d
  <2>6. QED
    BY <1>1, <2>3, <2>4, <2>5, PutStep
<1>4. CASE conn[o] # "main"
  <2>1. PICK to \in {"serving", "failed"}, c \in {"none", "stale"} : Walks(o, to, c)
    BY <1>0, <1>4 DEF FinishV2File, Goto, Walks
  <2>2. pc'[o] = to /\ conn'[o] = c
    BY <2>1 DEF Walks, MInv, Typed
  <2>3. WriterOK(o)' /\ HolderOK(o)'
    BY <1>1, <2>2 DEF WriterOK, HolderOK, Holding, Looking, BackingUp, Restoring, Replacing, Replaced
  <2>4. QED
    BY <2>1, <2>3, WalkStep
<1>5. QED
  BY <1>3, <1>4

\* Two openers are never inside the lock.
LEMMA OneHolder ==
  ASSUME MInv, NEW o \in Opener, pc[o] \in Holding, NEW q \in Opener \ {o}
  PROVE  pc[q] \notin Holding
  BY DEF MInv, HolderOK

\* What a step inside the lock leaves to the others.
LEMMA InsideFrame ==
  ASSUME MInv, NEW o \in Opener, pc[o] \in Holding, NEW to, pc' = [pc EXCEPT ![o] = to],
         NEW c \in {"none", "main", "stale"},
         \/ fs'["main"] = fs["main"] /\ conn' = [conn EXCEPT ![o] = c]
         \/ conn' = Cut
  PROVE  Typed' /\ \A q \in Opener \ {o} : WriterOK(q)' /\ HolderOK(q)'
<1>1. Typed'
  BY DEF MInv, Typed, Cut
<1>2. ASSUME NEW q \in Opener \ {o} PROVE WriterOK(q)' /\ HolderOK(q)'
  <2>1. pc[q] \notin Holding /\ pc'[q] = pc[q]
    BY OneHolder DEF MInv, Typed
  <2>2. HolderOK(q)'
    BY <2>1 DEF HolderOK, Holding, Looking, BackingUp, Restoring, Replacing, Replaced
  <2>3. (fs'["main"] = fs["main"] /\ conn'[q] = conn[q]) \/ conn'[q] # "main"
    BY DEF MInv, Typed, Cut
  <2>4. WriterOK(q)
    BY DEF MInv
  <2>5. WriterOK(q)'
    BY <2>1, <2>3, <2>4 DEF WriterOK
  <2>6. QED
    BY <2>2, <2>5
<1>3. QED
  BY <1>1, <1>2

\* A step of the migration or of the recovery while the backup counts: nothing
\* it does to the other files changes the logical database.
LEMMA BackedUpStep ==
  ASSUME MInv, NEW o \in Opener, pc[o] \in Replacing \cup Replaced \cup Restoring,
         NEW to \in Replacing \cup Replaced \cup Restoring, pc' = [pc EXCEPT ![o] = to],
         lock' = lock, origin' = origin, manifest' \in BackedUp,
         fs' \in [File -> Database \cup {None, Torn}], fs'["backup"] = fs["backup"],
         \/ fs'["main"] = fs["main"] /\ conn' = conn
         \/ fs'["main"] = fs["main"] /\ conn' = [conn EXCEPT ![o] = "none"]
         \/ fs'["main"] \in {None, V2Db, fs["backup"]} /\ conn' = Cut,
         to \in {"validated", "promote"} => fs'["candidate"] = V2Db,
         to \in Replaced => fs'["main"] = V2Db,
         to = "restore rename" => fs'["restore"] = fs'["backup"],
         to = "restored" => fs'["main"] = fs'["backup"]
  PROVE  MInv' /\ Logical' = Logical
<1>0. conn = [conn EXCEPT ![o] = conn[o]] /\ conn[o] \in {"none", "main", "stale"}
  BY DEF MInv, Typed
<1>1. pc[o] \in Holding /\ to \in Holding /\ HolderOK(o) /\ WriterOK(o)
  BY DEF MInv, Holding
<1>2. lock = o /\ manifest \in BackedUp /\ IsLegacy(fs["backup"])
  BY <1>1 DEF MInv, HolderOK, Interrupted
<1>3. Typed' /\ \A q \in Opener \ {o} : WriterOK(q)' /\ HolderOK(q)'
  BY <1>0, <1>1, InsideFrame
<1>4. pc'[o] = to
  BY DEF MInv, Typed
<1>5. manifest # None /\ manifest' # None /\ manifest # "backup_pending" /\ manifest' # "backup_pending"
  BY <1>2, NoneAssumption DEF BackedUp
<1>6. Logical' = Logical /\ Logical = fs["backup"]
  BY <1>5 DEF Logical
<1>7. FilesOK'
  <2>1. \/ fs'["main"] = fs["main"]
        \/ /\ fs'["main"] \in Database \cup {None}
           /\ fs'["main"] # None => ~IsEmptyDatabase(fs'["main"])
    BY <1>2, LegacyLayouts, StartedFacts, StartedLayouts
  <2>2. manifest' \in Stages
    BY DEF BackedUp
  <2>3. QED
    BY <2>1, <2>2, NoDatabaseAssumption DEF MInv, FilesOK
<1>8. Interrupted'
  BY <1>2, <1>5 DEF Interrupted
<1>9. OriginKept'
  BY <1>5, <1>6 DEF MInv, OriginKept
<1>10. HolderOK(o)'
  <2>1. to \notin {"locked", "pending", "copied"} \cup Looking \cup BackingUp
    BY DEF Looking, BackingUp, Replacing, Replaced, Restoring
  <2>2. QED
    BY <1>2, <1>4, <2>1 DEF HolderOK
<1>11. WriterOK(o)'
  <2>1. to \notin {"init", "tables", "finish", "serving"}
    BY DEF Replacing, Replaced, Restoring
  <2>2. conn'[o] # "main" \/ (conn[o] = "main" /\ fs'["main"] = fs["main"])
    BY DEF MInv, Typed, Cut
  <2>3. QED
    BY <1>1, <1>4, <2>1, <2>2 DEF WriterOK
<1>12. QED
  BY <1>3, <1>6, <1>7, <1>8, <1>9, <1>10, <1>11 DEF MInv

\* The stages of a migration after the backup.
LEMMA ReplacingSteps ==
  ASSUME MInv, NEW o \in Opener,
         \/ Checkpoint(o) \/ OldCheckpointed(o) \/ QuarantineOldSet(o) \/ OldQuarantined(o)
         \/ CreateCandidateV2(o) \/ NewValidated(o) \/ PromoteCandidate(o) \/ NewPromoted(o)
         \/ ParentSynced(o) \/ RemoveRecovery(o)
  PROVE  MInv' /\ Logical' = Logical
<1> DEFINE Content == Database \cup {None, Torn}
<1>0. HolderOK(o) /\ fs \in [File -> Content]
  BY DEF MInv, FilesOK
<1>1. V2Db \in Content /\ Started \in Content /\ None \in Content
  BY StartedFacts
<1>2. {"old_checkpointed", "old_quarantined", "new_validated", "new_promoted", "parent_synced"}
        \subseteq BackedUp
  BY DEF BackedUp, Stages
<1>3. pc[o] \in Replacing \cup Replaced => manifest \in BackedUp
  BY <1>0 DEF HolderOK
<1>4. CASE Checkpoint(o)
  <2>1. pc[o] = "checkpoint" /\ pc' = [pc EXCEPT ![o] = "checkpointed"] /\ fs' = fs
        /\ conn' = [conn EXCEPT ![o] = "none"] /\ manifest' = manifest /\ lock' = lock /\ origin' = origin
    BY <1>4 DEF Checkpoint, Goto, Keep
  <2>2. pc[o] \in Replacing /\ "checkpointed" \in Replacing
        /\ "checkpointed" \notin Replaced \cup Restoring \cup {"validated", "promote"}
    BY <2>1 DEF Replacing, Replaced, Restoring
  <2>3. QED
    BY <1>0, <1>3, <2>1, <2>2, BackedUpStep DEF Restoring
<1>5. ASSUME NEW from, NEW stage, NEW to, Persist(o, from, stage, to), stage \in BackedUp,
             from \in Replacing \cup Replaced, to \in Replacing \cup Replaced,
             to \in Replaced => from \in Replaced,
             to \in {"validated", "promote"} => from \in {"validated", "promote"}
      PROVE  MInv' /\ Logical' = Logical
  <2>1. pc[o] = from /\ pc' = [pc EXCEPT ![o] = to] /\ fs' = fs /\ conn' = conn
        /\ manifest' = stage /\ lock' = lock /\ origin' = origin
    BY <1>5 DEF Persist, Goto, Keep
  <2>2. to \notin {"restore rename", "restored"}
    BY <1>5 DEF Replacing, Replaced
  <2>3. QED
    BY <1>0, <1>5, <2>1, <2>2, BackedUpStep DEF HolderOK
<1>6. CASE OldCheckpointed(o) \/ OldQuarantined(o) \/ NewValidated(o) \/ NewPromoted(o) \/ ParentSynced(o)
  BY <1>2, <1>5, <1>6
  DEF OldCheckpointed, OldQuarantined, NewValidated, NewPromoted, ParentSynced, Replacing, Replaced
<1>7. CASE QuarantineOldSet(o)
  <2>1. /\ pc[o] \in Replacing
        /\ \E to \in {"quarantine sidecars", "quarantined"} : pc' = [pc EXCEPT ![o] = to]
        /\ manifest' = manifest /\ lock' = lock /\ origin' = origin
    BY <1>7 DEF QuarantineOldSet, Goto, Keep, Replacing
  <2>2. /\ fs' \in [File -> Content] /\ fs'["backup"] = fs["backup"]
        /\ (fs'["main"] = fs["main"] /\ conn' = conn) \/ (fs'["main"] = None /\ conn' = Cut)
    BY <1>0, <1>1, <1>7 DEF QuarantineOldSet, File
  <2>3. /\ {"quarantine sidecars", "quarantined"} \subseteq Replacing
        /\ {"quarantine sidecars", "quarantined"} \cap (Replaced \cup Restoring \cup {"validated", "promote"}) = {}
    BY DEF Replacing, Replaced, Restoring
  <2>4. QED
    BY <1>3, <2>1, <2>2, <2>3, BackedUpStep DEF Restoring
<1>8. CASE CreateCandidateV2(o)
  <2>1. /\ pc[o] \in Replacing
        /\ \E to \in {"candidate tables", "validated"} :
             pc' = [pc EXCEPT ![o] = to] /\ (to = "validated" => fs'["candidate"] = V2Db)
        /\ manifest' = manifest /\ lock' = lock /\ origin' = origin
    BY <1>0, <1>8 DEF CreateCandidateV2, Goto, Keep, Replacing, File
  <2>2. /\ fs' \in [File -> Content] /\ fs'["backup"] = fs["backup"]
        /\ fs'["main"] = fs["main"] /\ conn' = conn
    BY <1>0, <1>1, <1>8 DEF CreateCandidateV2, File, Started
  <2>3. /\ {"candidate tables", "validated"} \subseteq Replacing
        /\ {"candidate tables", "validated"} \cap (Replaced \cup Restoring \cup {"promote"}) = {}
    BY DEF Replacing, Replaced, Restoring
  <2>4. QED
    BY <1>3, <2>1, <2>2, <2>3, BackedUpStep DEF Restoring
<1>9. CASE PromoteCandidate(o)
  <2>1. pc[o] = "promote" /\ pc' = [pc EXCEPT ![o] = "promoted"] /\ conn' = Cut
        /\ manifest' = manifest /\ lock' = lock /\ origin' = origin
    BY <1>9 DEF PromoteCandidate, Goto, Keep
  <2>2. /\ fs' \in [File -> Content] /\ fs'["backup"] = fs["backup"]
        /\ fs'["main"] = V2Db
    BY <1>0, <1>1, <1>9, <2>1 DEF PromoteCandidate, File, HolderOK
  <2>3. pc[o] \in Replacing /\ "promoted" \in Replaced
    BY <2>1 DEF Replacing, Replaced
  <2>4. QED
    BY <1>3, <2>1, <2>2, <2>3, BackedUpStep
<1>10. CASE RemoveRecovery(o)
  <2>1. pc[o] = "unquarantine" /\ pc' = [pc EXCEPT ![o] = "migrated"] /\ conn' = conn
        /\ manifest' = manifest /\ lock' = lock /\ origin' = origin
    BY <1>10 DEF RemoveRecovery, Goto, Keep
  <2>2. /\ fs' \in [File -> Content] /\ fs'["backup"] = fs["backup"]
        /\ fs'["main"] = fs["main"]
    BY <1>0, <1>1, <1>10 DEF RemoveRecovery, File
  <2>3. pc[o] \in Replaced /\ "migrated" \in Replaced
    BY <2>1 DEF Replaced
  <2>4. QED
    BY <1>0, <1>3, <2>1, <2>2, <2>3, BackedUpStep DEF HolderOK
<1>11. QED
  BY <1>4, <1>6, <1>7, <1>8, <1>9, <1>10

\* restore_backup_set, until the manifest is cleared.
LEMMA RestoringSteps ==
  ASSUME MInv, NEW o \in Opener, RemoveMixedSet(o) \/ RestoreBackupSet(o), manifest' = manifest
  PROVE  MInv' /\ Logical' = Logical
<1> DEFINE Content == Database \cup {None, Torn}
<1>0. HolderOK(o) /\ fs \in [File -> Content]
  BY DEF MInv, FilesOK
<1>1. pc[o] \in Restoring => manifest \in BackedUp /\ manifest # None
  BY <1>0, NoneAssumption DEF HolderOK, BackedUp
<1>2. ASSUME NEW to \in Restoring, pc[o] \in Restoring, pc' = [pc EXCEPT ![o] = to],
             lock' = lock, origin' = origin,
             fs' \in [File -> Content], fs'["backup"] = fs["backup"],
             \/ fs'["main"] = fs["main"] /\ conn' = conn
             \/ fs'["main"] \in {None, fs["backup"]} /\ conn' = Cut,
             to = "restore rename" => fs'["restore"] = fs'["backup"],
             to = "restored" => fs'["main"] = fs'["backup"]
      PROVE  MInv' /\ Logical' = Logical
  <2>1. to \notin Replaced \cup {"validated", "promote"}
    BY DEF Restoring, Replaced
  <2>2. QED
    BY <1>1, <1>2, <2>1, BackedUpStep
<1>3. CASE RemoveMixedSet(o)
  <2>1. /\ pc[o] \in Restoring /\ lock' = lock /\ origin' = origin
        /\ \E to \in {"restore sidecars", "restore copy"} : pc' = [pc EXCEPT ![o] = to]
    BY <1>3 DEF RemoveMixedSet, Goto, Keep, Restoring
  <2>2. /\ fs' \in [File -> Content] /\ fs'["backup"] = fs["backup"]
        /\ (fs'["main"] = fs["main"] /\ conn' = conn) \/ (fs'["main"] = None /\ conn' = Cut)
    BY <1>0, <1>3 DEF RemoveMixedSet, File
  <2>3. QED
    BY <1>2, <2>1, <2>2 DEF Restoring
<1>4. CASE RestoreBackupSet(o)
  <2>1. ~Persist(o, "restored", None, "look locked")
    BY <1>1 DEF Persist, Goto, Restoring
  <2>2. /\ pc[o] \in Restoring /\ lock' = lock /\ origin' = origin
        /\ \E to \in {"restore written", "restore rename", "restored"} :
             /\ pc' = [pc EXCEPT ![o] = to]
             /\ to = "restore rename" => fs'["restore"] = fs["backup"]
             /\ to = "restored" => fs'["main"] = fs["backup"]
    BY <1>0, <1>4, <2>1 DEF RestoreBackupSet, Goto, Keep, Restoring, HolderOK, File
  <2>3. /\ fs' \in [File -> Content] /\ fs'["backup"] = fs["backup"]
        /\ \/ fs'["main"] = fs["main"] /\ conn' = conn
           \/ fs'["main"] = fs["backup"] /\ conn' = Cut
    BY <1>0, <1>4, <2>1 DEF RestoreBackupSet, File, HolderOK, Goto
  <2>4. QED
    BY <1>2, <2>2, <2>3 DEF Restoring
<1>5. QED
  BY <1>3, <1>4

\* A step inside the lock while the main file counts and stays.
LEMMA MainCountsStep ==
  ASSUME MInv, NEW o \in Opener, pc[o] \in {"pending"} \cup BackingUp \cup {"restored"},
         NEW to \in {"look locked", "checkpoint"} \cup BackingUp, pc' = [pc EXCEPT ![o] = to],
         lock' = lock, origin' = origin, conn' = conn,
         fs' \in [File -> Database \cup {None, Torn}], fs'["main"] = fs["main"],
         to = "look locked" => manifest' = None,
         to \in BackingUp => manifest' = "backup_pending",
         to \in {"copied", "checkpoint"} => fs'["backup"] = fs'["main"],
         to = "checkpoint" => manifest' = "backup_created"
  PROVE  MInv' /\ Logical' = Logical
<1>0. conn = [conn EXCEPT ![o] = conn[o]] /\ conn[o] \in {"none", "main", "stale"}
  BY DEF MInv, Typed
<1>1. pc[o] \in Holding /\ HolderOK(o) /\ WriterOK(o) /\ Interrupted
  BY DEF MInv, Holding, Looking, Restoring
<1>2. lock = o
  BY <1>1 DEF HolderOK
<1>3. IsLegacy(fs["main"]) /\ Logical = fs["main"]
  <2>1. CASE pc[o] = "pending"
    BY <1>1, <2>1 DEF HolderOK, Looking, Logical
  <2>2. CASE pc[o] \in BackingUp
    BY <1>1, <2>2 DEF HolderOK, Interrupted, Logical
  <2>3. CASE pc[o] = "restored"
    <3>1. manifest \in BackedUp /\ fs["main"] = fs["backup"]
      BY <1>1, <2>3 DEF HolderOK, Restoring
    <3>2. QED
      BY <1>1, <3>1, NoneAssumption DEF Interrupted, Logical, BackedUp
  <2>4. QED
    BY <2>1, <2>2, <2>3
<1>4. Typed' /\ \A q \in Opener \ {o} : WriterOK(q)' /\ HolderOK(q)'
  BY <1>0, <1>1, InsideFrame
<1>5. pc'[o] = to
  BY DEF MInv, Typed
<1>6. \/ to = "look locked" /\ manifest' = None
      \/ to \in BackingUp /\ manifest' = "backup_pending"
      \/ to = "checkpoint" /\ manifest' = "backup_created"
  OBVIOUS
<1>7. "backup_created" \in BackedUp /\ "backup_pending" \in Stages /\ "backup_pending" \notin BackedUp
      /\ None \notin BackedUp \cup {"backup_pending"}
  BY NoneAssumption DEF BackedUp, Stages
<1>8. Logical' = Logical
  BY <1>3, <1>6, <1>7 DEF Logical
<1>9. FilesOK'
  BY <1>6, <1>7 DEF MInv, FilesOK, BackedUp
<1>10. Interrupted'
  BY <1>3, <1>6, <1>7 DEF Interrupted
<1>11. OriginKept'
  <2>1. ~IsV2Database(fs["main"])
    BY <1>3, LegacyLayouts
  <2>2. QED
    BY <1>8, <2>1 DEF MInv, OriginKept
<1>12. HolderOK(o)'
  <2>1. to \notin {"pending", "validated", "promote", "restore rename", "restored"} \cup Replaced
    BY DEF BackingUp, Replaced
  <2>2. CASE to = "look locked"
    BY <1>2, <1>5, <2>1, <2>2 DEF HolderOK, Looking, BackingUp, Replacing, Replaced, Restoring
  <2>3. CASE to \in BackingUp
    BY <1>2, <1>5, <2>1, <2>3 DEF HolderOK, Looking, BackingUp, Replacing, Replaced, Restoring
  <2>4. CASE to = "checkpoint"
    BY <1>2, <1>5, <1>7, <2>1, <2>4 DEF HolderOK, Looking, BackingUp, Replacing, Replaced, Restoring
  <2>5. QED
    BY <2>2, <2>3, <2>4
<1>13. WriterOK(o)'
  <2>1. to \notin {"init", "tables", "finish", "serving"}
    BY DEF BackingUp
  <2>2. QED
    BY <1>1, <1>5, <2>1 DEF WriterOK
<1>14. QED
  BY <1>4, <1>8, <1>9, <1>10, <1>11, <1>12, <1>13 DEF MInv

\* The backup, and the end of both recoveries.
LEMMA MainCountsSteps ==
  ASSUME MInv, NEW o \in Opener,
         \/ BackupPending(o) \/ CreateBackup(o) \/ BackupCreated(o) \/ DiscardBackup(o)
         \/ Persist(o, "restored", None, "look locked")
  PROVE  MInv' /\ Logical' = Logical
<1> DEFINE Content == Database \cup {None, Torn}
<1>0. HolderOK(o) /\ fs \in [File -> Content]
  BY DEF MInv, FilesOK
<1>1. pc[o] \in BackingUp => manifest = "backup_pending"
  BY <1>0 DEF HolderOK
<1>2. {"backup", "copy", "copied", "discard", "discarded"} \subseteq BackingUp
      /\ "checkpoint" \notin BackingUp /\ "look locked" \notin BackingUp
  BY DEF BackingUp
<1>3. CASE BackupPending(o)
  <2>1. pc[o] = "pending" /\ pc' = [pc EXCEPT ![o] = "backup"] /\ fs' = fs /\ conn' = conn
        /\ manifest' = "backup_pending" /\ lock' = lock /\ origin' = origin
    BY <1>3 DEF BackupPending, Persist, Goto, Keep
  <2>2. QED
    BY <1>0, <1>2, <2>1, MainCountsStep
<1>4. CASE CreateBackup(o)
  <2>1. /\ pc[o] \in BackingUp /\ manifest' = manifest /\ lock' = lock /\ origin' = origin /\ conn' = conn
        /\ fs' \in [File -> Content] /\ fs'["main"] = fs["main"]
    BY <1>0, <1>4 DEF CreateBackup, Goto, Keep, BackingUp, File
  <2>2. \E to \in {"copy", "copied"} :
          pc' = [pc EXCEPT ![o] = to] /\ (to = "copied" => fs'["backup"] = fs'["main"])
    BY <1>0, <1>4 DEF CreateBackup, Goto, File
  <2>3. QED
    BY <1>1, <1>2, <2>1, <2>2, MainCountsStep
<1>5. CASE BackupCreated(o)
  <2>1. pc[o] = "copied" /\ pc' = [pc EXCEPT ![o] = "checkpoint"] /\ fs' = fs /\ conn' = conn
        /\ manifest' = "backup_created" /\ lock' = lock /\ origin' = origin
    BY <1>5 DEF BackupCreated, Persist, Goto, Keep
  <2>2. QED
    BY <1>0, <1>2, <2>1, MainCountsStep DEF HolderOK
<1>6. CASE DiscardBackup(o)
  <2>1. CASE Persist(o, "discarded", None, "look locked")
    <3>1. pc[o] = "discarded" /\ pc' = [pc EXCEPT ![o] = "look locked"] /\ fs' = fs /\ conn' = conn
          /\ manifest' = None /\ lock' = lock /\ origin' = origin
      BY <2>1 DEF Persist, Goto, Keep
    <3>2. QED
      BY <1>0, <1>2, <3>1, MainCountsStep
  <2>2. CASE ~Persist(o, "discarded", None, "look locked")
    <3>1. pc[o] = "discard" /\ pc' = [pc EXCEPT ![o] = "discarded"] /\ conn' = conn
          /\ manifest' = manifest /\ lock' = lock /\ origin' = origin
      BY <1>6, <2>2 DEF DiscardBackup, Goto, Keep
    <3>2. fs' \in [File -> Content] /\ fs'["main"] = fs["main"]
      BY <1>0, <1>6, <2>2 DEF DiscardBackup, File
    <3>3. QED
      BY <1>1, <1>2, <3>1, <3>2, MainCountsStep
  <2>3. QED
    BY <2>1, <2>2
<1>7. CASE Persist(o, "restored", None, "look locked")
  <2>1. pc[o] = "restored" /\ pc' = [pc EXCEPT ![o] = "look locked"] /\ fs' = fs /\ conn' = conn
        /\ manifest' = None /\ lock' = lock /\ origin' = origin
    BY <1>7 DEF Persist, Goto, Keep
  <2>2. QED
    BY <1>0, <1>2, <2>1, MainCountsStep
<1>8. QED
  BY <1>3, <1>4, <1>5, <1>6, <1>7

\* The manifest is cleared: the new main file is the database from here on.
LEMMA MigrationDoneStep ==
  ASSUME MInv, NEW o \in Opener, MigrationDone(o)
  PROVE  MInv' /\ IsLegacy(Logical) /\ Logical' = V2Db
<1>1. pc[o] = "migrated" /\ pc' = [pc EXCEPT ![o] = "finish"] /\ manifest' = None
      /\ lock' = lock /\ origin' = origin /\ conn' = [conn EXCEPT ![o] = "main"]
  BY DEF MigrationDone, Goto, Keep
<1>2. HolderOK(o) /\ Interrupted /\ FilesOK /\ OriginKept
  BY DEF MInv
<1>3. pc[o] \in Holding /\ fs["main"] = V2Db /\ manifest \in BackedUp
  BY <1>1, <1>2 DEF HolderOK, Holding, Replaced
<1>4. IsLegacy(fs["backup"]) /\ Logical = fs["backup"]
  BY <1>2, <1>3, NoneAssumption DEF Interrupted, Logical, BackedUp
<1>5. V2Db # None /\ fs' = fs
  BY <1>2, <1>3, StartedFacts, NoDatabaseAssumption DEF MigrationDone, Opened, FilesOK, File
<1>6. Logical' = V2Db
  BY <1>1, <1>3, <1>5 DEF Logical
<1>7. Typed' /\ \A q \in Opener \ {o} : WriterOK(q)' /\ HolderOK(q)'
  BY <1>1, <1>3, <1>5, InsideFrame
<1>8. FilesOK' /\ Interrupted'
  BY <1>1, <1>2, <1>5, NoneAssumption DEF FilesOK, Interrupted, BackedUp, Stages
<1>9. OriginKept'
  BY <1>1, <1>2, <1>3, <1>4, <1>5, StartedLayouts, NoneAssumption DEF OriginKept, BackedUp
<1>10. WriterOK(o)' /\ HolderOK(o)'
  <2>1. pc'[o] = "finish" /\ "finish" \notin Holding
    BY <1>1 DEF MInv, Typed, Holding, Looking, BackingUp, Replacing, Replaced, Restoring
  <2>2. HolderOK(o)'
    BY <2>1 DEF HolderOK, Holding, Looking, BackingUp, Replacing, Replaced, Restoring
  <2>3. WriterOK(o)'
    BY <1>3, <1>5, <2>1, StartedLayouts DEF WriterOK
  <2>4. QED
    BY <2>2, <2>3
<1>11. QED
  BY <1>4, <1>6, <1>7, <1>8, <1>9, <1>10 DEF MInv

-----------------------------------------------------------------------------
(* The specification *)

\* What is there before the first open.
LEMMA InitMInv == Init => MInv
<1> SUFFICES ASSUME Init PROVE MInv
  OBVIOUS
<1>1. /\ \A f \in File : fs[f] = IF f = "main" THEN origin ELSE None
      /\ fs \in [File -> Database \cup {None, Torn}]
      /\ fs["main"] = origin /\ origin \in Database \cup {None}
      /\ origin # None /\ IsEmptyDatabase(origin) => origin = EmptyDb
      /\ manifest = None
  BY FoundAssumption DEF Init, File
<1>2. FilesOK /\ Interrupted /\ OriginKept /\ Typed
  BY <1>1, NoneAssumption, NoDatabaseAssumption
  DEF Init, FilesOK, Interrupted, OriginKept, Typed, Logical, BackedUp, Stages
<1>3. ASSUME NEW o \in Opener PROVE WriterOK(o) /\ HolderOK(o)
  BY DEF Init, WriterOK, HolderOK, Holding, Looking, BackingUp, Replacing, Replaced, Restoring
<1>4. QED
  BY <1>2, <1>3 DEF MInv

\* Every step of an opener keeps the invariant, and is one of three kinds: a
\* step outside the migration proper, one that the logical database does not
\* notice, or the one that replaces it.
LEMMA EveryStep ==
  ASSUME MInv, NEW o \in Opener, Opening(o) \/ Migrating(o) \/ Abort(o) \/ Close(o)
  PROVE  /\ MInv'
         /\ \/ Outside(o)
            \/ Logical' = Logical
            \/ IsLegacy(Logical) /\ Logical' = V2Db
<1>1. CASE Opening(o) \/ Abort(o) \/ Close(o)
  <2>1. CASE DiscardBackup(o)
    BY <2>1, MainCountsSteps
  <2>2. CASE RemoveMixedSet(o) \/ RestoreBackupSet(o)
    <3>1. manifest' = manifest \/ Persist(o, "restored", None, "look locked")
      BY <2>2 DEF RemoveMixedSet, RestoreBackupSet
    <3>2. QED
      BY <2>2, <3>1, RestoringSteps, MainCountsSteps
  <2>3. CASE ~DiscardBackup(o) /\ ~RemoveMixedSet(o) /\ ~RestoreBackupSet(o)
    BY <1>1, <2>3, PlainSteps, LookSteps, OpenLockedStep, ProbeStep, ClassifyStep, CreateStep,
       InitializeStep, FinishStep DEF Opening
  <2>4. QED
    BY <2>1, <2>2, <2>3
<1>2. CASE Migrating(o)
  BY <1>2, ReplacingSteps, MainCountsSteps, MigrationDoneStep DEF Migrating
<1>3. QED
  BY <1>1, <1>2

\* The invariant is inductive.
LEMMA NextMInv == MInv /\ [Next]_vars => MInv'
<1>1. MInv /\ Next => MInv'
  BY EveryStep DEF Next
<1>2. MInv /\ UNCHANGED vars => MInv'
  BY DEF vars, MInv, Typed, FilesOK, Interrupted, OriginKept, Logical, WriterOK, HolderOK
<1>3. QED
  BY <1>1, <1>2

\* A V1 database that was there at the start is never lost, whatever is
\* interrupted and whatever the pace of the processes.
THEOREM LegacyIsKept == Spec => []LegacyKept
<1>1. MInv => LegacyKept
  BY NoneAssumption DEF MInv, OriginKept, LegacyKept, Logical, FilesOK
<1>2. QED
  BY <1>1, InitMInv, NextMInv, PTL DEF Spec

\* AtomicStore speaks of the same layouts.
LEMMA AtomicLayouts ==
  ASSUME NEW d
  PROVE  /\ Atomic!EmptyDb = EmptyDb /\ Atomic!V2Db = V2Db
         /\ Atomic!CreateV2First(d) = CreateV2First(d)
         /\ Atomic!CreateV2Schema(d) = CreateV2Schema(d)
         /\ Atomic!IsEmptyDatabase(d) <=> IsEmptyDatabase(d)
         /\ Atomic!HasExactV2Schema(d) <=> HasExactV2Schema(d)
         /\ Atomic!IsV2Database(d) <=> IsV2Database(d)
         /\ Atomic!HasLegacyLayout(d) <=> HasLegacyLayout(d)
<1>1. Atomic!V2First = V2First /\ Atomic!V2Objects = V2Objects /\ Atomic!EmptyDb = EmptyDb
  BY DEF V2First, V2Objects, EmptyDb, Atomic!V2First, Atomic!V2Objects, Atomic!EmptyDb
<1>2. \A x : Atomic!CreateV2First(x) = CreateV2First(x)
  BY <1>1 DEF CreateV2First, Atomic!CreateV2First
<1>3. \A x : Atomic!CreateV2Schema(x) = CreateV2Schema(x)
  BY <1>1, <1>2 DEF CreateV2Schema, Atomic!CreateV2Schema
<1>4. Atomic!V2Db = V2Db
  BY <1>1, <1>3 DEF V2Db, Atomic!V2Db
<1>5. /\ Atomic!IsEmptyDatabase(d) <=> IsEmptyDatabase(d)
      /\ Atomic!HasExactV2Schema(d) <=> HasExactV2Schema(d)
      /\ Atomic!IsAgentSlotIndexUpgrade(d) <=> IsAgentSlotIndexUpgrade(d)
      /\ Atomic!HasV2Marker(d) <=> HasV2Marker(d)
  BY <1>1
  DEF IsEmptyDatabase, HasExactV2Schema, IsAgentSlotIndexUpgrade, HasV2Marker, Atomic!IsEmptyDatabase,
      Atomic!HasExactV2Schema, Atomic!IsAgentSlotIndexUpgrade, Atomic!HasV2Marker
<1>6. Atomic!IsV2Database(d) <=> IsV2Database(d)
  BY <1>5 DEF IsV2Database, Atomic!IsV2Database
<1>7. Atomic!HasLegacyLayout(d) <=> HasLegacyLayout(d)
  BY DEF HasLegacyLayout, V1Objects, V1HumanObservations, V1WriteFences,
         Atomic!HasLegacyLayout, Atomic!V1Objects, Atomic!V1HumanObservations, Atomic!V1WriteFences
<1>8. QED
  BY <1>1, <1>2, <1>3, <1>4, <1>5, <1>6, <1>7

\* What a writer makes of the main file is a step of AtomicStore.
LEMMA WriterIsAtomic ==
  ASSUME Logical \in Database \cup {None}, MainStep(Logical, Logical')
  PROVE  Atomic!Next \/ Logical' = Logical
<1>1. CASE Logical = None /\ Logical' = EmptyDb
  BY <1>1, AtomicLayouts DEF Atomic!Next, Atomic!Create
<1>2. CASE Logical \in {EmptyDb, Started, V2Db} /\ Logical' = CreateV2First(Logical)
  <2>1. CASE Logical = EmptyDb
    BY <1>2, <2>1, AtomicLayouts, StartedFacts, StartedLayouts, NoDatabaseAssumption
    DEF Atomic!Next, Atomic!Begin
  <2>2. QED
    BY <1>2, <2>1, StartedFacts
<1>3. CASE Logical \in {Started, V2Db} /\ Logical' = CreateV2Schema(Logical)
  <2>1. CASE Logical = Started
    BY <1>3, <2>1, AtomicLayouts, StartedFacts, NoDatabaseAssumption
    DEF Atomic!Next, Atomic!Complete
  <2>2. QED
    BY <1>3, <2>1, StartedFacts
<1>4. CASE Logical # None /\ IsV2Database(Logical) /\ Logical' = CreateV2Schema(Logical)
  <2>1. CASE HasExactV2Schema(Logical)
    BY <1>4, <2>1, V2Layouts
  <2>2. CASE ~HasExactV2Schema(Logical)
    BY <1>4, <2>2, AtomicLayouts DEF Atomic!Next, Atomic!AddIndex
  <2>3. QED
    BY <2>1, <2>2
<1>5. QED
  BY <1>1, <1>2, <1>3, <1>4 DEF MainStep

\* Every step of every opener is a step of AtomicStore or one that it does not
\* notice.
LEMMA StepIsAtomic == MInv /\ [Next]_vars => [Atomic!Next]_Logical
<1>1. ASSUME MInv, NEW o \in Opener, Opening(o) \/ Migrating(o) \/ Abort(o) \/ Close(o)
      PROVE  [Atomic!Next]_Logical
  <2>1. CASE IsLegacy(Logical) /\ Logical' = V2Db
    BY <2>1, AtomicLayouts, NoDatabaseAssumption DEF IsLegacy, Atomic!Next, Atomic!Migrate
  <2>2. CASE Outside(o)
    <3>1. fs["main"] \in Database \cup {None} /\ fs'["backup"] = fs["backup"] /\ manifest' = manifest
      BY <1>1, <2>2 DEF Outside, MInv, FilesOK, File
    <3>2. CASE manifest \in {None, "backup_pending"}
      <4>1. Logical = fs["main"] /\ Logical' = fs'["main"]
        BY <3>1, <3>2 DEF Logical
      <4>2. QED
        BY <2>2, <3>1, <4>1, WriterIsAtomic DEF Outside
    <3>3. CASE manifest \notin {None, "backup_pending"}
      BY <3>1, <3>3 DEF Logical
    <3>4. QED
      BY <3>2, <3>3
  <2>3. QED
    BY <1>1, <2>1, <2>2, EveryStep
<1>2. UNCHANGED vars => Logical' = Logical
  BY DEF vars, Logical
<1>3. QED
  BY <1>1, <1>2 DEF Next

\* open_file implements AtomicStore as far as safety goes: through every
\* interleaving, interruption and recovery the logical database is created,
\* initialised, upgraded or migrated in the single steps that AtomicStore has,
\* and never goes back.
THEOREM OpenFileIsAtomic == Spec => Atomic!Safety
<1>1. Init => Atomic!Init
  BY DEF Init, Atomic!Init, Logical, File
<1>2. QED
  BY <1>1, InitMInv, NextMInv, StepIsAtomic, PTL DEF Spec, Atomic!Safety

-----------------------------------------------------------------------------
(* Until an opener without the lock meddles *)

\* An opener outside the migration proper gives the main file sidecars of its
\* own or takes them away, and creates it only beside no others.
SidesOK ==
  /\ \/ side' = side
     \/ side' = [side EXCEPT !["main"] = "none"]
     \/ side' = [side EXCEPT !["main"] = "own"] /\ fs["main"] # None
  /\ fs["main"] = None /\ fs'["main"] # None => manifest = None /\ side["main"] # "foreign"

\* What such a step leaves to the others.
LEMMA OutsideServed ==
  ASSUME MInv, PInv, NEW o \in Opener, Outside(o), SidesOK, RelianceOK(o)'
  PROVE  PInv'
<1>1. fs["main"] # None => fs'["main"] # None
  BY MainStepFacts DEF Outside, MInv, FilesOK, File
<1>2. side' \in [File -> {"none", "own", "foreign"}] /\ side'["main"] \in {"none", "own", side["main"]}
  BY DEF SidesOK, PInv, File
<1>3. Unmixed'
  BY <1>1, <1>2 DEF SidesOK, PInv, Unmixed, File
<1>4. ASSUME NEW q \in Opener \ {o} PROVE RelianceOK(q)'
  <2>1. pc'[q] = pc[q] /\ conn'[q] = conn[q] /\ manifest' = manifest
    BY DEF Outside, MInv, Typed
  <2>2. RelianceOK(q) /\ HolderOK(q)
    BY DEF PInv, MInv
  <2>4. CASE pc[q] \in Using \cup {"probe", "create", "classify"}
    BY <1>1, <1>2, <2>1, <2>2, <2>4 DEF RelianceOK, Using
  <2>5. CASE pc[q] \in Replacing \cup Restoring
    <3>1. manifest # None
      BY <2>2, <2>5, NoneAssumption DEF HolderOK, BackedUp
    <3>2. fs["main"] = None => fs'["main"] = None /\ side'["main"] \in {"none", side["main"]}
      BY <3>1 DEF SidesOK, PInv, File
    <3>3. QED
      BY <2>1, <2>2, <2>5, <3>2 DEF RelianceOK, Replacing, Restoring, Using
  <2>6. CASE pc[q] \notin Using \cup {"probe", "create", "classify"} \cup Replacing \cup Restoring
    BY <2>1, <2>6 DEF RelianceOK, Replacing, Restoring, Using
  <2>7. QED
    BY <2>4, <2>5, <2>6
<1>5. QED
  BY <1>2, <1>3, <1>4 DEF PInv

\* Places that RelianceOK says nothing about.
Free ==
  {"idle", "failed", "acquire", "look", "locked", "look locked", "pending", "discard", "restore"}

\* At these labels of open_file there is nothing to show of the opener.
LEMMA FreePlace ==
  ASSUME NEW o \in Opener, pc'[o] \in Free
  PROVE  RelianceOK(o)'
  BY DEF Free, RelianceOK, Using

\* The steps that touch no database file.
LEMMA ServedPlain ==
  ASSUME MInv, PInv, NEW o \in Opener, Outside(o), fs' = fs,
         side' \in {side, [side EXCEPT !["main"] = "none"]}, pc'[o] \in Free
  PROVE  PInv'
  BY OutsideServed, FreePlace DEF SidesOK

\* An open that returns an error changes no file.
LEMMA ServedReturn ==
  ASSUME MInv, PInv, NEW o \in Opener, NEW from, Return(o, from)
  PROVE  PInv'
<1>1. fs' = fs /\ side' = side /\ pc'[o] \in Free
  BY DEF Return, Goto, files, MInv, Typed, Free
<1>2. QED
  BY <1>1, ReturnStep, ServedPlain

\* Waiting for the lock, taking it, giving up, stopping and closing change no database file.
LEMMA ServedPlainSteps ==
  ASSUME MInv, PInv, NEW o \in Opener,
         \/ AcquireFails(o) \/ RejectUnknown(o) \/ Abort(o) \/ Close(o) \/ Acquire(o) \/ OpenLocked(o)
  PROVE  PInv'
<1>1. CASE AcquireFails(o) \/ RejectUnknown(o)
  BY <1>1, ServedReturn DEF AcquireFails, RejectUnknown
<1>2. CASE Abort(o) \/ Close(o)
  <2>1. fs' = fs /\ side' \in {side, [side EXCEPT !["main"] = "none"]} /\ pc'[o] \in Free
    BY <1>2 DEF Abort, Close, Goto, files, MInv, Typed, Free
  <2>2. QED
    BY <1>2, <2>1, PlainSteps, ServedPlain
<1>3. CASE Acquire(o)
  <2>1. fs' = fs /\ side' = side /\ pc'[o] \in Free
    BY <1>3 DEF Acquire, Goto, files, MInv, Typed, Free
  <2>2. QED
    BY <1>3, <2>1, LookSteps, ServedPlain
<1>4. CASE OpenLocked(o)
  <2>1. fs' = fs /\ side' = side /\ pc'[o] \in Free
    BY <1>4 DEF OpenLocked, Return, Goto, files, MInv, Typed, Free
  <2>2. QED
    BY <1>4, <2>1, OpenLockedStep, ServedPlain
<1>5. QED
  BY <1>1, <1>2, <1>3, <1>4

\* Looking for a manifest and for the main file.
LEMMA ServedLook ==
  ASSUME MInv, PInv, NEW o \in Opener,
         OpenFile(o) \/ Look(o, "look", "probe") \/ Look(o, "look locked", "classify")
  PROVE  PInv'
<1>1. CASE \E from : Return(o, from)
  BY <1>1, ServedReturn
<1>2. CASE OpenFile(o)
  <2>1. fs' = fs /\ side' = side /\ pc'[o] \in Free
    BY <1>2 DEF OpenFile, files, MInv, Typed, Free
  <2>2. QED
    BY <1>2, <2>1, PlainSteps, ServedPlain
<1>3. ASSUME NEW from \in {"look", "look locked"}, NEW exists \in {"probe", "classify"},
             Look(o, from, exists), ~Return(o, from), Outside(o)
      PROVE  PInv'
  <2>1. fs' = fs /\ side' = side /\ manifest' = manifest
        /\ \/ pc'[o] = exists /\ fs["main"] # None
           \/ pc'[o] = "create" /\ side["main"] = "none"
    BY <1>3 DEF Look, Goto, files, MInv, Typed
  <2>2. RelianceOK(o)'
    BY <2>1 DEF RelianceOK, Using
  <2>3. QED
    BY <1>3, <2>1, <2>2, OutsideServed DEF SidesOK
<1>4. QED
  BY <1>1, <1>2, <1>3, LookSteps

\* Opening the main file, inside and outside the lock: it is still there, or
\* the opener has meddled.
LEMMA ServedOpen ==
  ASSUME MInv, PInv, NEW o \in Opener, Probe(o) \/ ClassifyLocked(o), ~raced'
  PROVE  PInv'
<1>1. CASE \E from : Return(o, from)
  BY <1>1, ServedReturn
<1>2. CASE ~\E from : Return(o, from)
  <2>1. RelianceOK(o) /\ HolderOK(o)
    BY DEF PInv, MInv
  <2>2. /\ fs["main"] # None
        /\ manifest = None \/ ~IsV2Database(fs["main"])
    <3>1. CASE ClassifyLocked(o)
      BY <1>2, <2>1, <3>1 DEF ClassifyLocked, Goto, RelianceOK, HolderOK, Looking
    <3>2. CASE Probe(o)
      <4>1. ~Meddles /\ pc[o] = "probe"
        BY <3>2 DEF Probe, Goto
      <4>2. CASE manifest = None
        BY <2>1, <4>1, <4>2 DEF RelianceOK
      <4>3. CASE manifest # None
        <5>1. fs["main"] # None /\ HasLegacyLayout(fs["main"])
          BY <4>1, <4>3 DEF Meddles
        <5>2. fs["main"] \in Database
          BY <5>1 DEF MInv, FilesOK, File
        <5>3. QED
          BY <5>1, <5>2, LegacyLayouts DEF IsLegacy
      <4>4. QED
        BY <4>2, <4>3
    <3>3. QED
      BY <3>1, <3>2
  <2>3. Opened = fs["main"] /\ fs' = fs /\ manifest' = manifest
    BY <1>2, <2>2 DEF Probe, ClassifyLocked, Opened, MInv, FilesOK, File
  <2>4. \/ side' = side
        \/ side' = [side EXCEPT !["main"] = "none"]
        \/ side' = [side EXCEPT !["main"] = "own"]
    BY <1>2 DEF Probe, ClassifyLocked
  <2>5. pc'[o] \in Free \/ (pc'[o] \in {"finish", "init"} /\ conn'[o] = "main" /\ manifest = None)
    <3>1. CASE Probe(o)
      BY <2>2, <2>3, <3>1 DEF Probe, Goto, MInv, Typed, Free
    <3>2. CASE ClassifyLocked(o)
      <4>1. manifest = None
        BY <1>2, <2>1, <3>2 DEF ClassifyLocked, Goto, HolderOK, Looking
      <4>2. QED
        BY <1>2, <3>2, <4>1 DEF ClassifyLocked, Goto, MInv, Typed, Free
    <3>3. QED
      BY <3>1, <3>2
  <2>6. RelianceOK(o)'
    BY <2>3, <2>5, FreePlace DEF RelianceOK, Using
  <2>7. QED
    BY <2>2, <2>3, <2>4, <2>6, ProbeStep, ClassifyStep, OutsideServed DEF SidesOK
<1>3. QED
  BY <1>1, <1>2

\* Creating and initialising a database, and the end of an open.
LEMMA ServedWrite ==
  ASSUME MInv, PInv, NEW o \in Opener, CreateNewV2(o) \/ InitializeV2(o) \/ FinishV2File(o),
         ~raced'
  PROVE  PInv'
<1>1. RelianceOK(o) /\ WriterOK(o)
  BY DEF PInv, MInv
<1>2. CASE Return(o, "create")
  BY <1>2, ServedReturn
<1>3. CASE CreateNewV2(o) /\ ~Return(o, "create")
  <2>1. manifest = None /\ manifest' = manifest /\ side' = side /\ side["main"] # "foreign"
    BY <1>1, <1>3 DEF CreateNewV2, Meddles, Goto, RelianceOK
  <2>2. pc'[o] = "init" /\ conn'[o] = "main"
    BY <1>3 DEF CreateNewV2, Goto, MInv, Typed
  <2>3. RelianceOK(o)'
    BY <2>1, <2>2 DEF RelianceOK, Using
  <2>4. QED
    BY <1>3, <2>1, <2>3, CreateStep, OutsideServed DEF SidesOK
<1>4. CASE InitializeV2(o)
  <2>1. manifest = None /\ manifest' = manifest /\ conn[o] = "main" /\ fs["main"] # None
    BY <1>1, <1>4 DEF InitializeV2, Write, Goto, RelianceOK, Using, WriterOK
  <2>2. pc'[o] \in {"tables", "finish"} /\ conn' = conn /\ side' = [side EXCEPT !["main"] = "own"]
    BY <1>4, <2>1 DEF InitializeV2, Write, Goto, MInv, Typed
  <2>3. RelianceOK(o)'
    BY <2>1, <2>2 DEF RelianceOK, Using
  <2>4. QED
    BY <1>4, <2>1, <2>2, <2>3, InitializeStep, OutsideServed DEF SidesOK
<1>5. CASE FinishV2File(o)
  <2>1. manifest = None /\ manifest' = manifest /\ conn[o] = "main" /\ fs["main"] # None
    BY <1>1, <1>5 DEF FinishV2File, Goto, RelianceOK, Using, WriterOK
  <2>2. side' = [side EXCEPT !["main"] = "own"]
    BY <1>5, <2>1 DEF FinishV2File
  <2>3. pc'[o] = "failed" \/ (pc'[o] = "serving" /\ conn'[o] = "main")
    BY <1>5, <2>1 DEF FinishV2File, Goto, MInv, Typed
  <2>4. RelianceOK(o)'
    BY <2>1, <2>3 DEF RelianceOK, Using
  <2>5. QED
    BY <1>5, <2>1, <2>2, <2>4, FinishStep, OutsideServed DEF SidesOK
<1>6. QED
  BY <1>2, <1>3, <1>4, <1>5

\* Inside the lock, with a manifest: nobody else uses the main file, and it is
\* there when the manifest goes.
LEMMA InsideServed ==
  ASSUME MInv, PInv, NEW o \in Opener, pc[o] \in Holding, manifest # None,
         NEW to, pc' = [pc EXCEPT ![o] = to],
         side' \in [File -> {"none", "own", "foreign"}],
         \/ fs'["main"] = None
         \/ side'["main"] = "none"
         \/ fs'["main"] = fs["main"] /\ side'["main"] = side["main"],
         manifest' # None \/ fs'["main"] # None,
         to \notin (Using \ {"finish"}) \cup {"probe", "create", "classify"},
         to = "finish" => conn'[o] = "main" /\ manifest' = None,
         to \in {"quarantine sidecars", "restore sidecars"} => fs'["main"] = None,
         to \in {"quarantined", "candidate", "candidate tables", "validated", "promote",
                 "restore copy", "restore written", "restore rename"} =>
           fs'["main"] = None /\ side'["main"] = "none"
  PROVE  PInv'
<1>1. Unmixed'
  BY DEF PInv, Unmixed
<1>2. RelianceOK(o)'
  <2>1. pc'[o] = to
    BY DEF MInv, Typed
  <2>2. QED
    BY <2>1 DEF RelianceOK, Using
<1>3. ASSUME NEW q \in Opener \ {o} PROVE RelianceOK(q)'
  <2>1. pc'[q] = pc[q] /\ pc[q] \notin Holding
    BY OneHolder DEF MInv, Typed
  <2>2. pc[q] \notin Using
    BY DEF PInv, RelianceOK
  <2>3. QED
    BY <2>1, <2>2 DEF RelianceOK, Holding, Looking, Replacing, Restoring
<1>4. QED
  BY <1>1, <1>2, <1>3 DEF PInv

\* The lock holder of a migration or a recovery has a manifest.
LEMMA ManifestIsThere ==
  ASSUME MInv, NEW o \in Opener, pc[o] \in BackingUp \cup Replacing \cup Replaced \cup Restoring
  PROVE  manifest # None /\ pc[o] \in Holding
  BY NoneAssumption DEF MInv, HolderOK, BackedUp, Stages, Holding

\* A migration begins with a V1 database, which nobody uses.
LEMMA ServedPending ==
  ASSUME MInv, PInv, NEW o \in Opener, BackupPending(o)
  PROVE  PInv'
<1>1. /\ pc[o] = "pending" /\ pc' = [pc EXCEPT ![o] = "backup"] /\ manifest' = "backup_pending"
      /\ fs' = fs /\ side' = side /\ conn' = conn
  BY DEF BackupPending, Persist, Goto
<1>2. pc[o] \in Holding /\ IsLegacy(fs["main"]) /\ manifest' # None
  BY <1>1, NoneAssumption DEF MInv, HolderOK, Holding, Looking, Stages
<1>3. RelianceOK(o)'
  <2>1. pc'[o] = "backup"
    BY <1>1 DEF MInv, Typed
  <2>2. QED
    BY <2>1 DEF RelianceOK, Using
<1>4. ASSUME NEW q \in Opener \ {o} PROVE RelianceOK(q)'
  <2>1. pc'[q] = pc[q] /\ pc[q] \notin Holding
    BY <1>1, <1>2, OneHolder DEF MInv, Typed
  <2>2. RelianceOK(q) /\ WriterOK(q) /\ ~IsV2Database(fs["main"])
    BY <1>2, LegacyLayouts DEF PInv, MInv
  <2>3. fs["main"] \notin {EmptyDb, Started, V2Db}
    BY <1>2, LegacyLayouts, StartedLayouts
  <2>4. pc[q] \notin Using
    BY <2>2, <2>3 DEF RelianceOK, WriterOK, Using
  <2>5. QED
    BY <1>2, <2>1, <2>4 DEF RelianceOK, Holding, Looking, Replacing, Restoring
<1>5. QED
  BY <1>1, <1>3, <1>4 DEF PInv, Unmixed

\* A change of the manifest alone.
LEMMA ServedPersist ==
  ASSUME MInv, PInv, NEW o \in Opener, NEW from, NEW stage, NEW to, Persist(o, from, stage, to),
         from \in BackingUp \cup Replacing \cup Replaced \cup Restoring,
         to \notin Using \cup {"probe", "create", "classify", "quarantine sidecars", "restore sidecars"},
         stage # None \/ fs["main"] # None,
         to \in {"quarantined", "candidate", "candidate tables", "validated", "promote",
                 "restore copy", "restore written", "restore rename"} =>
           from \in {"quarantined", "validated"}
  PROVE  PInv'
<1>1. pc[o] = from /\ pc' = [pc EXCEPT ![o] = to] /\ fs' = fs /\ side' = side
  BY DEF Persist, Goto
<1>2. manifest # None /\ pc[o] \in Holding
  BY <1>1, ManifestIsThere
<1>3. RelianceOK(o) /\ side \in [File -> {"none", "own", "foreign"}]
  BY DEF PInv
<1>4. to \in {"quarantined", "candidate", "candidate tables", "validated", "promote",
              "restore copy", "restore written", "restore rename"} =>
        fs'["main"] = None /\ side'["main"] = "none"
  BY <1>1, <1>3 DEF RelianceOK
<1>5. QED
  <2>1. manifest' # None \/ fs'["main"] # None
    BY <1>1 DEF Persist
  <2>2. to # "finish"
    BY DEF Using
  <2>3. QED
    BY <1>1, <1>2, <1>3, <1>4, <2>1, <2>2, InsideServed

\* Writing the next stage into the manifest changes no database file, and the holder of the lock
\* goes on to the next operation of the migration.
LEMMA ServedPersists ==
  ASSUME MInv, PInv, NEW o \in Opener,
         \/ BackupCreated(o) \/ OldCheckpointed(o) \/ OldQuarantined(o) \/ NewValidated(o)
         \/ NewPromoted(o) \/ ParentSynced(o)
         \/ Persist(o, "discarded", None, "look locked") \/ Persist(o, "restored", None, "look locked")
  PROVE  PInv'
<1>1. PICK from, stage, to :
        /\ Persist(o, from, stage, to)
        /\ <<from, to>> \in {<<"copied", "checkpoint">>, <<"checkpointed", "quarantine">>,
                             <<"quarantined", "candidate">>, <<"validated", "promote">>,
                             <<"promoted", "sync">>, <<"sync", "unquarantine">>,
                             <<"discarded", "look locked">>, <<"restored", "look locked">>}
        /\ stage \in Stages \/ from \in {"discarded", "restored"}
  BY DEF BackupCreated, OldCheckpointed, OldQuarantined, NewValidated, NewPromoted, ParentSynced, Stages
<1>2. from \in BackingUp \cup Replacing \cup Replaced \cup Restoring
  BY <1>1 DEF BackingUp, Replacing, Replaced, Restoring
<1>3. to \notin Using
  BY <1>1 DEF Using
<1>4. stage # None \/ fs["main"] # None
  <2>1. CASE stage \in Stages
    BY <2>1, NoneAssumption
  <2>2. CASE from \in {"discarded", "restored"}
    <3>1. HolderOK(o) /\ Interrupted /\ pc[o] = from
      BY <1>1 DEF MInv, Persist, Goto
    <3>2. IsLegacy(fs["main"])
      BY <2>2, <3>1 DEF HolderOK, Interrupted, BackingUp, Restoring
    <3>3. QED
      BY <3>2, NoDatabaseAssumption DEF IsLegacy
  <2>3. QED
    BY <1>1, <2>1, <2>2
<1>5. QED
  BY <1>1, <1>2, <1>3, <1>4, ServedPersist

\* The steps of a migration that touch files.  Sidecars follow the main file.
LEMMA ServedMigrating ==
  ASSUME MInv, PInv, NEW o \in Opener,
         \/ CreateBackup(o) \/ Checkpoint(o) \/ QuarantineOldSet(o) \/ CreateCandidateV2(o)
         \/ PromoteCandidate(o) \/ RemoveRecovery(o) \/ MigrationDone(o)
  PROVE  PInv'
<1> DEFINE Sides == [File -> {"none", "own", "foreign"}]
<1>0. RelianceOK(o) /\ HolderOK(o) /\ side \in Sides /\ fs \in [File -> Database \cup {None, Torn}]
  BY DEF PInv, MInv, FilesOK
<1>1. pc[o] \in {"backup", "copy", "checkpoint", "quarantine", "quarantine sidecars", "candidate",
                 "candidate tables", "promote", "unquarantine", "migrated"}
  BY DEF CreateBackup, Checkpoint, QuarantineOldSet, CreateCandidateV2, PromoteCandidate,
         RemoveRecovery, MigrationDone, Goto
<1>2. manifest # None /\ pc[o] \in Holding
  BY <1>1, ManifestIsThere DEF BackingUp, Replacing, Replaced
<1>3. \A s \in {"none", "own", "foreign"} : Orphaned(s) \in {"none", "own", "foreign"}
  BY DEF Orphaned
<1>4. CASE CreateBackup(o)
  <2>1. /\ manifest' = manifest /\ side' = side /\ fs'["main"] = fs["main"]
        /\ \E to \in {"copy", "copied"} : pc' = [pc EXCEPT ![o] = to]
    BY <1>0, <1>4 DEF CreateBackup, Goto, File
  <2>2. QED
    BY <1>0, <1>2, <2>1, InsideServed DEF Using
<1>5. CASE Checkpoint(o)
  <2>1. /\ manifest' = manifest /\ side' \in Sides /\ side'["main"] = "none"
        /\ pc' = [pc EXCEPT ![o] = "checkpointed"]
    BY <1>0, <1>5 DEF Checkpoint, Goto, File
  <2>2. QED
    BY <1>2, <2>1, InsideServed DEF Using
<1>6. CASE QuarantineOldSet(o)
  <2>1. CASE Goto(o, "quarantine", "quarantine sidecars")
    <3>1. ~Goto(o, "quarantine sidecars", "quarantined")
      BY <2>1 DEF Goto
    <3>2. /\ fs' = [fs EXCEPT !["recovery"] = fs["main"], !["main"] = None]
          /\ side' = [side EXCEPT !["main"] = Orphaned(@), !["recovery"] = Orphaned(@)]
          /\ pc' = [pc EXCEPT ![o] = "quarantine sidecars"] /\ manifest' = manifest
      BY <1>6, <2>1, <3>1 DEF QuarantineOldSet, Goto
    <3>3. fs'["main"] = None
      BY <1>0, <3>2 DEF File
    <3>4. side' \in Sides
      BY <1>0, <1>3, <3>2 DEF File
    <3>5. QED
      BY <1>2, <3>2, <3>3, <3>4, InsideServed DEF Using
  <2>2. CASE Goto(o, "quarantine sidecars", "quarantined")
    <3>1. ~Goto(o, "quarantine", "quarantine sidecars")
      BY <2>2 DEF Goto
    <3>2. /\ manifest' = manifest /\ side' \in Sides /\ side'["main"] = "none" /\ fs' = fs
          /\ pc' = [pc EXCEPT ![o] = "quarantined"]
      BY <1>0, <1>6, <2>2, <3>1 DEF QuarantineOldSet, Goto, File
    <3>3. fs["main"] = None
      BY <1>0, <2>2 DEF RelianceOK, Goto
    <3>4. QED
      BY <1>2, <3>2, <3>3, InsideServed DEF Using
  <2>3. QED
    BY <1>6, <2>1, <2>2 DEF QuarantineOldSet
<1>7. CASE CreateCandidateV2(o)
  <2>1. PICK v \in {"own", "none"}, to \in {"candidate tables", "validated"} :
          side' = [side EXCEPT !["candidate"] = v] /\ pc' = [pc EXCEPT ![o] = to]
    BY <1>7 DEF CreateCandidateV2, Goto
  <2>2. pc[o] \in {"candidate", "candidate tables"}
    BY <1>7 DEF CreateCandidateV2, Goto
  <2>3. side' \in Sides /\ side'["main"] = side["main"]
    BY <1>0, <2>1 DEF File
  <2>4. manifest' = manifest /\ fs'["main"] = fs["main"]
    BY <1>0, <1>7 DEF CreateCandidateV2, File
  <2>5. fs["main"] = None /\ side["main"] = "none"
    BY <1>0, <2>2 DEF RelianceOK
  <2>6. to \notin Using \cup {"probe", "create", "classify"}
    BY DEF Using
  <2>7. QED
    BY <1>2, <2>1, <2>3, <2>4, <2>5, <2>6, InsideServed
<1>8. CASE PromoteCandidate(o)
  <2>1. side["main"] = "none"
    BY <1>0, <1>8 DEF RelianceOK, PromoteCandidate, Goto
  <2>2. /\ manifest' = manifest /\ side' \in Sides /\ side'["main"] = "none"
        /\ pc' = [pc EXCEPT ![o] = "promoted"]
    BY <1>0, <1>3, <1>8, <2>1 DEF PromoteCandidate, Goto, File, Orphaned
  <2>3. QED
    BY <1>2, <2>2, InsideServed DEF Using
<1>9. CASE RemoveRecovery(o)
  <2>1. side' \in Sides /\ side'["main"] = side["main"] /\ fs'["main"] = fs["main"]
        /\ pc' = [pc EXCEPT ![o] = "migrated"] /\ manifest' = manifest
    BY <1>0, <1>9 DEF RemoveRecovery, Goto, File
  <2>2. QED
    BY <1>2, <2>1, InsideServed DEF Using
<1>10. CASE MigrationDone(o)
  <2>1. fs["main"] = V2Db /\ V2Db # None
    BY <1>0, <1>10, StartedFacts, NoDatabaseAssumption DEF HolderOK, MigrationDone, Goto, Replaced
  <2>2. side' = side /\ fs'["main"] = fs["main"] /\ pc' = [pc EXCEPT ![o] = "finish"]
        /\ conn'[o] = "main" /\ manifest' = None
    BY <1>0, <1>10, <2>1 DEF MigrationDone, Goto, Opened, File, MInv, Typed
  <2>3. QED
    BY <1>0, <1>2, <2>1, <2>2, InsideServed DEF Using
<1>11. QED
  BY <1>4, <1>5, <1>6, <1>7, <1>8, <1>9, <1>10

\* The same for the two recoveries.
LEMMA ServedRecovering ==
  ASSUME MInv, PInv, NEW o \in Opener, DiscardBackup(o) \/ RemoveMixedSet(o) \/ RestoreBackupSet(o)
  PROVE  PInv'
<1> DEFINE Sides == [File -> {"none", "own", "foreign"}]
<1>0. RelianceOK(o) /\ side \in Sides /\ fs \in [File -> Database \cup {None, Torn}]
  BY DEF PInv, MInv, FilesOK
<1>1. pc[o] \in {"discard", "discarded"} \cup Restoring
  BY DEF DiscardBackup, RemoveMixedSet, RestoreBackupSet, Persist, Goto, Restoring
<1>2. manifest # None /\ pc[o] \in Holding
  BY <1>1, ManifestIsThere DEF BackingUp
<1>3. \A s \in {"none", "own", "foreign"} : Orphaned(s) \in {"none", "own", "foreign"}
  BY DEF Orphaned
<1>4. CASE Persist(o, "discarded", None, "look locked") \/ Persist(o, "restored", None, "look locked")
  BY <1>4, ServedPersists
<1>5. CASE pc[o] = "discard"
  <2>1. side' \in Sides /\ side'["main"] = side["main"] /\ fs'["main"] = fs["main"]
        /\ pc' = [pc EXCEPT ![o] = "discarded"] /\ manifest' = manifest
    BY SMTT(40), <1>0, <1>5 DEF DiscardBackup, RemoveMixedSet, RestoreBackupSet, Persist, Goto, File
  <2>2. QED
    BY <1>2, <2>1, InsideServed DEF Using
<1>6. CASE pc[o] = "restore"
  <2>1. /\ fs' = [fs EXCEPT !["main"] = None] /\ side' = [side EXCEPT !["main"] = Orphaned(@)]
        /\ pc' = [pc EXCEPT ![o] = "restore sidecars"] /\ manifest' = manifest
    BY <1>6 DEF DiscardBackup, RemoveMixedSet, RestoreBackupSet, Persist, Goto
  <2>2. side' \in Sides /\ fs'["main"] = None
    BY <1>0, <1>3, <2>1 DEF File
  <2>3. QED
    BY <1>2, <2>1, <2>2, InsideServed DEF Using
<1>7. CASE pc[o] = "restore sidecars"
  <2>1. side' \in Sides /\ side'["main"] = "none" /\ fs'["main"] = fs["main"]
        /\ pc' = [pc EXCEPT ![o] = "restore copy"] /\ manifest' = manifest
    BY <1>0, <1>7 DEF DiscardBackup, RemoveMixedSet, RestoreBackupSet, Persist, Goto, File
  <2>2. fs["main"] = None
    BY <1>0, <1>7 DEF RelianceOK
  <2>3. QED
    BY <1>2, <2>1, <2>2, InsideServed DEF Using
<1>8. CASE pc[o] \in {"restore copy", "restore written"}
  <2>1. side' = side /\ fs'["main"] = fs["main"] /\ manifest' = manifest
        /\ \E to \in {"restore written", "restore rename"} : pc' = [pc EXCEPT ![o] = to]
    BY <1>0, <1>8 DEF DiscardBackup, RemoveMixedSet, RestoreBackupSet, Persist, Goto, File
  <2>2. fs["main"] = None /\ side["main"] = "none"
    BY <1>0, <1>8 DEF RelianceOK
  <2>3. QED
    BY <1>0, <1>2, <2>1, <2>2, InsideServed DEF Using
<1>9. CASE pc[o] = "restore rename"
  <2>1. side["main"] = "none"
    BY <1>0, <1>9 DEF RelianceOK
  <2>2. /\ side' = [side EXCEPT !["main"] = Orphaned(@)] /\ pc' = [pc EXCEPT ![o] = "restored"]
        /\ manifest' = manifest
    BY <1>9 DEF DiscardBackup, RemoveMixedSet, RestoreBackupSet, Persist, Goto
  <2>3. side' \in Sides /\ side'["main"] = "none"
    BY <1>0, <2>1, <2>2 DEF File, Orphaned
  <2>4. QED
    BY <1>2, <2>2, <2>3, InsideServed DEF Using
<1>10. QED
  <2>1. pc[o] = "discarded" => Persist(o, "discarded", None, "look locked")
    BY DEF DiscardBackup, RemoveMixedSet, RestoreBackupSet, Persist, Goto
  <2>2. pc[o] = "restored" => Persist(o, "restored", None, "look locked")
    BY DEF DiscardBackup, RemoveMixedSet, RestoreBackupSet, Persist, Goto
  <2>3. QED
    BY <1>1, <1>4, <1>5, <1>6, <1>7, <1>8, <1>9, <2>1, <2>2 DEF Restoring

\* PInv holds at the beginning.
LEMMA InitPInv == Init => PInv
<1> SUFFICES ASSUME Init PROVE PInv
  OBVIOUS
<1>1. fs["main"] = origin
  BY DEF Init, File
<1>2. PICK s \in (IF origin = None THEN {"none", "foreign"} ELSE {"none", "own"}) :
        side = [f \in File |-> IF f = "main" THEN s ELSE "none"]
  BY DEF Init
<1>3. side \in [File -> {"none", "own", "foreign"}] /\ side["main"] = s
  BY <1>2 DEF File
<1>4. Unmixed
  BY <1>1, <1>2, <1>3 DEF Unmixed
<1>5. ASSUME NEW o \in Opener PROVE RelianceOK(o)
  BY DEF Init, RelianceOK, Using
<1>6. QED
  BY <1>3, <1>4, <1>5 DEF PInv

\* Every step of open_file keeps PInv unless it meddles, and what has happened
\* is not forgotten.
LEMMA NextPInv == MInv /\ (~raced => PInv) /\ [Next]_vars => (~raced => PInv)'
<1> SUFFICES ASSUME MInv, ~raced => PInv, [Next]_vars, ~raced' PROVE PInv'
  OBVIOUS
<1>1. ASSUME PInv, NEW o \in Opener, Opening(o) \/ Migrating(o) \/ Abort(o) \/ Close(o)
      PROVE  PInv'
  <2>1. CASE Opening(o) \/ Abort(o) \/ Close(o)
    BY <1>1, <2>1, ServedPlainSteps, ServedLook, ServedOpen, ServedWrite, ServedRecovering DEF Opening
  <2>2. CASE Migrating(o)
    BY <1>1, <2>2, ServedPending, ServedPersists, ServedMigrating DEF Migrating
  <2>3. QED
    BY <1>1, <2>1, <2>2
<1>2. ASSUME PInv, UNCHANGED vars PROVE PInv'
  BY <1>2 DEF vars, PInv, Unmixed, RelianceOK
<1>3. ~raced
  <2>1. CASE UNCHANGED vars
    BY <2>1 DEF vars
  <2>2. ASSUME NEW o \in Opener, Opening(o) PROVE ~raced
    BY <2>2 DEF Opening, OpenFile, Look, Probe, Acquire, AcquireFails, CreateNewV2, InitializeV2,
                Write, FinishV2File, OpenLocked, ClassifyLocked, RejectUnknown, DiscardBackup,
                RemoveMixedSet, RestoreBackupSet, Persist, Return, Keep
  <2>3. ASSUME NEW o \in Opener, Migrating(o) PROVE ~raced
    BY <2>3 DEF Migrating, BackupPending, CreateBackup, BackupCreated, Checkpoint, OldCheckpointed,
                QuarantineOldSet, OldQuarantined, CreateCandidateV2, NewValidated, PromoteCandidate,
                NewPromoted, ParentSynced, RemoveRecovery, MigrationDone, Persist, Keep
  <2>4. ASSUME NEW o \in Opener, Abort(o) \/ Close(o) PROVE ~raced
    BY <2>4 DEF Abort, Close, Keep
  <2>5. QED
    BY <2>1, <2>2, <2>3, <2>4 DEF Next
<1>4. QED
  BY <1>1, <1>2, <1>3 DEF Next

\* Until an opener without the lock creates the main file of a migration or
\* opens the one it has promoted, no database is ever beside the sidecars of
\* another generation.
THEOREM GenerationsAreNotMixed == Spec => []NoMixedGenerations
<1>1. (~raced => PInv) => NoMixedGenerations
  BY DEF PInv, Unmixed, NoMixedGenerations
<1>2. Init => (~raced => PInv)
  BY InitPInv
<1>3. QED
  BY <1>1, <1>2, InitMInv, NextMInv, NextPInv, PTL DEF Spec

\* Until then a store in use has the exact schema, is the file at the main
\* path, and no migration is under way.
THEOREM MainFileIsServed == Spec => []ServesTheMainFile
<1>1. MInv /\ (~raced => PInv) => ServesTheMainFile
  BY DEF MInv, PInv, ServesTheMainFile, RelianceOK, Using, WriterOK
<1>2. Init => (~raced => PInv)
  BY InitPInv
<1>3. QED
  BY <1>1, <1>2, InitMInv, NextMInv, NextPInv, PTL DEF Spec
================================================================================
