------------------------------ MODULE Evidence ------------------------------
(***************************************************************************)
(* Read evidence (tables resources, read_attempts and resource_evidence of *)
(* store_v2.rs), composed with the lease tables, with the files on disk    *)
(* and with the clients that read and write them.                          *)
(*                                                                         *)
(* LeaseStore leaves the verdicts of the evidence checks open; here they   *)
(* are computed.  A client observes the disk first and its command reaches *)
(* the store later: observing and executing are separate steps, so other   *)
(* tasks may read, write and finish in between.  A task does one thing at  *)
(* a time, as the hooks do: it reads, completes the read, prepares,        *)
(* writes, reports; so read_intents, which arbitrates between concurrent   *)
(* reads of one task, never decides anything and is left out.              *)
(*                                                                         *)
(* Time stands still: leases end by release, offers by activation, and no  *)
(* task ends.  LeaseStore has the expiries; ending a task only takes its   *)
(* evidence away.  "Read since the offer" (read_started_at >= offered_at)  *)
(* is kept as what it says: a read remembers the offers that were already  *)
(* outstanding when it was stamped.                                        *)
(*                                                                         *)
(* An invalid evidence row is only ever looked at by has_historical_       *)
(* evidence, through its observed state: known keeps those states, and     *)
(* evidence keeps the rows with valid = 1.                                 *)
(***************************************************************************)
EXTENDS LeaseStore

CONSTANTS
  Under,      \* the files a resource stands for: itself, or those of a tree
  Content,    \* what a file may contain
  Target      \* the resource sets each task reads and writes

File == UNION {Under[r] : r \in Resource}

ASSUME UnderAssumption ==
  \A q, r \in Resource : <<q, r>> \in Overlap <=> Under[q] \cap Under[r] # {}

\* read.start and write.prepare refuse an empty list of resources.
ASSUME TargetAssumption ==
  \A t \in Task : Target[t] \subseteq (SUBSET Resource) \ {{}}

VARIABLES
  disk,       \* the content of every file
  resources,  \* resources: the recorded state and generation; generation 0 is no row
  reads,      \* the 'started' read attempt the client is going to complete
  evidence,   \* the task's valid evidence rows
  known,      \* the states the task has evidence of, valid or not
  client      \* where each task's client is, and what it observed last

evars == <<db, clock, disk, resources, reads, evidence, known, client>>

\* What an observation of r reports: a file's content, or a tree's contents.
StateOf(r) == [x \in Under[r] |-> disk[x]]

Snapshot(R) == [r \in R |-> StateOf(r)]

NoRead == [obs |-> <<>>, offers |-> {}]
\* A client between two tool calls remembers nothing.
Idle == [pc |-> "idle", obs |-> <<>>, offers |-> {}]

\* Every task has just been started.
EInit ==
  /\ clock = 0
  /\ db = [EmptyTables EXCEPT !.tasks = [t \in Task |->
       [status |-> "active", terminal |-> "none", expires |-> InactivityTimeout]]]
  /\ \E c \in Content : disk = [x \in File |-> c]
  /\ resources = [r \in Resource |-> [state |-> <<>>, gen |-> 0]]
  /\ reads = [t \in Task |-> NoRead]
  /\ evidence = [t \in Task |-> {}]
  /\ known = [t \in Task |-> {}]
  /\ client = [t \in Task |-> Idle]

-----------------------------------------------------------------------------
(* Helper functions of the store, on the evidence tables *)

\* The resources overlapping one of R.
Near(R) == {q \in Resource : \E r \in R : <<q, r>> \in Overlap}

\* revoke_overlapping for each resource of R, sparing the tasks in Spared.
RevokeOverlapping(ev, R, Spared) ==
  [t \in Task |-> IF t \in Spared THEN ev[t] ELSE {e \in ev[t] : e.res \notin Near(R)}]

\* sync_observations: the reported resources whose row is missing or differs.
Changed(obs) ==
  {r \in DOMAIN obs : resources[r].gen = 0 \/ resources[r].state # obs[r]}

Synced(obs) ==
  [r \in Resource |->
     IF r \in Changed(obs) THEN [state |-> obs[r], gen |-> resources[r].gen + 1]
     ELSE resources[r]]

\* current_observations, and the same resources as reported.
SameState(obs) == \A r \in DOMAIN obs : resources[r].gen # 0 /\ resources[r].state = obs[r]

\* has_current_evidence for every resource of R, read since the given offers.
HasCurrentEvidence(t, R, Offers) ==
  \A r \in R : \E e \in evidence[t] :
    /\ e.res = r /\ e.state = resources[r].state /\ e.gen = resources[r].gen
    /\ Offers \subseteq e.offers

HasHistoricalEvidence(t, obs) == \A r \in DOMAIN obs : <<r, obs[r]>> \in known[t]

\* Mutant: looks for a write on the very resource that was read.
PeerWriteOnSame(s, t, r) == \E u \in Task \ {t} : s.leases[u].slot[r] # None

PeerWriteInFlight(s, t, r) ==
  \E u \in Task \ {t} : \E q \in InFlightSlots(s.leases[u]) : <<q, r>> \in Overlap

-----------------------------------------------------------------------------
(* Reading *)

Moved(t, pc) == [client EXCEPT ![t] = IF pc = "idle" THEN Idle ELSE [@ EXCEPT !.pc = pc]]

\* The client observes what its next command reports, and stamps the command.
Observes(t, pc, R) ==
  client' = [client EXCEPT ![t] =
    [pc |-> pc, obs |-> Snapshot(R), offers |-> {q \in Offered(db) : db.requests[q].task = t}]]

StoreUnchanged == UNCHANGED <<db, resources, reads, evidence, known>>

ObserveRead(t) ==
  /\ client[t].pc = "idle"
  /\ \E R \in Target[t] : Observes(t, "starting", R)
  /\ StoreUnchanged /\ UNCHANGED <<clock, disk>>

ReadStart(t) ==
  LET obs == client[t].obs IN
  /\ client[t].pc = "starting"
  /\ \E s \in AcceptedCommand(clock) : Active(s, t) /\ db' = s
  /\ resources' = Synced(obs)
  /\ evidence' = RevokeOverlapping(evidence, Changed(obs), {})
  /\ reads' = [reads EXCEPT ![t] = [obs |-> [r \in DOMAIN obs |-> Synced(obs)[r]],
                                    offers |-> client[t].offers]]
  /\ client' = Moved(t, "reading")
  /\ UNCHANGED <<clock, disk, known>>

ObserveReadEnd(t) ==
  /\ client[t].pc = "reading"
  /\ Observes(t, "ending", DOMAIN client[t].obs)
  /\ StoreUnchanged /\ UNCHANGED <<clock, disk>>

\* The recorded observations are those the read started with, and the ones
\* reported at its end.
Unchanged(t) ==
  /\ \A r \in DOMAIN reads[t].obs : reads[t].obs[r] = resources[r]
  /\ \A r \in DOMAIN reads[t].obs : reads[t].obs[r].state = client[t].obs[r]

\* read.failed: the read was not successful, complete, stable and exact, or
\* read.unstable: something changed.
ReadFails(t) ==
  /\ client[t].pc = "ending"
  /\ \E s \in AcceptedCommand(clock), eligible \in BOOLEAN :
       /\ Active(s, t)
       /\ ~eligible \/ ~Unchanged(t)
       /\ db' = s
  /\ reads' = [reads EXCEPT ![t] = NoRead]
  /\ client' = Moved(t, "idle")
  /\ UNCHANGED <<clock, disk, resources, evidence, known>>

\* insert_evidence: no valid row where another task is writing.
InsertsValid(s, t) == {r \in DOMAIN reads[t].obs : ~PeerWriteInFlight(s, t, r)}

EvidenceRow(r, row, offers) ==
  [res |-> r, state |-> row.state, gen |-> row.gen, offers |-> offers]

ReadCompletes(t) ==
  LET read == reads[t] IN
  /\ client[t].pc = "ending"
  /\ Unchanged(t)
  /\ \E s \in AcceptedCommand(clock) :
       /\ Active(s, t)
       /\ db' = s
       /\ evidence' = [evidence EXCEPT ![t] = @ \cup
            {EvidenceRow(r, read.obs[r], read.offers) : r \in InsertsValid(s, t)}]
  /\ known' = [known EXCEPT ![t] = @ \cup {<<r, read.obs[r].state>> : r \in DOMAIN read.obs}]
  /\ reads' = [reads EXCEPT ![t] = NoRead]
  /\ client' = Moved(t, "read")
  /\ UNCHANGED <<clock, disk, resources>>

-----------------------------------------------------------------------------
(* Writing *)

ObserveWrite(t) ==
  /\ client[t].pc = "read"
  /\ Observes(t, "preparing", DOMAIN client[t].obs)
  /\ StoreUnchanged /\ UNCHANGED <<clock, disk>>

\* Mutant: any evidence the task ever had of this state will do.
FreshByState(t, obs) == SameState(obs) /\ HasHistoricalEvidence(t, obs)

\* The report agrees with the recorded state, of which the task has evidence.
Fresh(t, obs) == SameState(obs) /\ HasCurrentEvidence(t, DOMAIN obs, {})

\* RereadRequired, Denied and a reused queue position.
Refused(t) ==
  LET R == DOMAIN client[t].obs IN
  /\ client[t].pc = "preparing"
  /\ \E s \in AcceptedCommand(clock) :
       /\ Active(s, t)
       /\ IF Contended(s, t, R)
          THEN \/ ~HasHistoricalEvidence(t, client[t].obs)
               \/ InFlightSlots(s.leases[t]) # {}
               \/ QueueReused(s, t, R)
          ELSE ~Fresh(t, client[t].obs)
       /\ db' = s
  /\ client' = Moved(t, "idle")
  /\ UNCHANGED <<clock, disk, resources, reads, evidence, known>>

QueuesUp(t) ==
  LET R == DOMAIN client[t].obs IN
  /\ client[t].pc = "preparing"
  /\ \E s \in AcceptedCommand(clock) :
       /\ Active(s, t)
       /\ Contended(s, t, R)
       /\ HasHistoricalEvidence(t, client[t].obs)
       /\ InFlightSlots(s.leases[t]) = {}
       /\ ~QueueReused(s, t, R)
       /\ s.queueSeq < MaxRequests
       /\ \E y \in Yielded(s, t, clock) :
            db' \in PromoteWaiters(
                     EnqueueRequest(y, t, UnionResources(s, t, R), clock + OfferTtl), clock)
  /\ client' = Moved(t, "idle")
  /\ UNCHANGED <<clock, disk, resources, reads, evidence, known>>

Permitted(t, a) ==
  LET R == DOMAIN client[t].obs IN
  /\ client[t].pc = "preparing"
  /\ Fresh(t, client[t].obs)
  /\ \E s \in AcceptedCommand(clock) :
       LET union == UnionResources(s, t, R) IN
       /\ Active(s, t)
       /\ ~Contended(s, t, R)
       /\ MayEnsureLease(s, t, union, clock)
       /\ \A r \in R : s.leases[t].slot[r] = None
       /\ s.attempts[a].status = "unused"
       /\ db' = PrepareWriteAttempt(
                  EnsureActiveLease(s, t, union, clock + LeaseExpiry), t, a, R, clock + AttemptWindow)
       /\ evidence' = RevokeOverlapping(evidence, union, {t})
  /\ client' = Moved(t, "permitted")
  /\ UNCHANGED <<clock, disk, resources, reads, known>>

\* The offer is taken up; a fresh read follows before the next prepare.
Activates(t) ==
  /\ client[t].pc = "read"
  /\ \E s \in AcceptedCommand(clock) : \E q \in Requests(s) :
       /\ Active(s, t)
       /\ MayActivate(s, t, q)
       /\ HasCurrentEvidence(t, s.requests[q].res, {q})
       /\ db' = [InsertActiveLease(s, t, s.requests[q].res, clock + LeaseExpiry) EXCEPT
                   !.requests[q].state = "activated"]
       /\ evidence' = RevokeOverlapping(evidence, s.requests[q].res, {t})
  /\ client' = Moved(t, "idle")
  /\ UNCHANGED <<clock, disk, resources, reads, known>>

\* The client's own I/O on the files its permit covers.
Writes(t) ==
  /\ client[t].pc = "permitted"
  /\ disk' \in [File -> Content] \ {disk}
  /\ \A x \in File : disk'[x] # disk[x] => \E r \in DOMAIN client[t].obs : x \in Under[r]
  /\ client' = Moved(t, "written")
  /\ StoreUnchanged /\ UNCHANGED clock

\* Mutant: the generation of a resource does not count its changes.
RecordsWriteInPlace(t, post, result) ==
  CASE result = "completed" ->
         /\ resources' = [r \in Resource |->
              IF r \in DOMAIN post THEN [resources[r] EXCEPT !.state = post[r]] ELSE resources[r]]
         /\ evidence' = [evidence EXCEPT ![t] = @ \cup
              {EvidenceRow(r, resources'[r], {}) : r \in DOMAIN post}]
         /\ known' = [known EXCEPT ![t] = @ \cup {<<r, post[r]>> : r \in DOMAIN post}]
    [] result = "failed" -> UNCHANGED <<resources, evidence, known>>
    [] result = "uncertain" -> UNCHANGED <<resources, evidence, known>>

\* A verified success records the new state, which revokes every task's
\* evidence of the old one, and is evidence for the writer; an uncertain
\* result leaves nobody evidence.
RecordsWrite(t, post, result) ==
  CASE result = "completed" ->
         /\ resources' = Synced(post)
         /\ evidence' = [RevokeOverlapping(evidence, Changed(post), {}) EXCEPT ![t] = @ \cup
              {EvidenceRow(r, Synced(post)[r], {}) : r \in DOMAIN post}]
         /\ known' = [known EXCEPT ![t] = @ \cup {<<r, post[r]>> : r \in DOMAIN post}]
    [] result = "failed" -> UNCHANGED <<resources, evidence, known>>
    [] result = "uncertain" ->
         /\ evidence' = RevokeOverlapping(evidence, DOMAIN post, {})
         /\ UNCHANGED <<resources, known>>

\* The results the store accepts for a report of the files as they are now:
\* a success must show a change, except of a whole tree, a known failure none,
\* and a client may always be uncertain.
Results(t) ==
  LET R == DOMAIN client[t].obs
      same == Snapshot(R) = client[t].obs
  IN {result \in {"completed", "failed", "uncertain"} :
        /\ result = "completed" => ~same \/ \E r \in R : Under[r] # {r}
        /\ result = "failed" => same}

Reports(t, a) ==
  /\ client[t].pc \in {"permitted", "written"}
  /\ db.attempts[a].task = t
  /\ db.attempts[a].status = "executing"
  /\ db.attempts[a].res = DOMAIN client[t].obs
  /\ \E s \in AcceptedCommand(clock), result \in Results(t) :
       /\ db' \in IF Released(s, t, a, result)
                  THEN PromoteWaiters(Completed(s, t, a, result), clock)
                  ELSE {Completed(s, t, a, result)}
       /\ RecordsWrite(t, Snapshot(DOMAIN client[t].obs), result)
  /\ client' = Moved(t, "idle")
  /\ UNCHANGED <<clock, disk, reads>>

-----------------------------------------------------------------------------
(* The rest of the store, and time *)

EvidenceUnchanged == UNCHANGED <<disk, resources, reads, evidence, known, client>>

Releases(t) == (LeaseRelease(t) \/ LeaseReleaseDeferred(t)) /\ EvidenceUnchanged

\* The client gives up: its command or the answer was lost, or was an error.
Abandons(t) ==
  /\ client[t].pc # "idle"
  /\ client' = Moved(t, "idle")
  /\ reads' = [reads EXCEPT ![t] = NoRead]
  /\ UNCHANGED <<db, clock, disk, resources, evidence, known>>

ENext ==
  \/ \E t \in Task :
       \/ Releases(t) \/ Abandons(t)
       \/ ObserveRead(t) \/ ReadStart(t) \/ ObserveReadEnd(t) \/ ReadFails(t) \/ ReadCompletes(t)
       \/ ObserveWrite(t) \/ Refused(t) \/ QueuesUp(t) \/ Activates(t) \/ Writes(t)
       \/ \E a \in Attempt : Permitted(t, a) \/ Reports(t, a)

ESpec == EInit /\ [][ENext]_evars

-----------------------------------------------------------------------------
(* Properties *)

\* Nobody overwrites what they have not seen: when a client does its I/O, the
\* files are still as it observed them before write.prepare, whoever wrote in
\* the meantime, however late its commands arrived, and whatever became of
\* the other writers.  This is what evidence, revocation and leases are for;
\* none of them achieves it alone.
NoLostUpdate ==
  [][\A t \in Task : client[t].pc = "permitted" /\ client'[t].pc = "written" =>
       client[t].obs = Snapshot(DOMAIN client[t].obs)]_evars

\* Valid evidence is evidence of the state on record, generation included:
\* every statement that records another state (sync_observations) revokes
\* the evidence of the old one, through every overlapping resource.
EvidenceIsCurrent ==
  \A t \in Task : \A e \in evidence[t] :
    resources[e.res] = [state |-> e.state, gen |-> e.gen]

\* While a write is in flight no other task has valid evidence of anything
\* it may be changing: write.prepare revokes it, and a read completed during
\* the write yields none (insert_evidence).
NoEvidenceUnderWrites ==
  \A u \in Task : \A q \in InFlightSlots(db.leases[u]) :
    \A t \in Task \ {u} : \A e \in evidence[t] : <<e.res, q>> \notin Overlap
=============================================================================
