------------------------------ MODULE LeaseStore ------------------------------
(***************************************************************************)
(* The commands of stateful-store that read or write the lease tables, as  *)
(* one action per outcome of a command.  The store runs every command in   *)
(* one IMMEDIATE transaction, so an action takes the database from one     *)
(* committed state to the next; a command that returns an error rolls back *)
(* and is a stuttering step.                                               *)
(*                                                                         *)
(* Read evidence (tables resources, resource_evidence, read_attempts,      *)
(* read_intents) is not part of this component.  What it answers to a      *)
(* command is an input here, any BOOLEAN: hist stands for                  *)
(* has_historical_evidence, fresh for observations_same_state together     *)
(* with has_current_evidence.                                              *)
(*                                                                         *)
(* A command carries the observed_at of the client that sent it and may    *)
(* reach the store later than that, behind commands observed after it:     *)
(* Observed is the set of times a command executed now may carry.          *)
(***************************************************************************)
EXTENDS LeaseTables

CONSTANTS
  InactivityTimeout,  \* CoordinationSettings::inactivity_timeout_seconds
  LeaseExpiry,        \* CoordinationSettings::lease_expiry_seconds
  AttemptWindow,      \* bound: how far ahead an attempt_deadline is set
  MaxLag,             \* bound: how late a command may be executed
  MaxClock,           \* bound: the clock stops here
  MaxRequests,        \* bound: lease requests ever enqueued
  WriteSets           \* the resource sets a write may name

ASSUME BoundAssumption ==
  /\ InactivityTimeout \in Nat /\ LeaseExpiry \in Nat /\ AttemptWindow \in Nat
  /\ MaxLag \in Nat /\ MaxClock \in Nat /\ MaxRequests \in Nat
  /\ WriteSets \in SUBSET ((SUBSET Resource) \ {{}})

VARIABLES
  db,     \* the committed database
  clock   \* wall-clock time

vars == <<db, clock>>

Init == db = EmptyTables /\ clock = 0

Observed == {n \in 0..clock : clock - n <= MaxLag}

\* validate_future_window: after now, at most ttl later; no later than MaxClock.
Window(now, ttl) == {e \in (now + 1)..(now + ttl) : e <= MaxClock}

\* What accepted_command does before the operation of a fresh request id.
AcceptedCommand(now) == PromoteWaiters(ExpireTasksAndLeases(db, now), now)

-----------------------------------------------------------------------------
(* Tasks *)

TaskStart(t) ==
  \E now \in Observed : \E s \in AcceptedCommand(now), e \in Window(now, InactivityTimeout) :
    /\ s.tasks[t].status = "absent"
    /\ db' = [s EXCEPT !.tasks[t] = [status |-> "active", terminal |-> "none", expires |-> e]]
    /\ UNCHANGED clock

TaskHeartbeat(t) ==
  \E now \in Observed : \E s \in AcceptedCommand(now), e \in Window(now, InactivityTimeout) :
    /\ Active(s, t)
    /\ db' = [s EXCEPT !.tasks[t].expires = e]
    /\ UNCHANGED clock

\* task_finalize and task_cancel with no write in flight.
TaskEnd(t) ==
  \E now \in Observed : \E s \in AcceptedCommand(now), terminal \in {"completed", "cancelled"} :
    LET ending == EndingTask(s, t, terminal) IN
    /\ s.tasks[t].status \in {"active", "draining"}
    /\ ~TaskInFlight(ending, t)
    /\ db' \in PromoteWaiters(
                 [ReleaseAllTaskLeases(ending, t) EXCEPT !.tasks[t].status = terminal], now)
    /\ UNCHANGED clock

\* task_finalize and task_cancel while a write is executing or uncertain.
TaskEndDeferred(t) ==
  \E now \in Observed : \E s \in AcceptedCommand(now), terminal \in {"completed", "cancelled"} :
    LET ending == EndingTask(s, t, terminal) IN
    /\ s.tasks[t].status \in {"active", "draining"}
    /\ TaskInFlight(ending, t)
    /\ db' = Drain(ending, t)
    /\ UNCHANGED clock

\* Commands that succeed and leave these tables as the preamble left them:
\* task.start of a known task, ending a task that has ended, read.start,
\* read.complete.
NoTableChange(t) ==
  \E now \in Observed : \E s \in AcceptedCommand(now) :
    /\ s.tasks[t].status # "absent"
    /\ db' = s
    /\ UNCHANGED clock

-----------------------------------------------------------------------------
(* write.prepare *)

\* The task waits for exactly these resources already.
QueueReused(s, t, res) ==
  /\ ~Leased(s, t)
  /\ \E q \in PendingTaskRequest(s, t) : s.requests[q].res = UnionResources(s, t, res)

\* RereadRequired, Denied and a reused queue position change no row.
PrepareRefused(t) ==
  \E now \in Observed : \E s \in AcceptedCommand(now), res \in WriteSets, hist, fresh \in BOOLEAN :
    /\ Active(s, t)
    /\ IF Contended(s, t, res)
       THEN ~hist \/ InFlightSlots(s.leases[t]) # {} \/ QueueReused(s, t, res)
       ELSE ~fresh
    /\ db' = s
    /\ UNCHANGED clock

\* The task's own lease, if any, is given back before it queues.
Yielded(s, t, now) ==
  IF Leased(s, t) THEN PromoteWaiters(ReleaseAllTaskLeases(s, t), now) ELSE {s}

PrepareQueued(t) ==
  \E now \in Observed : \E s \in AcceptedCommand(now), res \in WriteSets, e \in Window(now, OfferTtl) :
    /\ Active(s, t)
    /\ Contended(s, t, res)
    /\ InFlightSlots(s.leases[t]) = {}
    /\ ~QueueReused(s, t, res)
    /\ s.queueSeq < MaxRequests
    /\ \E y \in Yielded(s, t, now) :
         db' \in PromoteWaiters(EnqueueRequest(y, t, UnionResources(s, t, res), e), now)
    /\ UNCHANGED clock

PrepareReady(t, a) ==
  \E now \in Observed : \E s \in AcceptedCommand(now), res \in WriteSets,
     e \in Window(now, LeaseExpiry), deadline \in Window(now, AttemptWindow) :
    LET union == UnionResources(s, t, res) IN
    /\ Active(s, t)
    /\ ~Contended(s, t, res)
    /\ MayEnsureLease(s, t, union, now)
    /\ \A r \in res : s.leases[t].slot[r] = None
    /\ s.attempts[a].status = "unused"
    /\ db' = PrepareWriteAttempt(EnsureActiveLease(s, t, union, e), t, a, res, deadline)
    /\ UNCHANGED clock

-----------------------------------------------------------------------------
(* lease.activate, lease.release, write.complete, maintenance *)

\* An offer id and version the client read from the committed database, with
\* evidence read since the offer.  Any other input changes no row (and is
\* NoTableChange).
MayActivate(s, t, q) ==
  /\ q \in Offered(db)
  /\ q \in Offered(s)
  /\ s.requests[q].task = t
  /\ ~AgentSlotOccupied(s, Owner[t], Task)
  /\ ~ConflictingOwners(s, t, s.requests[q].res)

LeaseActivate(t) ==
  \E now \in Observed : \E s \in AcceptedCommand(now), e \in Window(now, LeaseExpiry) :
    \E q \in Requests(s) :
      /\ Active(s, t)
      /\ MayActivate(s, t, q)
      /\ db' = [InsertActiveLease(s, t, s.requests[q].res, e) EXCEPT
                  !.requests[q].state = "activated"]
      /\ UNCHANGED clock

\* Mutant: leaves promotion to the next command.
LeaseReleaseSilently(t) ==
  \E now \in Observed : \E s \in AcceptedCommand(now) :
    /\ Leased(s, t)
    /\ InFlightSlots(s.leases[t]) = {}
    /\ db' = ReleaseAllTaskLeases(s, t)
    /\ UNCHANGED clock

LeaseRelease(t) ==
  \E now \in Observed : \E s \in AcceptedCommand(now) :
    /\ Leased(s, t)
    /\ InFlightSlots(s.leases[t]) = {}
    /\ db' \in PromoteWaiters(ReleaseAllTaskLeases(s, t), now)
    /\ UNCHANGED clock

LeaseReleaseDeferred(t) ==
  \E now \in Observed : \E s \in AcceptedCommand(now) :
    /\ Leased(s, t)
    /\ InFlightSlots(s.leases[t]) # {}
    /\ db' = Drain(s, t)
    /\ UNCHANGED clock

\* The row changes of write.complete before it considers promotion.
Completed(s, t, a, result) ==
  FinishDrainingTask(SettleBatch(RecordResult(s, a, result), t, a, result), t)

\* The completion gave a lease back or ended a draining task.
Released(s, t, a, result) ==
  LET batch == SettleBatch(RecordResult(s, a, result), t, a, result)
  IN \/ Leased(s, t) /\ ~Leased(batch, t)
     \/ MayFinishDraining(batch, t)

WriteComplete(t, a) ==
  \E now \in Observed :
    \E s \in AcceptedCommand(now), result \in {"completed", "failed", "uncertain"} :
      /\ s.attempts[a].task = t
      /\ s.attempts[a].status = "executing"
      /\ db' \in IF Released(s, t, a, result)
                 THEN PromoteWaiters(Completed(s, t, a, result), now)
                 ELSE {Completed(s, t, a, result)}
      /\ UNCHANGED clock

\* Mutant: looks after overdue writes only.
MaintainOverdue == db' = DrainOverdue(db, clock) /\ UNCHANGED clock

\* One turn of the server's maintenance loop, on the server's clock.
Maintain ==
  \E s \in {DrainOverdue(ExpireTasksAndLeases(ExpireOffers(db, clock), clock), clock)} :
    /\ db' \in PromoteWaiters(s, clock)
    /\ UNCHANGED clock

Tick == clock < MaxClock /\ clock' = clock + 1 /\ UNCHANGED db

-----------------------------------------------------------------------------

Next ==
  \/ \E t \in Task :
       \/ TaskStart(t) \/ TaskHeartbeat(t) \/ TaskEnd(t) \/ TaskEndDeferred(t)
       \/ NoTableChange(t)
       \/ PrepareRefused(t) \/ PrepareQueued(t)
       \/ LeaseActivate(t) \/ LeaseRelease(t) \/ LeaseReleaseDeferred(t)
       \/ \E a \in Attempt : PrepareReady(t, a) \/ WriteComplete(t, a)
  \/ Maintain
  \/ Tick

Spec == Init /\ [][Next]_vars

\* Time passes and the maintenance loop keeps running; clients may stop.
FairSpec == Spec /\ WF_vars(Tick) /\ WF_vars(Maintain)

-----------------------------------------------------------------------------
(* Properties *)

\* Every table keeps the shape the schema gives it (schema_v2.rs).
TypeOK == TablesOK(db) /\ clock \in Nat

\* Two tasks never hold, and are never promised, overlapping resources: a
\* lease excludes other leases and outstanding offers on everything its
\* resources overlap, and so does an offer.  write.prepare and lease.activate
\* establish this by conflicting_owners, promote_waiters in addition by the
\* order of its walk; the unique index on (workspace_id, resource_id) could
\* not, because overlap is not equality.
ExclusiveHolders == Exclusive(db)

\* An agent has one active or draining batch and one outstanding offer at
\* most, whichever of its tasks they belong to.  The insert of a second batch
\* would hit the unique index on (workspace_id, agent_id) and fail; the
\* commands never attempt it.
OneBatchPerAgent == OnePerAgent(db)

\* A task has at most one queued or offered request, only while it is active,
\* and never beside a lease: write.prepare gives the lease back before it
\* queues, and ending or expiring a task cancels its request.
OnePendingPerTask == OnePerTask(db)

\* No request is offered while an older request it overlaps still waits.
WaitersKeepOrder == Ordered(db)

\* Nothing is left to promote between transactions: every waiter is blocked
\* by a lease, by an offer or by a blocked waiter ahead of it.  So every
\* command that gives resources, an agent's slot or an offer back runs
\* promote_waiters in the same transaction, and no waiter depends on the next
\* command to be woken.
NoMissedPromotion == NothingToPromote(db)

\* I/O happens under a lease only: as long as a write attempt is executing,
\* the batch it was prepared under exists, covers its resources and marks
\* each of them with the attempt; and only executing attempts are marked.
WritesAreCovered == Covered(db)

\* A task that has ended holds no lease, a draining task no active lease, and
\* a lease with an uncertain write is draining, so that no new write of its
\* task starts under it.
EndedTasksHoldNothing == DrainsSafely(db)

\* A grant overtakes nobody: when a task's lease grows (a direct acquisition,
\* a growing batch or an activation), a pending request of another task may
\* overlap the growth only if it stands behind the very offer that the step
\* activated.
NoOvertaking ==
  [][\A t \in Task, q \in (Queued(db) \cup Offered(db))' :
       /\ db'.requests[q].task # t
       /\ Overlapping(db'.leases[t].res \ db.leases[t].res, db'.requests[q].res)
       => \E p \in Offered(db) :
            p < q /\ db.requests[p].task = t /\ db'.requests[p].state = "activated"]_vars

\* A draining batch only waits for its end: it gains no resource and no write
\* attempt and never becomes active again.
DrainingBatchesOnlyEnd ==
  [][\A t \in Task :
       db.leases[t].state = "draining" /\ Leased(db, t)' =>
         /\ db'.leases[t].state = "draining"
         /\ db'.leases[t].res = db.leases[t].res
         /\ db'.leases[t].attempts = db.leases[t].attempts]_vars

\* An uncertain write keeps its lease draining until the owner releases it
\* explicitly with lease.release.
UncertainLeaseStays ==
  [][\A t \in Task :
       /\ \E a \in db.leases[t].attempts : db.attempts[a].status = "uncertain"
       /\ ~Leased(db, t)'
       => LeaseRelease(t)]_vars

\* Every request leaves the queue and every offer is settled, even if all
\* clients stop: maintain expires them.
WaitersAreSettled ==
  \A q \in 1..MaxRequests :
    (q \in Queued(db) \cup Offered(db)) ~> (q \notin Queued(db) \cup Offered(db))

\* A lease no write runs under, executing or uncertain, does not outlive its
\* holder: it is released, or some write is prepared under it.
IdleLeasesGo ==
  \A t \in Task :
    (Leased(db, t) /\ ~TaskInFlight(db, t)) ~> (~Leased(db, t) \/ TaskInFlight(db, t))
=============================================================================
