----------------------------- MODULE LeaseTables -----------------------------
(***************************************************************************)
(* The coordination tables of stateful-store (crates/stateful-store/src/   *)
(* store_v2.rs) and the helper functions every command is composed of.     *)
(*                                                                         *)
(* A database s is a record of five tables of one workspace:               *)
(*                                                                         *)
(*   s.tasks     tasks           one row per task id                       *)
(*   s.leases    active_leases + lease_resources, one row per task: every  *)
(*               insert is guarded by the absence of a row of that task    *)
(*   s.queueSeq  coordination_sequences('lease_queue')                     *)
(*   s.requests  lease_requests + lease_request_resources, indexed by      *)
(*               queue_sequence, which also stands for the batch id        *)
(*   s.attempts  write_attempts, one row per attempt id                    *)
(*                                                                         *)
(* A lease row carries the ids of the attempts prepared under its batch,   *)
(* which is the join attempt.batch_id = lease.batch_id read from the       *)
(* lease's side: no batch id is needed.  release_pending is 1 exactly when *)
(* state is 'draining' (each statement that writes one writes the other),  *)
(* so only state is kept.  An offer id and a version identify the single   *)
(* offer a request ever gets; they are abstracted to the request itself.   *)
(***************************************************************************)
EXTENDS Integers

CONSTANTS
  Task,        \* task ids
  Agent,       \* agent ids
  Resource,    \* physical resources of the workspace
  Attempt,     \* write attempt ids
  None,        \* no attempt, no task
  Owner,       \* the agent that starts each task: require_task_owner refuses all others
  Overlap,     \* the pairs of resources on which resource_keys_overlap holds
  OfferTtl     \* CoordinationSettings::offer_ttl_seconds

ASSUME NoneAssumption == None \notin Task /\ None \notin Attempt

ASSUME OwnerAssumption == Owner \in [Task -> Agent]

ASSUME OverlapAssumption ==
  /\ Overlap \in SUBSET (Resource \X Resource)
  /\ \A r \in Resource : <<r, r>> \in Overlap
  /\ \A q, r \in Resource : <<q, r>> \in Overlap => <<r, q>> \in Overlap

ASSUME OfferTtlAssumption == OfferTtl \in Nat \ {0}

-----------------------------------------------------------------------------
(* Rows *)

TerminalStatus == {"completed", "failed", "cancelled"}

TaskRow ==
  [status : {"absent", "active", "draining"} \cup TerminalStatus,
   terminal : {"none"} \cup TerminalStatus,
   expires : Nat]

LeaseRow ==
  [state : {"none", "active", "draining"},
   res : SUBSET Resource,
   expires : Nat,
   slot : [Resource -> Attempt \cup {None}],
   attempts : SUBSET Attempt]

RequestState ==
  {"queued", "offered", "activated", "cancelled", "expired", "superseded"}

RequestRow ==
  [task : Task, res : SUBSET Resource, state : RequestState,
   expires : Nat, offeredAt : Nat, offerExpires : Nat]

AttemptRow ==
  [task : Task \cup {None}, res : SUBSET Resource, deadline : Nat,
   status : {"unused", "executing", "completed", "failed", "uncertain"}]

\* No row of the task in active_leases.
NoLease ==
  [state |-> "none", res |-> {}, expires |-> 0,
   slot |-> [r \in Resource |-> None], attempts |-> {}]

EmptyTables ==
  [tasks |-> [t \in Task |-> [status |-> "absent", terminal |-> "none", expires |-> 0]],
   leases |-> [t \in Task |-> NoLease],
   queueSeq |-> 0,
   requests |-> [q \in 1..0 |-> 0],
   attempts |-> [a \in Attempt |->
                   [task |-> None, res |-> {}, deadline |-> 0, status |-> "unused"]]]

-----------------------------------------------------------------------------
(* Queries *)

Overlapping(A, B) == \E a \in A, b \in B : <<a, b>> \in Overlap

Leased(s, t) == s.leases[t].state # "none"

Requests(s) == 1..s.queueSeq

Queued(s) == {q \in Requests(s) : s.requests[q].state = "queued"}

Offered(s) == {q \in Requests(s) : s.requests[q].state = "offered"}

PendingTaskRequest(s, t) ==
  {q \in Queued(s) \cup Offered(s) : s.requests[q].task = t}

\* The lease_resources rows of the lease whose in_flight_attempt_id is set.
InFlightSlots(lease) == {r \in lease.res : lease.slot[r] # None}

\* task_in_flight_count(...) # 0
TaskInFlight(s, t) ==
  \E a \in s.leases[t].attempts : s.attempts[a].status \in {"executing", "uncertain"}

Active(s, t) == s.tasks[t].status = "active"

\* Mutant: compares resource ids instead of testing for overlap.
ConflictingOwnersById(s, t, res) ==
  \/ \E u \in Task \ {t} : res \cap s.leases[u].res # {}
  \/ \E q \in Offered(s) : s.requests[q].task # t /\ res \cap s.requests[q].res # {}

\* Another task's lease, or another task's outstanding offer, meets res.
ConflictingOwners(s, t, res) ==
  \/ \E u \in Task \ {t} : Overlapping(res, s.leases[u].res)
  \/ \E q \in Offered(s) : s.requests[q].task # t /\ Overlapping(res, s.requests[q].res)

QueuedConflictingOwners(s, t, res) ==
  \E q \in Queued(s) : s.requests[q].task # t /\ Overlapping(res, s.requests[q].res)

\* Mutant: a draining batch no longer counts.
AgentSlotActive(s, agent, T) ==
  \E u \in T : Owner[u] = agent /\ s.leases[u].state = "active"

\* An agent has a lease through one of the tasks in T.
AgentSlotOccupied(s, agent, T) == \E u \in T : Owner[u] = agent /\ Leased(s, u)

-----------------------------------------------------------------------------
(* Updates shared by the commands *)

\* Mutant: deletes the batch and leaves its resource rows behind.
ReleaseBatchRowOnly(s, t) == [s EXCEPT !.leases[t].state = "none"]

ReleaseAllTaskLeases(s, t) == [s EXCEPT !.leases[t] = NoLease]

Drained(lease) ==
  IF lease.state = "none" THEN lease ELSE [lease EXCEPT !.state = "draining"]

Drain(s, t) == [s EXCEPT !.leases[t] = Drained(@)]

\* Each pending request of a task in T moves to the given terminal state.
ClosePending(s, T, state) ==
  [s EXCEPT !.requests =
     [q \in Requests(s) |->
        IF s.requests[q].task \in T /\ s.requests[q].state \in {"queued", "offered"}
        THEN [s.requests[q] EXCEPT !.state = state]
        ELSE s.requests[q]]]

\* What end_task has written when it counts the task's in-flight writes.
EndingTask(s, t, terminal) ==
  [ClosePending(s, {t}, "cancelled") EXCEPT
     !.tasks[t].status = "draining", !.tasks[t].terminal = terminal]

ExpireOffers(s, now) ==
  [s EXCEPT !.requests =
     [q \in Requests(s) |->
        IF s.requests[q].state = "offered" /\ s.requests[q].offerExpires <= now
        THEN [s.requests[q] EXCEPT !.state = "expired"]
        ELSE s.requests[q]]]

LapsedTasks(s, now) ==
  {t \in Task : s.tasks[t].status = "active" /\ s.tasks[t].expires <= now}

\* Mutant: a lapsed task drains even with nothing in flight.
LapseTasksDraining(s, now) ==
  [ClosePending(s, LapsedTasks(s, now), "cancelled") EXCEPT
     !.tasks =
       [t \in Task |->
          IF t \notin LapsedTasks(s, now) THEN s.tasks[t]
          ELSE [s.tasks[t] EXCEPT !.status = "draining", !.terminal = "failed"]],
     !.leases =
       [t \in Task |->
          IF t \notin LapsedTasks(s, now) THEN s.leases[t] ELSE Drained(s.leases[t])]]

LapseTasks(s, now) ==
  [ClosePending(s, LapsedTasks(s, now), "cancelled") EXCEPT
     !.tasks =
       [t \in Task |->
          IF t \notin LapsedTasks(s, now) THEN s.tasks[t]
          ELSE [s.tasks[t] EXCEPT
                  !.status = IF TaskInFlight(s, t) THEN "draining" ELSE "failed",
                  !.terminal = "failed"]],
     !.leases =
       [t \in Task |->
          IF t \notin LapsedTasks(s, now) THEN s.leases[t]
          ELSE IF TaskInFlight(s, t) THEN Drained(s.leases[t]) ELSE NoLease]]

\* Mutant: an expired lease goes although a write is in flight.
LapseBusyLeases(s, now) ==
  [s EXCEPT !.leases =
     [t \in Task |->
        IF s.leases[t].state # "active" \/ s.leases[t].expires > now THEN s.leases[t]
        ELSE NoLease]]

LapseLeases(s, now) ==
  [s EXCEPT !.leases =
     [t \in Task |->
        IF s.leases[t].state # "active" \/ s.leases[t].expires > now THEN s.leases[t]
        ELSE IF InFlightSlots(s.leases[t]) # {} THEN Drained(s.leases[t]) ELSE NoLease]]

\* A task that missed its heartbeats fails (or drains), then leases past
\* their expiry go (or drain): the first statement block, then the second.
ExpireTasksAndLeases(s, now) == LapseLeases(LapseTasks(s, now), now)

-----------------------------------------------------------------------------
(***************************************************************************)
(* promote_waiters walks the queued requests in queue_sequence order and   *)
(* settles each one: expired, offered, or left queued, in which case its   *)
(* resources block the requests behind it.  What it decides for q depends  *)
(* only on the tables and on what it decided for the requests ahead of q,  *)
(* so the walk is the verdict assignment d in which every request has the  *)
(* verdict the loop body gives it.  There is exactly one (PromoteLoop      *)
(* checks this against the loop itself).                                   *)
(***************************************************************************)
Verdict == {"queued", "offered", "expired"}

\* What the walk has already offered when it reaches q.
OfferedBefore(s, d, q) == Offered(s) \cup {p \in Queued(s) : p < q /\ d[p] = "offered"}

\* Mutant: forgets the waiters left queued ahead of q.
BlockedByHolders(s, d, q) ==
  LET req == s.requests[q]
      ahead == OfferedBefore(s, d, q)
  IN \/ AgentSlotOccupied(s, Owner[req.task], Task)
     \/ \E p \in ahead : Owner[s.requests[p].task] = Owner[req.task]
     \/ \E u \in Task \ {req.task} : Overlapping(req.res, s.leases[u].res)
     \/ \E p \in ahead :
          s.requests[p].task # req.task /\ Overlapping(req.res, s.requests[p].res)

Blocked(s, d, q) ==
  LET req == s.requests[q]
      ahead == OfferedBefore(s, d, q)
  IN \/ \E p \in Queued(s) :
          p < q /\ d[p] = "queued" /\ Overlapping(req.res, s.requests[p].res)
     \/ AgentSlotOccupied(s, Owner[req.task], Task)
     \/ \E p \in ahead : Owner[s.requests[p].task] = Owner[req.task]
     \/ \E u \in Task \ {req.task} : Overlapping(req.res, s.leases[u].res)
     \/ \E p \in ahead :
          s.requests[p].task # req.task /\ Overlapping(req.res, s.requests[p].res)

VerdictFor(s, d, q, now) ==
  IF s.tasks[s.requests[q].task].status # "active" \/ s.requests[q].expires <= now
    THEN "expired"
  ELSE IF Blocked(s, d, q) THEN "queued" ELSE "offered"

Walks(s, now) ==
  {d \in [Queued(s) -> Verdict] : \A q \in Queued(s) : d[q] = VerdictFor(s, d, q, now)}

\* The request q once its verdict is written back.
Settled(req, verdict, now) ==
  IF verdict = "offered"
  THEN [req EXCEPT !.state = "offered", !.offeredAt = now,
                   !.offerExpires = IF now + OfferTtl < req.expires
                                    THEN now + OfferTtl ELSE req.expires]
  ELSE [req EXCEPT !.state = verdict]

Settle(s, d, now) ==
  [s EXCEPT !.requests =
     [q \in Requests(s) |->
        IF q \in Queued(s) THEN Settled(s.requests[q], d[q], now) ELSE s.requests[q]]]

\* The databases promote_waiters may leave: the one outcome of its walk.
PromoteWaiters(s, now) ==
  {Settle(ExpireOffers(s, now), d, now) : d \in Walks(ExpireOffers(s, now), now)}

-----------------------------------------------------------------------------
(* Steps of the write commands *)

\* The resources a write of t on res has to hold.
UnionResources(s, t, res) ==
  s.leases[t].res \cup (UNION {s.requests[q].res : q \in PendingTaskRequest(s, t)}) \cup res

\* Mutant: ignores who waits.
ContendedByHolders(s, t, res) ==
  \/ PendingTaskRequest(s, t) # {}
  \/ AgentSlotOccupied(s, Owner[t], Task \ {t})
  \/ ConflictingOwners(s, t, UnionResources(s, t, res))

\* The write has to queue: the task waits already, its agent has a lease
\* through another task, or somebody holds, was offered or waits for a part.
Contended(s, t, res) ==
  LET union == UnionResources(s, t, res)
  IN \/ PendingTaskRequest(s, t) # {}
     \/ AgentSlotOccupied(s, Owner[t], Task \ {t})
     \/ ConflictingOwners(s, t, union)
     \/ QueuedConflictingOwners(s, t, union)

\* Mutant: does not supersede the task's older request.
EnqueueAnother(s, t, res, expires) ==
  [s EXCEPT
     !.queueSeq = s.queueSeq + 1,
     !.requests =
       [q \in 1..(s.queueSeq + 1) |->
          IF q \in Requests(s) THEN s.requests[q]
          ELSE [task |-> t, res |-> res, state |-> "queued", expires |-> expires,
                offeredAt |-> 0, offerExpires |-> 0]]]

EnqueueRequest(s, t, res, expires) ==
  LET closed == ClosePending(s, {t}, "superseded")
  IN [closed EXCEPT
        !.queueSeq = s.queueSeq + 1,
        !.requests =
          [q \in 1..(s.queueSeq + 1) |->
             IF q \in Requests(s) THEN closed.requests[q]
             ELSE [task |-> t, res |-> res, state |-> "queued", expires |-> expires,
                   offeredAt |-> 0, offerExpires |-> 0]]]

InsertActiveLease(s, t, res, expires) ==
  [s EXCEPT !.leases[t] =
     [NoLease EXCEPT !.state = "active", !.res = res, !.expires = expires]]

\* Mutant: accepts a draining lease.
MayEnsureAnyLease(s, t, res, now) ==
  Leased(s, t) =>
    /\ s.leases[t].expires > now
    /\ res \subseteq s.leases[t].res \/ InFlightSlots(s.leases[t]) = {}

\* ensure_active_lease: the error paths are its negation.
MayEnsureLease(s, t, res, now) ==
  Leased(s, t) =>
    /\ s.leases[t].state = "active"
    /\ s.leases[t].expires > now
    /\ res \subseteq s.leases[t].res \/ InFlightSlots(s.leases[t]) = {}

EnsureActiveLease(s, t, res, expires) ==
  IF Leased(s, t)
  THEN [s EXCEPT !.leases[t].res = @ \cup res, !.leases[t].expires = expires]
  ELSE InsertActiveLease(s, t, res, expires)

PrepareWriteAttempt(s, t, a, res, deadline) ==
  LET lease == s.leases[t]
      slot == [r \in Resource |-> IF r \in res THEN a ELSE lease.slot[r]]
  IN [s EXCEPT
        !.attempts[a] = [task |-> t, res |-> res, deadline |-> deadline, status |-> "executing"],
        !.leases[t] = [lease EXCEPT !.attempts = lease.attempts \cup {a}, !.slot = slot]]

\* write_attempts and the in-flight markers, once attempt a has a result.
RecordResult(s, a, result) ==
  [s EXCEPT
     !.attempts[a].status = result,
     !.leases = [t \in Task |->
        [s.leases[t] EXCEPT
           !.slot = [r \in Resource |->
                       IF s.leases[t].slot[r] = a THEN None ELSE s.leases[t].slot[r]]]]]

\* Mutant: an uncertain result leaves the lease as it is.
SettleBatchUndrained(s, t, a, result) ==
  IF /\ a \in s.leases[t].attempts
     /\ result # "uncertain"
     /\ s.leases[t].state = "draining"
     /\ InFlightSlots(s.leases[t]) = {}
  THEN ReleaseAllTaskLeases(s, t) ELSE s

\* What the result of attempt a of task t does to the batch a ran under.
SettleBatch(s, t, a, result) ==
  IF a \notin s.leases[t].attempts THEN s
  ELSE IF result = "uncertain" THEN Drain(s, t)
  ELSE IF s.leases[t].state = "draining" /\ InFlightSlots(s.leases[t]) = {}
    THEN ReleaseAllTaskLeases(s, t)
  ELSE s

MayFinishDraining(s, t) ==
  /\ s.tasks[t].status = "draining"
  /\ s.tasks[t].terminal # "none"
  /\ ~TaskInFlight(s, t)

FinishDrainingTask(s, t) ==
  IF MayFinishDraining(s, t)
  THEN [ReleaseAllTaskLeases(s, t) EXCEPT !.tasks[t].status = s.tasks[t].terminal]
  ELSE s

\* maintain: active leases with an executing attempt past its deadline drain.
DrainOverdue(s, now) ==
  [s EXCEPT !.leases =
     [t \in Task |->
        IF \E a \in s.leases[t].attempts :
             s.attempts[a].status = "executing" /\ s.attempts[a].deadline <= now
        THEN Drained(s.leases[t]) ELSE s.leases[t]]]

-----------------------------------------------------------------------------
(***************************************************************************)
(* What the tables promise.  These are operators of a database s, because  *)
(* they hold inside a transaction too, between its statements.             *)
(***************************************************************************)

TablesOK(s) ==
  /\ s \in [tasks : [Task -> TaskRow], leases : [Task -> LeaseRow], queueSeq : Nat,
            requests : [1..s.queueSeq -> RequestRow], attempts : [Attempt -> AttemptRow]]
  /\ \A t \in Task : Leased(s, t) \/ s.leases[t] = NoLease

Exclusive(s) ==
  /\ \A t, u \in Task : t # u => ~Overlapping(s.leases[t].res, s.leases[u].res)
  /\ \A q \in Offered(s) : \A u \in Task \ {s.requests[q].task} :
       ~Overlapping(s.requests[q].res, s.leases[u].res)
  /\ \A p, q \in Offered(s) : p # q => ~Overlapping(s.requests[p].res, s.requests[q].res)

OnePerAgent(s) ==
  /\ \A t, u \in Task : t # u /\ Owner[t] = Owner[u] => ~Leased(s, t) \/ ~Leased(s, u)
  /\ \A p, q \in Offered(s) : p # q => Owner[s.requests[p].task] # Owner[s.requests[q].task]

OnePerTask(s) ==
  \A q \in Queued(s) \cup Offered(s) :
    LET t == s.requests[q].task
    IN PendingTaskRequest(s, t) = {q} /\ Active(s, t) /\ ~Leased(s, t)

Ordered(s) ==
  \A p \in Queued(s), q \in Offered(s) :
    p < q => ~Overlapping(s.requests[p].res, s.requests[q].res)

\* A walk that finds every waiter blocked and offers nothing.
NothingToPromote(s) ==
  \A q \in Queued(s) : Blocked(s, [p \in Queued(s) |-> "queued"], q)

\* Attempt a runs under the lease of t, on resources marked with it.
RunsUnder(s, a, t) ==
  /\ s.attempts[a].task = t
  /\ a \in s.leases[t].attempts
  /\ s.attempts[a].res # {}
  /\ \A r \in s.attempts[a].res : r \in s.leases[t].res /\ s.leases[t].slot[r] = a

Covered(s) ==
  /\ \A a \in Attempt :
       s.attempts[a].status = "executing" => \E t \in Task : RunsUnder(s, a, t)
  /\ \A t \in Task, r \in Resource, a \in Attempt : s.leases[t].slot[r] = a =>
       /\ s.attempts[a].status = "executing"
       /\ s.attempts[a].task = t
       /\ r \in s.attempts[a].res
  /\ \A t \in Task : \A a \in s.leases[t].attempts :
       s.attempts[a].task = t /\ s.attempts[a].status # "unused"

DrainsSafely(s) ==
  \A t \in Task :
    /\ s.tasks[t].status \notin {"active", "draining"} => ~Leased(s, t)
    /\ s.tasks[t].status = "draining" => s.leases[t].state # "active"
    /\ \A a \in s.leases[t].attempts :
         s.attempts[a].status = "uncertain" => s.leases[t].state = "draining"
=============================================================================
