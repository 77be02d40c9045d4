-------------------------- MODULE LeaseTableProofs ---------------------------
(*****************************************************************************)
(* Proofs that the lease tables keep the invariants of LeaseStore, for every *)
(* set of tasks, agents, resources and attempts, every overlap relation and  *)
(* every bound.                                                              *)
(*                                                                           *)
(* A command is a chain of table updates, so the argument is about           *)
(* databases: Inv(s) is kept by each update. First come the updates that     *)
(* only give back (leases shrink or drain, requests are closed, tasks end),  *)
(* which GivingBack treats together, and the walk of promote_waiters, which  *)
(* keeps Inv and leaves no waiter that could be promoted. Then a request     *)
(* joins the queue; what a grant of a lease leaves alone; an offer becomes a *)
(* lease; a write that is not contended acquires or enlarges a lease batch   *)
(* and marks its resources. LeaseStoreProofs adds the results of writes, the *)
(* commands and the theorems.                                                *)
(*****************************************************************************)
EXTENDS LeaseTables, TLAPS

(* The backend of a step that names none, and the time it may take. *)
USE ZenonT(40)

Inv(s) ==
  /\ TablesOK(s) /\ Exclusive(s) /\ OnePerAgent(s) /\ OnePerTask(s)
  /\ Ordered(s) /\ Covered(s) /\ DrainsSafely(s)

-----------------------------------------------------------------------------
(* Rows *)

\* The empty lease row has no resource, no marker and no attempt.
LEMMA NoLeaseFacts ==
  /\ NoLease \in LeaseRow /\ NoLease.state = "none" /\ NoLease.expires = 0
  /\ NoLease.res = {} /\ NoLease.attempts = {}
  /\ \A r \in Resource : NoLease.slot[r] = None
  BY DEF NoLease, LeaseRow

\* Draining a lease changes its state and nothing else.
LEMMA DrainedFacts ==
  ASSUME NEW lease \in LeaseRow
  PROVE  /\ Drained(lease) \in LeaseRow
         /\ Drained(lease).state = IF lease.state = "none" THEN "none" ELSE "draining"
         /\ Drained(lease).res = lease.res
         /\ Drained(lease).slot = lease.slot
         /\ Drained(lease).attempts = lease.attempts
         /\ Drained(lease).expires = lease.expires
         /\ lease.state = "none" => Drained(lease) = lease
  BY DEF Drained, LeaseRow

\* The fields of the rows of a database.
LEMMA RowFacts ==
  ASSUME NEW s, TablesOK(s)
  PROVE  /\ \A t \in Task : s.leases[t] \in LeaseRow /\ s.tasks[t] \in TaskRow
         /\ \A a \in Attempt : s.attempts[a] \in AttemptRow
         /\ \A q \in Requests(s) : s.requests[q] \in RequestRow
         /\ s.queueSeq \in Nat
  BY DEF TablesOK, Requests

\* Replacing the request table.
LEMMA WithRequests ==
  ASSUME NEW s, TablesOK(s), NEW R \in [Requests(s) -> RequestRow],
         NEW z, z = [s EXCEPT !.requests = R]
  PROVE  /\ TablesOK(z) /\ z.requests = R
         /\ z.tasks = s.tasks /\ z.leases = s.leases
         /\ z.queueSeq = s.queueSeq /\ z.attempts = s.attempts
  BY DEF TablesOK, Requests, Leased

\* Replacing the lease table.
LEMMA WithLeases ==
  ASSUME NEW s, TablesOK(s), NEW L \in [Task -> LeaseRow],
         \A t \in Task : L[t].state # "none" \/ L[t] = NoLease,
         NEW z, z = [s EXCEPT !.leases = L]
  PROVE  /\ TablesOK(z) /\ z.leases = L
         /\ z.tasks = s.tasks /\ z.requests = s.requests
         /\ z.queueSeq = s.queueSeq /\ z.attempts = s.attempts
  BY DEF TablesOK, Leased

\* Replacing the task table.
LEMMA WithTasks ==
  ASSUME NEW s, TablesOK(s), NEW T \in [Task -> TaskRow], NEW z, z = [s EXCEPT !.tasks = T]
  PROVE  /\ TablesOK(z) /\ z.tasks = T
         /\ z.leases = s.leases /\ z.requests = s.requests
         /\ z.queueSeq = s.queueSeq /\ z.attempts = s.attempts
  BY DEF TablesOK, Leased

-----------------------------------------------------------------------------
(* Updates that only give back *)

NoExecuting(s, t) == \A a \in s.leases[t].attempts : s.attempts[a].status # "executing"

\* Leases shrink, requests keep their task and resources, and a request that
\* changes its state is no longer pending.
Shrinks(s, z) ==
  /\ z.queueSeq = s.queueSeq
  /\ \A q \in Requests(s) :
       /\ z.requests[q].task = s.requests[q].task
       /\ z.requests[q].res = s.requests[q].res
       /\ z.requests[q].state # s.requests[q].state =>
            z.requests[q].state \notin {"queued", "offered"}
  /\ \A t \in Task : z.leases[t].res \subseteq s.leases[t].res /\ (Leased(z, t) => Leased(s, t))

\* A lease stays, drains, or goes when nothing executes under it.
Yields(s, z) ==
  /\ z.attempts = s.attempts
  /\ \A t \in Task :
       \/ z.leases[t] = s.leases[t]
       \/ z.leases[t] = Drained(s.leases[t])
       \/ z.leases[t] = NoLease /\ NoExecuting(s, t)

\* Tasks that stop being active take their requests and leases along.
EndsTasks(s, z) ==
  \A t \in Task :
    /\ Active(s, t) /\ ~Active(z, t) => PendingTaskRequest(z, t) = {}
    /\ z.tasks[t].status \notin {"active", "draining"} => ~Leased(z, t)
    /\ z.tasks[t].status = "draining" => z.leases[t].state # "active"

\* What the preamble of a command takes: leases go only when nothing executes
\* under them, and a draining one only together with its task.
GivesBack(s, z) ==
  /\ z.attempts = s.attempts /\ z.queueSeq = s.queueSeq
  /\ \A q \in Requests(s) : z.requests[q].task = s.requests[q].task
  /\ \A t \in Task :
       /\ Active(z, t) => Active(s, t)
       /\ \/ z.leases[t] = s.leases[t]
          \/ z.leases[t] = Drained(s.leases[t])
          \/ /\ z.leases[t] = NoLease /\ NoExecuting(s, t)
             /\ s.leases[t].state = "draining" => ~Active(z, t)

\* A lease that stays or drains keeps its resources; one that goes has none.
LEMMA YieldsRes ==
  ASSUME NEW s, TablesOK(s), NEW z, TablesOK(z), Yields(s, z), NEW t \in Task
  PROVE  z.leases[t].res \subseteq s.leases[t].res /\ (Leased(z, t) => Leased(s, t))
  BY SMTT(40), RowFacts, NoLeaseFacts, DrainedFacts DEF Yields, Leased

\* Claims that only shrink stay disjoint, one per agent, and in order.
LEMMA ShrinkKeepsClaims ==
  ASSUME NEW s, NEW z, TablesOK(s), TablesOK(z), Shrinks(s, z),
         Exclusive(s), OnePerAgent(s), Ordered(s)
  PROVE  Exclusive(z) /\ OnePerAgent(z) /\ Ordered(z)
<1>1. Offered(z) \subseteq Offered(s) /\ Queued(z) \subseteq Queued(s)
  BY DEF Shrinks, Offered, Queued, Requests, TablesOK
<1>2. \A q \in Offered(z) \cup Queued(z) :
        z.requests[q].task = s.requests[q].task /\ z.requests[q].res = s.requests[q].res
  BY <1>1 DEF Shrinks, Offered, Queued, Requests
<1>3. \A t \in Task : z.leases[t].res \subseteq s.leases[t].res /\ (Leased(z, t) => Leased(s, t))
  BY DEF Shrinks
<1>4. Exclusive(z)
  BY <1>1, <1>2, <1>3 DEF Exclusive, Overlapping
<1>5. OnePerAgent(z)
  BY SMTT(40), <1>1, <1>2, <1>3 DEF OnePerAgent
<1>6. Ordered(z)
  BY <1>1, <1>2 DEF Ordered
<1> QED BY <1>4, <1>5, <1>6

\* A task whose requests are closed when it ends keeps one request at most.
LEMMA ShrinkKeepsPending ==
  ASSUME NEW s, NEW z, TablesOK(s), TablesOK(z), Shrinks(s, z), EndsTasks(s, z), OnePerTask(s)
  PROVE  OnePerTask(z)
<1> SUFFICES ASSUME NEW q \in Queued(z) \cup Offered(z)
             PROVE  LET t == z.requests[q].task
                    IN PendingTaskRequest(z, t) = {q} /\ Active(z, t) /\ ~Leased(z, t)
  BY DEF OnePerTask
<1> DEFINE t == z.requests[q].task
<1>1. q \in Requests(z) /\ t \in Task
  BY DEF Queued, Offered, Requests, TablesOK, RequestRow
<1>2. \A p \in Queued(z) \cup Offered(z) :
        p \in Queued(s) \cup Offered(s) /\ z.requests[p].task = s.requests[p].task
  BY DEF Shrinks, Offered, Queued, Requests
<1>3. PendingTaskRequest(s, t) = {q} /\ Active(s, t) /\ ~Leased(s, t)
  BY <1>2 DEF OnePerTask
<1>4. PendingTaskRequest(z, t) = {q}
  BY <1>2, <1>3 DEF PendingTaskRequest
<1>5. Active(z, t) /\ ~Leased(z, t)
  BY <1>1, <1>3, <1>4 DEF EndsTasks, Shrinks
<1> QED BY <1>4, <1>5

\* Executing attempts stay covered when only idle leases go.
LEMMA YieldKeepsCovered ==
  ASSUME NEW s, NEW z, TablesOK(s), TablesOK(z), Yields(s, z), Covered(s)
  PROVE  Covered(z)
<1>1. \A t \in Task : \/ /\ z.leases[t].slot = s.leases[t].slot
                         /\ z.leases[t].attempts = s.leases[t].attempts
                         /\ z.leases[t].res = s.leases[t].res
                      \/ NoExecuting(s, t) /\ z.leases[t] = NoLease
  <2> SUFFICES ASSUME NEW t \in Task
               PROVE  \/ /\ z.leases[t].slot = s.leases[t].slot
                         /\ z.leases[t].attempts = s.leases[t].attempts
                         /\ z.leases[t].res = s.leases[t].res
                      \/ NoExecuting(s, t) /\ z.leases[t] = NoLease
    OBVIOUS
  <2>1. s.leases[t] \in LeaseRow
    BY RowFacts
  <2>2. \/ z.leases[t] = s.leases[t] \/ z.leases[t] = Drained(s.leases[t])
        \/ NoExecuting(s, t) /\ z.leases[t] = NoLease
    BY DEF Yields
  <2> QED BY SMTT(40), <2>1, <2>2, DrainedFacts
<1>2. ASSUME NEW a \in Attempt, z.attempts[a].status = "executing"
      PROVE  \E t \in Task : RunsUnder(z, a, t)
  <2>1. s.attempts[a] = z.attempts[a]
    BY DEF Yields
  <2>2. PICK t \in Task : RunsUnder(s, a, t)
    BY <1>2, <2>1 DEF Covered
  <2>3. ~NoExecuting(s, t)
    BY <1>2, <2>1, <2>2 DEF NoExecuting, RunsUnder
  <2>4. RunsUnder(z, a, t)
    BY <1>1, <2>1, <2>2, <2>3 DEF RunsUnder
  <2> QED BY <2>4
<1>3. ASSUME NEW t \in Task, NEW r \in Resource, NEW a \in Attempt, z.leases[t].slot[r] = a
      PROVE  z.attempts[a].status = "executing" /\ z.attempts[a].task = t /\ r \in z.attempts[a].res
  <2>1. s.leases[t].slot[r] = a
    BY <1>1, <1>3, NoLeaseFacts, NoneAssumption
  <2> QED BY SMTT(40), <2>1 DEF Covered, Yields
<1>4. ASSUME NEW t \in Task, NEW a \in z.leases[t].attempts
      PROVE  z.attempts[a].task = t /\ z.attempts[a].status # "unused"
  BY SMTT(40), <1>1, NoLeaseFacts DEF Covered, Yields
<1> QED BY SMTT(40), <1>2, <1>3, <1>4 DEF Covered

\* A lease that stays or drains keeps draining under an uncertain write.
LEMMA YieldKeepsDraining ==
  ASSUME NEW s, NEW z, TablesOK(s), TablesOK(z), Yields(s, z), EndsTasks(s, z), DrainsSafely(s)
  PROVE  DrainsSafely(z)
<1> SUFFICES ASSUME NEW t \in Task, NEW a \in z.leases[t].attempts,
                    z.attempts[a].status = "uncertain"
             PROVE  z.leases[t].state = "draining"
  BY DEF DrainsSafely, EndsTasks
<1>1. \/ z.leases[t] = s.leases[t]
      \/ z.leases[t] = Drained(s.leases[t])
  BY NoLeaseFacts DEF Yields
<1>2. s.attempts[a].status = "uncertain" /\ a \in s.leases[t].attempts
  BY SMTT(40), <1>1, RowFacts, DrainedFacts DEF Yields
<1> QED BY SMTT(40), <1>1, <1>2, RowFacts, DrainedFacts DEF DrainsSafely

\* An update that only gives back keeps the invariant.
LEMMA GivingBack ==
  ASSUME NEW s, NEW z, Inv(s), TablesOK(z), Shrinks(s, z), Yields(s, z), EndsTasks(s, z)
  PROVE  Inv(z)
  BY ShrinkKeepsClaims, ShrinkKeepsPending, YieldKeepsCovered, YieldKeepsDraining DEF Inv

\* expire_offers closes offers.
LEMMA ExpireOffersKeeps ==
  ASSUME NEW s, Inv(s), NEW now \in Nat
  PROVE  Inv(ExpireOffers(s, now))
<1> DEFINE R == [q \in Requests(s) |->
                   IF s.requests[q].state = "offered" /\ s.requests[q].offerExpires <= now
                   THEN [s.requests[q] EXCEPT !.state = "expired"]
                   ELSE s.requests[q]]
           z == ExpireOffers(s, now)
<1>1. TablesOK(s)
  BY DEF Inv
<1>2. \A q \in Requests(s) :
        /\ R[q] \in RequestRow
        /\ R[q].task = s.requests[q].task
        /\ R[q].res = s.requests[q].res
        /\ R[q].state # s.requests[q].state => R[q].state = "expired"
  BY <1>1, RowFacts DEF RequestRow, RequestState
<1>3. R \in [Requests(s) -> RequestRow]
  BY <1>2
<1>4. z = [s EXCEPT !.requests = R]
  BY DEF ExpireOffers
<1> HIDE DEF R, z
<1>5. /\ TablesOK(z) /\ z.requests = R /\ z.tasks = s.tasks /\ z.leases = s.leases
      /\ z.queueSeq = s.queueSeq /\ z.attempts = s.attempts
  BY SMTT(40), <1>1, <1>3, <1>4, WithRequests
<1>6. Shrinks(s, z)
  BY <1>2, <1>5 DEF Shrinks, Leased
<1>7. Yields(s, z) /\ EndsTasks(s, z)
  BY <1>5 DEF Yields, EndsTasks, Active, Inv, DrainsSafely, Leased
<1>8. Inv(z)
  BY <1>5, <1>6, <1>7, GivingBack
<1> QED BY <1>8 DEF z

\* A lease nothing executes under may be deleted.
LEMMA ReleaseKeeps ==
  ASSUME NEW s, Inv(s), NEW t \in Task, NoExecuting(s, t)
  PROVE  Inv(ReleaseAllTaskLeases(s, t))
<1> DEFINE L == [s.leases EXCEPT ![t] = NoLease]
           z == ReleaseAllTaskLeases(s, t)
<1>1. TablesOK(s)
  BY DEF Inv
<1>2. \A u \in Task : L[u] = IF u = t THEN NoLease ELSE s.leases[u]
  BY <1>1 DEF TablesOK
<1>3. /\ L \in [Task -> LeaseRow]
      /\ \A u \in Task : L[u].state # "none" \/ L[u] = NoLease
  BY <1>1, NoLeaseFacts DEF TablesOK, Leased
<1>4. z = [s EXCEPT !.leases = L]
  BY <1>1 DEF ReleaseAllTaskLeases, TablesOK
<1> HIDE DEF L, z
<1>5. /\ TablesOK(z) /\ z.leases = L /\ z.tasks = s.tasks /\ z.requests = s.requests
      /\ z.queueSeq = s.queueSeq /\ z.attempts = s.attempts
  BY SMTT(40), <1>1, <1>3, <1>4, WithLeases
<1>6. Yields(s, z)
  BY <1>2, <1>5 DEF Yields
<1>7. Shrinks(s, z)
  BY <1>1, <1>5, <1>6, YieldsRes DEF Shrinks
<1>8. EndsTasks(s, z)
  BY <1>2, <1>5, NoLeaseFacts DEF EndsTasks, Active, Inv, DrainsSafely, Leased
<1>9. Inv(z)
  BY <1>5, <1>6, <1>7, <1>8, GivingBack
<1> QED BY <1>9 DEF z

\* Marking leases as draining.
LEMMA DrainSomeKeeps ==
  ASSUME NEW s, Inv(s), NEW L \in [Task -> LeaseRow],
         \A t \in Task : L[t] = s.leases[t] \/ L[t] = Drained(s.leases[t])
  PROVE  Inv([s EXCEPT !.leases = L])
<1> DEFINE z == [s EXCEPT !.leases = L]
<1>1. TablesOK(s)
  BY DEF Inv
<1>2. \A t \in Task : /\ s.leases[t] \in LeaseRow
                      /\ s.leases[t].state # "none" \/ s.leases[t] = NoLease
  BY <1>1, RowFacts DEF TablesOK, Leased
<1>3. \A t \in Task : /\ L[t] \in LeaseRow
                      /\ L[t].state # "none" \/ L[t] = NoLease
  <2> SUFFICES ASSUME NEW t \in Task, L[t].state = "none"
               PROVE  L[t] = NoLease
    OBVIOUS
  <2>1. CASE L[t] = s.leases[t]
    BY <1>2, <2>1
  <2>2. CASE L[t] = Drained(s.leases[t])
    <3>1. s.leases[t].state = "none"
      BY <1>2, <2>2, DrainedFacts
    <3>2. L[t] = s.leases[t]
      BY <1>2, <2>2, <3>1, DrainedFacts
    <3> QED BY <1>2, <3>1, <3>2
  <2> QED BY <2>1, <2>2
<1>5. /\ TablesOK(z) /\ z.leases = L /\ z.tasks = s.tasks /\ z.requests = s.requests
      /\ z.queueSeq = s.queueSeq /\ z.attempts = s.attempts
  BY SMTT(40), <1>1, <1>3, WithLeases
<1> HIDE DEF z
<1>6. Yields(s, z)
  BY <1>5 DEF Yields
<1>7. Shrinks(s, z)
  BY <1>1, <1>5, <1>6, YieldsRes DEF Shrinks
<1>8. EndsTasks(s, z)
  <2> SUFFICES ASSUME NEW t \in Task
               PROVE  /\ Active(s, t) /\ ~Active(z, t) => PendingTaskRequest(z, t) = {}
                      /\ z.tasks[t].status \notin {"active", "draining"} => ~Leased(z, t)
                      /\ z.tasks[t].status = "draining" => z.leases[t].state # "active"
    BY DEF EndsTasks
  <2>1. \/ z.leases[t].state = s.leases[t].state
        \/ s.leases[t].state # "none" /\ z.leases[t].state = "draining"
    BY SMTT(40), <1>2, <1>5, DrainedFacts
  <2> QED BY <1>5, <2>1 DEF Active, Inv, DrainsSafely, Leased
<1>9. Inv(z)
  BY <1>5, <1>6, <1>7, <1>8, GivingBack
<1> QED BY <1>9 DEF z

\* The lease of one task drains.
LEMMA DrainKeeps ==
  ASSUME NEW s, Inv(s), NEW t \in Task
  PROVE  Inv(Drain(s, t))
<1> DEFINE L == [s.leases EXCEPT ![t] = Drained(s.leases[t])]
<1>1. Drain(s, t) = [s EXCEPT !.leases = L]
  BY DEF Drain, Inv, TablesOK
<1>2. \A u \in Task : L[u] = s.leases[u] \/ L[u] = Drained(s.leases[u])
  BY DEF Inv, TablesOK
<1>3. L \in [Task -> LeaseRow]
  BY RowFacts, DrainedFacts DEF Inv, TablesOK
<1> HIDE DEF L
<1> QED BY SMTT(40), <1>1, <1>2, <1>3, DrainSomeKeeps

\* Leases with an overdue write drain.
LEMMA DrainOverdueKeeps ==
  ASSUME NEW s, Inv(s), NEW now \in Nat
  PROVE  Inv(DrainOverdue(s, now))
<1> DEFINE L == [t \in Task |->
                   IF \E a \in s.leases[t].attempts :
                        s.attempts[a].status = "executing" /\ s.attempts[a].deadline <= now
                   THEN Drained(s.leases[t]) ELSE s.leases[t]]
<1>1. DrainOverdue(s, now) = [s EXCEPT !.leases = L]
  BY DEF DrainOverdue
<1>2. \A u \in Task : L[u] = s.leases[u] \/ L[u] = Drained(s.leases[u])
  OBVIOUS
<1>3. L \in [Task -> LeaseRow]
  BY RowFacts, DrainedFacts DEF Inv
<1> HIDE DEF L
<1> QED BY SMTT(40), <1>1, <1>2, <1>3, DrainSomeKeeps

\* Without a marked resource, nothing executes under a lease.
LEMMA NoSlotNoExecuting ==
  ASSUME NEW s, Inv(s), NEW t \in Task, InFlightSlots(s.leases[t]) = {}
  PROVE  NoExecuting(s, t)
<1> SUFFICES ASSUME NEW a \in s.leases[t].attempts, s.attempts[a].status = "executing"
             PROVE  FALSE
  BY DEF NoExecuting
<1>1. a \in Attempt
  BY RowFacts DEF Inv, LeaseRow
<1>2. RunsUnder(s, a, t)
  BY SMTT(40), <1>1 DEF Inv, Covered, RunsUnder
<1> QED BY <1>1, <1>2, NoneAssumption DEF RunsUnder, InFlightSlots

\* Leases past their expiry go, or drain when a resource is marked.
LEMMA LapseLeasesKeeps ==
  ASSUME NEW s, Inv(s), NEW now \in Nat
  PROVE  Inv(LapseLeases(s, now)) /\ GivesBack(s, LapseLeases(s, now))
<1> DEFINE L == [t \in Task |->
        IF s.leases[t].state # "active" \/ s.leases[t].expires > now THEN s.leases[t]
        ELSE IF InFlightSlots(s.leases[t]) # {} THEN Drained(s.leases[t]) ELSE NoLease]
           z == LapseLeases(s, now)
<1>1. TablesOK(s)
  BY DEF Inv
<1>2. \A t \in Task : /\ s.leases[t] \in LeaseRow
                      /\ s.leases[t].state # "none" \/ s.leases[t] = NoLease
  BY <1>1, RowFacts DEF TablesOK, Leased
<1>3. \A t \in Task : \/ L[t] = s.leases[t]
                      \/ L[t] = Drained(s.leases[t])
                      \/ L[t] = NoLease /\ NoExecuting(s, t)
  BY NoSlotNoExecuting
<1>4. \A t \in Task : /\ L[t] \in LeaseRow
                      /\ L[t].state # "none" \/ L[t] = NoLease
  BY <1>2, <1>3, DrainedFacts, NoLeaseFacts
<1>5. L \in [Task -> LeaseRow]
  BY <1>4
<1>6. z = [s EXCEPT !.leases = L]
  BY DEF LapseLeases
<1> HIDE DEF L, z
<1>7. /\ TablesOK(z) /\ z.leases = L /\ z.tasks = s.tasks /\ z.requests = s.requests
      /\ z.queueSeq = s.queueSeq /\ z.attempts = s.attempts
  BY SMTT(40), <1>1, <1>4, <1>5, <1>6, WithLeases
<1>8. Yields(s, z)
  BY <1>3, <1>7 DEF Yields
<1>9. Shrinks(s, z)
  BY <1>1, <1>7, <1>8, YieldsRes DEF Shrinks
<1>10. EndsTasks(s, z)
  <2> SUFFICES ASSUME NEW t \in Task
               PROVE  /\ Active(s, t) /\ ~Active(z, t) => PendingTaskRequest(z, t) = {}
                      /\ z.tasks[t].status \notin {"active", "draining"} => ~Leased(z, t)
                      /\ z.tasks[t].status = "draining" => z.leases[t].state # "active"
    BY DEF EndsTasks
  <2>1. \/ z.leases[t].state = s.leases[t].state
        \/ s.leases[t].state # "none" /\ z.leases[t].state = "draining"
        \/ z.leases[t].state = "none"
    BY SMTT(40), <1>2, <1>3, <1>7, DrainedFacts, NoLeaseFacts
  <2> QED BY <1>7, <2>1 DEF Active, Inv, DrainsSafely, Leased
<1>11. Inv(z)
  BY <1>7, <1>8, <1>9, <1>10, GivingBack
<1>12. GivesBack(s, z)
  <2>1. \A t \in Task : \/ L[t] = s.leases[t]
                        \/ L[t] = Drained(s.leases[t])
                        \/ /\ L[t] = NoLease /\ NoExecuting(s, t)
                           /\ s.leases[t].state # "draining"
    BY <1>3 DEF L
  <2> QED BY <1>7, <2>1 DEF GivesBack, Active
<1> QED BY <1>11, <1>12 DEF z

\* Closing the pending requests of the tasks in T.
LEMMA ClosePendingFacts ==
  ASSUME NEW s, TablesOK(s), NEW T, NEW state \in {"cancelled", "superseded"},
         NEW z, z = ClosePending(s, T, state)
  PROVE  /\ TablesOK(z) /\ z.tasks = s.tasks /\ z.leases = s.leases
         /\ z.queueSeq = s.queueSeq /\ z.attempts = s.attempts
         /\ \A q \in Requests(s) :
              /\ z.requests[q].task = s.requests[q].task
              /\ z.requests[q].res = s.requests[q].res
              /\ z.requests[q].state # s.requests[q].state =>
                   z.requests[q].state \notin {"queued", "offered"}
         /\ \A t \in T : PendingTaskRequest(z, t) = {}
<1> DEFINE R == [q \in Requests(s) |->
        IF s.requests[q].task \in T /\ s.requests[q].state \in {"queued", "offered"}
        THEN [s.requests[q] EXCEPT !.state = state]
        ELSE s.requests[q]]
<1>1. \A q \in Requests(s) :
        /\ R[q] \in RequestRow
        /\ R[q].task = s.requests[q].task
        /\ R[q].res = s.requests[q].res
        /\ R[q].state # s.requests[q].state => R[q].state \notin {"queued", "offered"}
        /\ R[q].task \in T => R[q].state \notin {"queued", "offered"}
  BY SMTT(40), RowFacts DEF RequestRow, RequestState
<1>2. R \in [Requests(s) -> RequestRow]
  BY <1>1
<1>3. z = [s EXCEPT !.requests = R]
  BY DEF ClosePending
<1> HIDE DEF R
<1>4. /\ TablesOK(z) /\ z.requests = R /\ z.tasks = s.tasks /\ z.leases = s.leases
      /\ z.queueSeq = s.queueSeq /\ z.attempts = s.attempts
  BY SMTT(40), <1>2, <1>3, WithRequests
<1>5. \A t \in T : PendingTaskRequest(z, t) = {}
  BY SMTT(40), <1>1, <1>4 DEF PendingTaskRequest, Queued, Offered, Requests
<1> QED BY <1>1, <1>4, <1>5

\* The tasks in E end: their requests are closed and each of them loses its
\* lease, or keeps it draining and drains itself.
LEMMA EndingKeeps ==
  ASSUME NEW s, Inv(s), NEW E \in SUBSET Task, NEW z, TablesOK(z),
         z.requests = ClosePending(s, E, "cancelled").requests,
         z.queueSeq = s.queueSeq, z.attempts = s.attempts,
         \A t \in Task \ E : z.tasks[t] = s.tasks[t] /\ z.leases[t] = s.leases[t],
         \A t \in E : \/ /\ z.leases[t] = NoLease
                         /\ NoExecuting(s, t)
                         /\ z.tasks[t].status # "active"
                      \/ /\ z.leases[t] = Drained(s.leases[t])
                         /\ z.tasks[t].status = "draining"
  PROVE  Inv(z)
<1> DEFINE c == ClosePending(s, E, "cancelled")
<1>1. TablesOK(s)
  BY DEF Inv
<1> HIDE DEF c
<1>2. /\ c.queueSeq = s.queueSeq
      /\ \A q \in Requests(s) :
              /\ c.requests[q].task = s.requests[q].task
              /\ c.requests[q].res = s.requests[q].res
              /\ c.requests[q].state # s.requests[q].state =>
                   c.requests[q].state \notin {"queued", "offered"}
      /\ \A t \in E : PendingTaskRequest(c, t) = {}
  BY SMTT(40), <1>1, ClosePendingFacts DEF c
<1>3. z.requests = c.requests
  BY DEF c
<1>4. Yields(s, z)
  BY DEF Yields
<1>5. Shrinks(s, z)
  BY <1>1, <1>2, <1>3, <1>4, YieldsRes DEF Shrinks
<1>6. EndsTasks(s, z)
  <2> SUFFICES ASSUME NEW t \in Task
               PROVE  /\ Active(s, t) /\ ~Active(z, t) => PendingTaskRequest(z, t) = {}
                      /\ z.tasks[t].status \notin {"active", "draining"} => ~Leased(z, t)
                      /\ z.tasks[t].status = "draining" => z.leases[t].state # "active"
    BY DEF EndsTasks
  <2>1. CASE t \notin E
    BY <2>1 DEF Active, Inv, DrainsSafely, Leased
  <2>2. CASE t \in E
    <3>1. PendingTaskRequest(z, t) = {}
      BY SMTT(40), <1>2, <1>3, <2>2 DEF PendingTaskRequest, Queued, Offered, Requests
    <3>2. \/ z.leases[t].state = "none"
          \/ z.tasks[t].status = "draining" /\ z.leases[t].state # "active"
      BY <1>1, <2>2, RowFacts, DrainedFacts, NoLeaseFacts
    <3> QED BY <3>1, <3>2 DEF Leased
  <2> QED BY <2>1, <2>2
<1> QED BY <1>4, <1>5, <1>6, GivingBack

\* With no write in flight, nothing executes under the lease.
LEMMA IdleNoExecuting ==
  ASSUME NEW s, NEW t, ~TaskInFlight(s, t)
  PROVE  NoExecuting(s, t)
  BY DEF TaskInFlight, NoExecuting

\* Draining or removing leases keeps the lease table in shape.
LEMMA YieldedLease ==
  ASSUME NEW s, TablesOK(s), NEW t \in Task, NEW lease,
         lease \in {s.leases[t], Drained(s.leases[t]), NoLease}
  PROVE  lease \in LeaseRow /\ (lease.state # "none" \/ lease = NoLease)
<1>1. s.leases[t] \in LeaseRow /\ (s.leases[t].state # "none" \/ s.leases[t] = NoLease)
  <2>1. s.leases[t] \in LeaseRow
    BY RowFacts
  <2>2. s.leases[t].state # "none" \/ s.leases[t] = NoLease
    BY DEF TablesOK, Leased
  <2> QED BY <2>1, <2>2
<1>2. CASE lease = s.leases[t]
  BY <1>1, <1>2
<1>3. CASE lease = NoLease
  BY <1>3, NoLeaseFacts
<1>4. CASE lease = Drained(s.leases[t])
  <2>1. CASE s.leases[t].state = "none"
    BY <1>1, <1>4, <2>1, DrainedFacts
  <2>2. CASE s.leases[t].state # "none"
    BY <1>1, <1>4, <2>2, DrainedFacts
  <2> QED BY <2>1, <2>2
<1> QED BY <1>2, <1>3, <1>4

\* Tasks that missed their heartbeats end.
LEMMA LapseTasksKeeps ==
  ASSUME NEW s, Inv(s), NEW now \in Nat
  PROVE  Inv(LapseTasks(s, now)) /\ GivesBack(s, LapseTasks(s, now))
<1> DEFINE E == LapsedTasks(s, now)
           c == ClosePending(s, E, "cancelled")
<1>0. TablesOK(s)
  BY DEF Inv
<1>1. TablesOK(s) /\ E \in SUBSET Task
  BY <1>0 DEF LapsedTasks
<1>2. /\ TablesOK(c) /\ c.tasks = s.tasks /\ c.leases = s.leases
      /\ c.queueSeq = s.queueSeq /\ c.attempts = s.attempts
      /\ \A q \in Requests(s) : c.requests[q].task = s.requests[q].task
  BY SMTT(40), <1>0, ClosePendingFacts
<1> DEFINE T == [t \in Task |->
                   IF t \notin E THEN s.tasks[t]
                   ELSE [s.tasks[t] EXCEPT
                           !.status = IF TaskInFlight(s, t) THEN "draining" ELSE "failed",
                           !.terminal = "failed"]]
           L == [t \in Task |->
                   IF t \notin E THEN s.leases[t]
                   ELSE IF TaskInFlight(s, t) THEN Drained(s.leases[t]) ELSE NoLease]
           b == [c EXCEPT !.tasks = T]
           z == [b EXCEPT !.leases = L]
<1>3. \A t \in Task : /\ T[t] \in TaskRow
                      /\ t \notin E => T[t] = s.tasks[t]
                      /\ t \in E => T[t].status = IF TaskInFlight(s, t) THEN "draining" ELSE "failed"
  <2> HIDE DEF E
  <2> QED BY <1>1, RowFacts DEF TaskRow, TerminalStatus
<1>4. T \in [Task -> TaskRow]
  BY <1>3
<1>5. \A t \in Task : /\ L[t] \in LeaseRow
                      /\ L[t].state # "none" \/ L[t] = NoLease
  BY <1>1, YieldedLease
<1>6. L \in [Task -> LeaseRow]
  BY <1>5
<1>7. \A t \in Task : /\ t \notin E => L[t] = s.leases[t]
                      /\ t \in E => L[t] = IF TaskInFlight(s, t) THEN Drained(s.leases[t]) ELSE NoLease
  OBVIOUS
<1>8. LapseTasks(s, now) = z
  BY <1>2 DEF LapseTasks, TablesOK
<1> HIDE DEF E, c, T, L, b, z
<1>9. /\ TablesOK(b) /\ b.tasks = T /\ b.leases = c.leases /\ b.requests = c.requests
      /\ b.queueSeq = c.queueSeq /\ b.attempts = c.attempts
  BY SMTT(40), <1>2, <1>4, WithTasks DEF b
<1>10. /\ TablesOK(z) /\ z.leases = L /\ z.tasks = b.tasks /\ z.requests = b.requests
       /\ z.queueSeq = b.queueSeq /\ z.attempts = b.attempts
  BY SMTT(40), <1>5, <1>6, <1>9, WithLeases DEF z
<1>11. \A t \in E : \/ /\ z.leases[t] = NoLease
                       /\ NoExecuting(s, t)
                       /\ z.tasks[t].status # "active"
                    \/ /\ z.leases[t] = Drained(s.leases[t])
                       /\ z.tasks[t].status = "draining"
  BY <1>1, <1>3, <1>7, <1>9, <1>10, IdleNoExecuting
<1>12. \A t \in Task \ E : z.tasks[t] = s.tasks[t] /\ z.leases[t] = s.leases[t]
  BY <1>3, <1>7, <1>9, <1>10
<1>13. Inv(z)
  BY SMTT(40), <1>1, <1>2, <1>9, <1>10, <1>11, <1>12, EndingKeeps DEF c
<1>14. \A t \in Task : Active(z, t) => t \notin E
  BY <1>11 DEF Active
<1>15. GivesBack(s, z)
  <2>1. /\ z.attempts = s.attempts /\ z.queueSeq = s.queueSeq
        /\ \A q \in Requests(s) : z.requests[q].task = s.requests[q].task
    BY <1>2, <1>9, <1>10
  <2>2. \A t \in Task : Active(z, t) => Active(s, t)
    BY <1>12, <1>14 DEF Active
  <2> QED BY <1>11, <1>12, <1>14, <2>1, <2>2 DEF GivesBack
<1> QED BY <1>8, <1>13, <1>15

-----------------------------------------------------------------------------
(* The walk of promote_waiters *)

\* Overlap of resource sets is symmetric.
LEMMA OverlapSymmetric ==
  ASSUME NEW A \in SUBSET Resource, NEW B \in SUBSET Resource, Overlapping(A, B)
  PROVE  Overlapping(B, A)
  BY OverlapAssumption DEF Overlapping

\* Writing a verdict back keeps the task and the resources of a request.
LEMMA SettledFacts ==
  ASSUME NEW req \in RequestRow, NEW verdict \in Verdict, NEW now \in Nat
  PROVE  /\ Settled(req, verdict, now) \in RequestRow
         /\ Settled(req, verdict, now).task = req.task
         /\ Settled(req, verdict, now).res = req.res
         /\ Settled(req, verdict, now).state = verdict
<1> DEFINE e == IF now + OfferTtl < req.expires THEN now + OfferTtl ELSE req.expires
<1>1. e \in Nat
  BY SMTT(40), OfferTtlAssumption DEF RequestRow
<1>2. CASE verdict = "offered"
  <2>1. Settled(req, verdict, now) =
          [req EXCEPT !.state = "offered", !.offeredAt = now, !.offerExpires = e]
    BY <1>2 DEF Settled
  <2> HIDE DEF e
  <2> QED BY <1>1, <1>2, <2>1 DEF RequestRow, RequestState
<1>3. CASE verdict # "offered"
  <2>1. Settled(req, verdict, now) = [req EXCEPT !.state = verdict]
    BY <1>3 DEF Settled
  <2> QED BY <2>1 DEF RequestRow, RequestState, Verdict
<1> QED BY <1>2, <1>3

\* What a walk leaves: requests keep their task and resources, the queued ones
\* take their verdict, the others their state.
LEMMA SettleFacts ==
  ASSUME NEW s, TablesOK(s), NEW now \in Nat, NEW d \in Walks(s, now),
         NEW z, z = Settle(s, d, now)
  PROVE  /\ TablesOK(z)
         /\ z.tasks = s.tasks /\ z.leases = s.leases
         /\ z.queueSeq = s.queueSeq /\ z.attempts = s.attempts
         /\ \A q \in Requests(s) : z.requests[q].task = s.requests[q].task
                                   /\ z.requests[q].res = s.requests[q].res
         /\ Queued(z) = {q \in Queued(s) : d[q] = "queued"}
         /\ Offered(z) = Offered(s) \cup {q \in Queued(s) : d[q] = "offered"}
<1> DEFINE R == [q \in Requests(s) |->
                   IF q \in Queued(s) THEN Settled(s.requests[q], d[q], now) ELSE s.requests[q]]
<1>1. \A q \in Queued(s) : d[q] \in Verdict
  BY DEF Walks
<1>2. ASSUME NEW q \in Requests(s)
      PROVE  /\ R[q] \in RequestRow
             /\ R[q].task = s.requests[q].task
             /\ R[q].res = s.requests[q].res
             /\ R[q].state = IF q \in Queued(s) THEN d[q] ELSE s.requests[q].state
  <2>1. s.requests[q] \in RequestRow
    BY RowFacts
  <2>2. CASE q \notin Queued(s)
    BY <2>1, <2>2
  <2>3. CASE q \in Queued(s)
    <3>1. R[q] = Settled(s.requests[q], d[q], now)
      BY <2>3
    <3>2. d[q] \in Verdict
      BY <1>1, <2>3
    <3> HIDE DEF R
    <3> QED BY SMTT(40), <2>1, <2>3, <3>1, <3>2, SettledFacts
  <2> QED BY <2>2, <2>3
<1>3. R \in [Requests(s) -> RequestRow]
  BY <1>2
<1>4. z = [s EXCEPT !.requests = R]
  BY DEF Settle
<1> HIDE DEF R
<1>5. /\ TablesOK(z) /\ z.requests = R /\ z.tasks = s.tasks /\ z.leases = s.leases
      /\ z.queueSeq = s.queueSeq /\ z.attempts = s.attempts
  BY SMTT(40), <1>3, <1>4, WithRequests
<1>6. Queued(z) = {q \in Queued(s) : d[q] = "queued"}
  BY SMTT(40), <1>2, <1>5 DEF Queued, Requests
<1>7. Offered(z) = Offered(s) \cup {q \in Queued(s) : d[q] = "offered"}
  BY <1>2, <1>5 DEF Queued, Offered, Requests
<1> QED BY <1>2, <1>5, <1>6, <1>7

\* The walk offers no request that a lease, an offer or an older waiter
\* stands in the way of.
LEMMA SettleKeeps ==
  ASSUME NEW s, Inv(s), NEW now \in Nat, NEW d \in Walks(s, now)
  PROVE  Inv(Settle(s, d, now))
<1> DEFINE z == Settle(s, d, now)
           New == {q \in Queued(s) : d[q] = "offered"}
<1>1. TablesOK(s)
  BY DEF Inv
<1>2. /\ TablesOK(z)
      /\ z.tasks = s.tasks /\ z.leases = s.leases
      /\ z.queueSeq = s.queueSeq /\ z.attempts = s.attempts
      /\ \A q \in Requests(s) : z.requests[q].task = s.requests[q].task
                                /\ z.requests[q].res = s.requests[q].res
      /\ Queued(z) = {q \in Queued(s) : d[q] = "queued"}
      /\ Offered(z) = Offered(s) \cup New
  BY SMTT(40), <1>1, SettleFacts
<1> HIDE DEF z
<1>3. \A q \in Queued(s) \cup Offered(s) :
        /\ q \in Requests(s) /\ q \in Nat
        /\ s.requests[q].task \in Task
        /\ s.requests[q].res \in SUBSET Resource
  BY SMTT(40), <1>1, RowFacts DEF Queued, Offered, Requests, RequestRow
<1>4. \A q \in New : q \in Queued(s) /\ ~Blocked(s, d, q)
  BY DEF Walks, VerdictFor
<1>5. \A p, q \in Queued(s) \cup Offered(s) :
        p # q => s.requests[p].task # s.requests[q].task
  BY DEF Inv, OnePerTask, PendingTaskRequest
<1>6. \A q \in New : \A u \in Task \ {s.requests[q].task} :
        ~Overlapping(s.requests[q].res, s.leases[u].res)
  BY SMTT(40), <1>4 DEF Blocked
<1>7. \A q \in New : \A p \in Offered(s) \cup New :
        p \in Offered(s) \/ p < q =>
          /\ Owner[s.requests[p].task] # Owner[s.requests[q].task]
          /\ p # q => ~Overlapping(s.requests[q].res, s.requests[p].res)
  <2> SUFFICES ASSUME NEW q \in New, NEW p \in Offered(s) \cup New, p \in Offered(s) \/ p < q
               PROVE  /\ Owner[s.requests[p].task] # Owner[s.requests[q].task]
                      /\ p # q => ~Overlapping(s.requests[q].res, s.requests[p].res)
    OBVIOUS
  <2>1. p \in OfferedBefore(s, d, q)
    BY DEF OfferedBefore
  <2> QED BY <1>4, <1>5, <2>1 DEF Blocked
<1>8. \A p, q \in Offered(s) \cup New : p # q =>
        /\ Owner[s.requests[p].task] # Owner[s.requests[q].task]
        /\ ~Overlapping(s.requests[p].res, s.requests[q].res)
  <2> SUFFICES ASSUME NEW p \in Offered(s) \cup New, NEW q \in Offered(s) \cup New, p # q
               PROVE  /\ Owner[s.requests[p].task] # Owner[s.requests[q].task]
                      /\ ~Overlapping(s.requests[p].res, s.requests[q].res)
    OBVIOUS
  <2>1. CASE p \in Offered(s) /\ q \in Offered(s)
    BY <2>1 DEF Inv, Exclusive, OnePerAgent
  <2>2. CASE q \in New /\ (p \in Offered(s) \/ p < q)
    BY <1>3, <1>4, <1>7, <2>2, OverlapSymmetric
  <2>3. CASE p \in New /\ (q \in Offered(s) \/ q < p)
    BY <1>7, <2>3
  <2>4. p < q \/ q < p
    BY SMTT(40), <1>3, <1>4
  <2> QED BY <2>1, <2>2, <2>3, <2>4
<1>9. Exclusive(z)
  BY SMTT(40), <1>2, <1>3, <1>4, <1>6, <1>8 DEF Inv, Exclusive
<1>10. OnePerAgent(z)
  BY SMTT(40), <1>2, <1>3, <1>4, <1>8 DEF Inv, OnePerAgent, Leased
<1>11. OnePerTask(z)
  <2> SUFFICES ASSUME NEW q \in Queued(z) \cup Offered(z)
               PROVE  LET t == z.requests[q].task
                      IN PendingTaskRequest(z, t) = {q} /\ Active(z, t) /\ ~Leased(z, t)
    BY DEF OnePerTask
  <2>1. q \in Queued(s) \cup Offered(s) /\ z.requests[q].task = s.requests[q].task
    BY <1>2, <1>3
  <2>2. PendingTaskRequest(z, z.requests[q].task) = {q}
    BY SMTT(40), <1>2, <1>3, <1>5, <2>1 DEF PendingTaskRequest
  <2>3. Active(s, s.requests[q].task) /\ ~Leased(s, s.requests[q].task)
    BY <2>1 DEF Inv, OnePerTask
  <2> QED BY <1>2, <2>1, <2>2, <2>3 DEF Active, Leased
<1>12. Ordered(z)
  <2> SUFFICES ASSUME NEW p \in Queued(z), NEW q \in Offered(z), p < q
               PROVE  ~Overlapping(z.requests[p].res, z.requests[q].res)
    BY DEF Ordered
  <2>1. p \in Queued(s) /\ d[p] = "queued"
    BY <1>2
  <2>2. CASE q \in Offered(s)
    BY <1>2, <1>3, <2>1, <2>2 DEF Inv, Ordered
  <2>3. CASE q \in New
    <3>1. ~Overlapping(s.requests[q].res, s.requests[p].res)
      BY SMTT(40), <1>4, <2>1, <2>3 DEF Blocked
    <3> QED BY <1>2, <1>3, <1>4, <2>1, <2>3, <3>1, OverlapSymmetric
  <2> QED BY <1>2, <2>2, <2>3
<1>13. Covered(z)
  BY SMTT(40), <1>2 DEF Inv, Covered, RunsUnder
<1>14. DrainsSafely(z)
  BY <1>2 DEF Inv, DrainsSafely, Leased
<1>15. Inv(z)
  BY <1>2, <1>9, <1>10, <1>11, <1>12, <1>13, <1>14 DEF Inv
<1> QED BY <1>15 DEF z

\* After the walk nothing is left to promote: what blocked a request during
\* the walk blocks it still.
LEMMA SettleLeavesNothing ==
  ASSUME NEW s, TablesOK(s), NEW now \in Nat, NEW d \in Walks(s, now)
  PROVE  NothingToPromote(Settle(s, d, now))
<1> DEFINE z == Settle(s, d, now)
           idle == [p \in Queued(z) |-> "queued"]
<1>1. /\ z.leases = s.leases /\ z.queueSeq = s.queueSeq
      /\ \A q \in Requests(s) : z.requests[q].task = s.requests[q].task
                                /\ z.requests[q].res = s.requests[q].res
      /\ Queued(z) = {q \in Queued(s) : d[q] = "queued"}
      /\ Offered(z) = Offered(s) \cup {q \in Queued(s) : d[q] = "offered"}
  BY SMTT(40), SettleFacts
<1> HIDE DEF z
<1> SUFFICES ASSUME NEW q \in Queued(z)
             PROVE  Blocked(z, idle, q)
  BY DEF NothingToPromote, z
<1>2. q \in Queued(s) /\ d[q] = "queued"
  BY <1>1
<1>3. Blocked(s, d, q)
  BY <1>2 DEF Walks, VerdictFor
<1>4. \A p \in Queued(s) \cup Offered(s) :
        z.requests[p].task = s.requests[p].task /\ z.requests[p].res = s.requests[p].res
  BY <1>1 DEF Queued, Offered
<1>5. \A p \in OfferedBefore(s, d, q) : p \in OfferedBefore(z, idle, q) /\ p \in Queued(s) \cup Offered(s)
  BY <1>1 DEF OfferedBefore
<1>6. \A p \in Queued(s) : d[p] = "queued" => p \in Queued(z) /\ idle[p] = "queued"
  BY <1>1
<1>7. \A u \in Task : Leased(s, u) => Leased(z, u)
  BY SMTT(40), <1>1 DEF Leased
<1> HIDE DEF idle
<1> QED BY <1>1, <1>2, <1>3, <1>4, <1>5, <1>6, <1>7 DEF Blocked, AgentSlotOccupied

\* Blockers that stay where they are block what they blocked.
LEMMA NothingKept ==
  ASSUME NEW s, NEW z, NothingToPromote(s),
         Queued(z) = Queued(s), Offered(z) = Offered(s),
         \A q \in Queued(s) \cup Offered(s) :
           z.requests[q].task = s.requests[q].task /\ z.requests[q].res = s.requests[q].res,
         \A t \in Task : s.leases[t].res \subseteq z.leases[t].res /\ (Leased(s, t) => Leased(z, t))
  PROVE  NothingToPromote(z)
<1> DEFINE idle == [p \in Queued(s) |-> "queued"]
<1> SUFFICES ASSUME NEW q \in Queued(s)
             PROVE  Blocked(z, idle, q)
  BY DEF NothingToPromote
<1>1. Blocked(s, idle, q)
  BY DEF NothingToPromote
<1>2. OfferedBefore(z, idle, q) = OfferedBefore(s, idle, q)
  BY DEF OfferedBefore
<1>3. OfferedBefore(s, idle, q) \subseteq Queued(s) \cup Offered(s)
  BY DEF OfferedBefore
<1> HIDE DEF idle
<1> QED BY <1>1, <1>2, <1>3 DEF Blocked, AgentSlotOccupied, Overlapping

\* promote_waiters keeps the invariant and leaves nothing to promote.
LEMMA PromoteKeeps ==
  ASSUME NEW s, Inv(s), NEW now \in Nat, NEW z \in PromoteWaiters(s, now)
  PROVE  Inv(z) /\ NothingToPromote(z)
<1> DEFINE o == ExpireOffers(s, now)
<1>1. Inv(o)
  BY ExpireOffersKeeps
<1>2. PICK d \in Walks(o, now) : z = Settle(o, d, now)
  BY DEF PromoteWaiters
<1> HIDE DEF o
<1> QED BY <1>1, <1>2, SettleKeeps, SettleLeavesNothing DEF Inv

\* promote_waiters leaves tasks, leases and attempts alone, and every request
\* with its task.
LEMMA PromoteFrame ==
  ASSUME NEW s, Inv(s), NEW now \in Nat, NEW z \in PromoteWaiters(s, now)
  PROVE  /\ z.tasks = s.tasks /\ z.leases = s.leases /\ z.attempts = s.attempts
         /\ z.queueSeq = s.queueSeq
         /\ \A q \in Requests(s) : z.requests[q].task = s.requests[q].task
<1> DEFINE o == ExpireOffers(s, now)
<1>1. Inv(o)
  BY ExpireOffersKeeps
<1>2. PICK d \in Walks(o, now) : z = Settle(o, d, now)
  BY DEF PromoteWaiters
<1>3. o.tasks = s.tasks /\ o.leases = s.leases /\ o.attempts = s.attempts /\ o.queueSeq = s.queueSeq
  BY DEF ExpireOffers, Inv, TablesOK
<1>4. \A q \in Requests(s) : o.requests[q].task = s.requests[q].task
  <2>1. \A q \in Requests(s) : s.requests[q] \in RequestRow
    BY RowFacts DEF Inv
  <2>2. \A q \in Requests(s) : o.requests[q] =
          IF s.requests[q].state = "offered" /\ s.requests[q].offerExpires <= now
          THEN [s.requests[q] EXCEPT !.state = "expired"]
          ELSE s.requests[q]
    BY DEF ExpireOffers, Inv, TablesOK
  <2> QED BY <2>1, <2>2 DEF RequestRow
<1> HIDE DEF o
<1>5. /\ z.tasks = o.tasks /\ z.leases = o.leases /\ z.attempts = o.attempts
      /\ z.queueSeq = o.queueSeq
      /\ \A q \in Requests(o) : z.requests[q].task = o.requests[q].task
  BY SMTT(40), <1>1, <1>2, SettleFacts DEF Inv
<1> QED BY <1>3, <1>4, <1>5 DEF Requests

\* Giving back twice is giving back.
LEMMA GivesBackTwice ==
  ASSUME NEW s, TablesOK(s), NEW y, TablesOK(y), NEW z,
         GivesBack(s, y), GivesBack(y, z)
  PROVE  GivesBack(s, z)
<1>1. \A q \in Requests(s) : q \in Requests(y) /\ z.requests[q].task = s.requests[q].task
  BY DEF GivesBack, Requests
<1>2. ASSUME NEW t \in Task
      PROVE  \/ z.leases[t] = s.leases[t]
             \/ z.leases[t] = Drained(s.leases[t])
             \/ /\ z.leases[t] = NoLease /\ NoExecuting(s, t)
                /\ s.leases[t].state = "draining" => ~Active(z, t)
  <2>1. s.leases[t] \in LeaseRow /\ y.leases[t] \in LeaseRow
    BY RowFacts
  <2>2. Active(z, t) => Active(y, t)
    BY DEF GivesBack
  <2>3. Drained(NoLease) = NoLease /\ Drained(Drained(s.leases[t])) = Drained(s.leases[t])
    <3>1. Drained(NoLease) = NoLease
      BY NoLeaseFacts, DrainedFacts
    <3>2. ASSUME NEW lease \in LeaseRow
          PROVE  Drained(Drained(lease)) = Drained(lease)
      BY DEF Drained, LeaseRow
    <3> QED BY <2>1, <3>1, <3>2
  <2>4. CASE y.leases[t] = s.leases[t] \/ y.leases[t] = Drained(s.leases[t])
    <3>1. y.leases[t].attempts = s.leases[t].attempts /\ y.attempts = s.attempts
      BY SMTT(40), <2>1, <2>4, DrainedFacts DEF GivesBack
    <3>2. NoExecuting(y, t) => NoExecuting(s, t)
      BY <3>1 DEF NoExecuting
    <3>3. s.leases[t].state = "draining" => y.leases[t].state = "draining"
      BY SMTT(40), <2>1, <2>4, DrainedFacts
    <3>4. \/ z.leases[t] = y.leases[t]
          \/ z.leases[t] = Drained(y.leases[t])
          \/ /\ z.leases[t] = NoLease /\ NoExecuting(y, t)
             /\ y.leases[t].state = "draining" => ~Active(z, t)
      BY DEF GivesBack
    <3> QED BY <2>3, <2>4, <3>2, <3>3, <3>4
  <2>5. CASE /\ y.leases[t] = NoLease /\ NoExecuting(s, t)
             /\ s.leases[t].state = "draining" => ~Active(y, t)
    <3>1. z.leases[t] = NoLease
      BY <2>3, <2>5 DEF GivesBack
    <3> QED BY <2>2, <2>5, <3>1
  <2> QED BY <2>4, <2>5 DEF GivesBack
<1> QED BY <1>1, <1>2 DEF GivesBack

\* expire_tasks_and_leases keeps the invariant.
LEMMA ExpireKeeps ==
  ASSUME NEW s, Inv(s), NEW now \in Nat
  PROVE  Inv(ExpireTasksAndLeases(s, now)) /\ GivesBack(s, ExpireTasksAndLeases(s, now))
<1> DEFINE y == LapseTasks(s, now)
           z == LapseLeases(y, now)
<1>1. Inv(y) /\ GivesBack(s, y)
  BY LapseTasksKeeps
<1> HIDE DEF y
<1>2. Inv(z) /\ GivesBack(y, z)
  BY <1>1, LapseLeasesKeeps
<1> HIDE DEF z
<1>3. GivesBack(s, z)
  BY <1>1, <1>2, GivesBackTwice DEF Inv
<1> QED BY <1>2, <1>3 DEF ExpireTasksAndLeases, y, z

-----------------------------------------------------------------------------
(* Starting, renewing and ending tasks *)

\* A task may start, and a task row may change without changing its status.
LEMMA TasksKeep ==
  ASSUME NEW s, Inv(s), NothingToPromote(s), NEW T \in [Task -> TaskRow],
         \A t \in Task : \/ T[t].status = s.tasks[t].status
                         \/ s.tasks[t].status = "absent" /\ T[t].status = "active"
  PROVE  Inv([s EXCEPT !.tasks = T]) /\ NothingToPromote([s EXCEPT !.tasks = T])
<1> DEFINE z == [s EXCEPT !.tasks = T]
<1>1. /\ TablesOK(z) /\ z.tasks = T /\ z.leases = s.leases /\ z.requests = s.requests
      /\ z.queueSeq = s.queueSeq /\ z.attempts = s.attempts
  BY SMTT(40), WithTasks DEF Inv
<1> HIDE DEF z
<1>2. Shrinks(s, z) /\ Yields(s, z)
  BY <1>1 DEF Shrinks, Yields, Leased
<1>3. EndsTasks(s, z)
  BY <1>1 DEF EndsTasks, Active, Inv, DrainsSafely, Leased
<1>4. Inv(z)
  BY <1>1, <1>2, <1>3, GivingBack
<1>5. NothingToPromote(z)
  BY SMTT(40), <1>1, NothingKept DEF Queued, Offered, Requests, Leased
<1> QED BY <1>4, <1>5 DEF z

\* b is s after the task t has begun to end: its pending requests are closed and
\* it is draining.
EndingOf(s, t, b) ==
  /\ TablesOK(b) /\ b.leases = s.leases /\ b.attempts = s.attempts
  /\ b.requests = ClosePending(s, {t}, "cancelled").requests
  /\ b.queueSeq = s.queueSeq
  /\ \A u \in Task \ {t} : b.tasks[u] = s.tasks[u]
  /\ b.tasks[t].status = "draining"

\* The tables while end_task counts the writes in flight.
LEMMA EndingFacts ==
  ASSUME NEW s, Inv(s), NEW t \in Task, NEW terminal \in TerminalStatus,
         NEW b, b = EndingTask(s, t, terminal)
  PROVE  EndingOf(s, t, b)
<1> DEFINE c == ClosePending(s, {t}, "cancelled")
           row == [s.tasks[t] EXCEPT !.status = "draining", !.terminal = terminal]
           T == [s.tasks EXCEPT ![t] = row]
<1>1. /\ TablesOK(c) /\ c.tasks = s.tasks /\ c.leases = s.leases
      /\ c.queueSeq = s.queueSeq /\ c.attempts = s.attempts
  BY SMTT(40), ClosePendingFacts DEF Inv
<1>2. row \in TaskRow /\ row.status = "draining"
  BY RowFacts DEF Inv, TaskRow
<1>3. s.tasks \in [Task -> TaskRow]
  BY DEF Inv, TablesOK
<1>4. b = [c EXCEPT !.tasks = T]
  <2> HIDE DEF c
  <2>1. b = [c EXCEPT !.tasks[t].status = "draining", !.tasks[t].terminal = terminal]
    BY DEF EndingTask, c
  <2> QED BY <1>1, <1>3, <2>1 DEF TablesOK, TaskRow
<1> HIDE DEF c, row
<1>5. T \in [Task -> TaskRow] /\ T[t] = row /\ \A u \in Task \ {t} : T[u] = s.tasks[u]
  BY <1>2, <1>3
<1> HIDE DEF T
<1>6. /\ TablesOK(b) /\ b.tasks = T /\ b.leases = c.leases /\ b.requests = c.requests
      /\ b.queueSeq = c.queueSeq /\ b.attempts = c.attempts
  BY SMTT(40), <1>1, <1>4, <1>5, WithTasks
<1> QED BY <1>1, <1>2, <1>5, <1>6 DEF c, EndingOf

\* A task with no write in flight ends and its lease goes.
LEMMA EndKeeps ==
  ASSUME NEW s, Inv(s), NEW t \in Task, NEW terminal \in TerminalStatus,
         ~TaskInFlight(EndingTask(s, t, terminal), t)
  PROVE  Inv([ReleaseAllTaskLeases(EndingTask(s, t, terminal), t) EXCEPT
                !.tasks[t].status = terminal])
<1> DEFINE b == EndingTask(s, t, terminal)
           L == [b.leases EXCEPT ![t] = NoLease]
           T == [b.tasks EXCEPT ![t].status = terminal]
           x == [b EXCEPT !.leases = L]
           z == [x EXCEPT !.tasks = T]
<1>0. b = EndingTask(s, t, terminal)
  OBVIOUS
<1> HIDE DEF b
<1>1. /\ TablesOK(b) /\ b.leases = s.leases /\ b.attempts = s.attempts
      /\ b.requests = ClosePending(s, {t}, "cancelled").requests
      /\ b.queueSeq = s.queueSeq
      /\ \A u \in Task \ {t} : b.tasks[u] = s.tasks[u]
  <2>1. EndingOf(s, t, b)
    BY <1>0, EndingFacts
  <2> QED BY <2>1 DEF EndingOf
<1>2. ~TaskInFlight(s, t)
  BY <1>0, <1>1 DEF TaskInFlight
<1>3. L \in [Task -> LeaseRow] /\ L[t] = NoLease /\ \A u \in Task \ {t} : L[u] = s.leases[u]
  BY <1>1, NoLeaseFacts DEF TablesOK
<1>4. \A u \in Task : L[u].state # "none" \/ L[u] = NoLease
  BY <1>1, <1>3 DEF TablesOK, Leased
<1>5. /\ T \in [Task -> TaskRow] /\ T[t].status = terminal
      /\ \A u \in Task \ {t} : T[u] = s.tasks[u]
  BY <1>1 DEF TablesOK, TaskRow
<1>6. [ReleaseAllTaskLeases(b, t) EXCEPT !.tasks[t].status = terminal] = z
  BY <1>1 DEF ReleaseAllTaskLeases, TablesOK
<1> HIDE DEF L, T, x, z
<1>7. /\ TablesOK(x) /\ x.leases = L /\ x.tasks = b.tasks /\ x.requests = b.requests
      /\ x.queueSeq = b.queueSeq /\ x.attempts = b.attempts
  BY SMTT(40), <1>1, <1>3, <1>4, WithLeases DEF x
<1>8. /\ TablesOK(z) /\ z.tasks = T /\ z.leases = x.leases /\ z.requests = x.requests
      /\ z.queueSeq = x.queueSeq /\ z.attempts = x.attempts
  BY SMTT(40), <1>5, <1>7, WithTasks DEF z
<1>9. NoExecuting(s, t) /\ z.leases[t] = NoLease /\ z.tasks[t].status # "active"
  BY <1>2, <1>3, <1>5, <1>7, <1>8, IdleNoExecuting DEF TerminalStatus
<1>10. \A u \in Task \ {t} : z.tasks[u] = s.tasks[u] /\ z.leases[u] = s.leases[u]
  BY <1>3, <1>5, <1>7, <1>8
<1>11. Inv(z)
  <2>1. {t} \in SUBSET Task /\ z.queueSeq = s.queueSeq /\ z.attempts = s.attempts /\ TablesOK(z)
    BY <1>1, <1>7, <1>8
  <2>2. z.requests = ClosePending(s, {t}, "cancelled").requests
    BY <1>1, <1>7, <1>8
  <2>3. \A u \in {t} : z.leases[u] = NoLease /\ NoExecuting(s, u) /\ z.tasks[u].status # "active"
    BY <1>9
  <2> QED BY <1>10, <2>1, <2>2, <2>3, EndingKeeps
<1> QED BY <1>0, <1>6, <1>11

\* A task with a write in flight drains, and so does its lease.
LEMMA EndDeferredKeeps ==
  ASSUME NEW s, Inv(s), NothingToPromote(s), NEW t \in Task, NEW terminal \in TerminalStatus,
         TaskInFlight(EndingTask(s, t, terminal), t)
  PROVE  /\ Inv(Drain(EndingTask(s, t, terminal), t))
         /\ NothingToPromote(Drain(EndingTask(s, t, terminal), t))
<1> DEFINE b == EndingTask(s, t, terminal)
           L == [b.leases EXCEPT ![t] = Drained(b.leases[t])]
           z == [b EXCEPT !.leases = L]
<1>0. b = EndingTask(s, t, terminal)
  OBVIOUS
<1> HIDE DEF b
<1>1. /\ TablesOK(b) /\ b.leases = s.leases /\ b.attempts = s.attempts
      /\ b.requests = ClosePending(s, {t}, "cancelled").requests
      /\ b.queueSeq = s.queueSeq
      /\ \A u \in Task \ {t} : b.tasks[u] = s.tasks[u]
      /\ b.tasks[t].status = "draining"
  <2>1. EndingOf(s, t, b)
    BY <1>0, EndingFacts
  <2> QED BY <2>1 DEF EndingOf
<1>2. L[t] = Drained(s.leases[t]) /\ \A u \in Task \ {t} : L[u] = s.leases[u]
  BY <1>1 DEF TablesOK
<1>3. \A u \in Task : L[u] \in LeaseRow /\ (L[u].state # "none" \/ L[u] = NoLease)
  BY <1>2, YieldedLease DEF Inv
<1>4. L \in [Task -> LeaseRow]
  BY <1>1, <1>3 DEF TablesOK
<1>5. Drain(b, t) = z
  BY <1>1 DEF Drain, TablesOK
<1> HIDE DEF L, z
<1>6. /\ TablesOK(z) /\ z.leases = L /\ z.tasks = b.tasks /\ z.requests = b.requests
      /\ z.queueSeq = b.queueSeq /\ z.attempts = b.attempts
  BY SMTT(40), <1>1, <1>3, <1>4, WithLeases DEF z
<1>7. z.requests = ClosePending(s, {t}, "cancelled").requests
  BY <1>1, <1>6
<1>8. \A u \in Task \ {t} : z.tasks[u] = s.tasks[u] /\ z.leases[u] = s.leases[u]
  BY <1>1, <1>2, <1>6
<1>9. z.leases[t] = Drained(s.leases[t]) /\ z.tasks[t].status = "draining"
  BY <1>1, <1>2, <1>6
<1>10. Inv(z)
  <2>1. {t} \in SUBSET Task /\ z.queueSeq = s.queueSeq /\ z.attempts = s.attempts /\ TablesOK(z)
    BY <1>1, <1>6
  <2>2. \A u \in {t} : z.leases[u] = Drained(s.leases[u]) /\ z.tasks[u].status = "draining"
    BY <1>9
  <2> QED BY <1>7, <1>8, <2>1, <2>2, EndingKeeps
<1>11. Leased(s, t)
  <2>1. s.leases[t].attempts # {}
    BY <1>0, <1>1 DEF TaskInFlight
  <2> QED BY <2>1, NoLeaseFacts DEF Inv, TablesOK
<1>12. \A q \in Queued(s) \cup Offered(s) : s.requests[q].task # t
  BY <1>11 DEF Inv, OnePerTask
<1>13. \A q \in Requests(s) : z.requests[q] = s.requests[q]
  BY SMTT(40), <1>1, <1>6, <1>12 DEF ClosePending, Queued, Offered, Requests, Inv, TablesOK
<1>14. /\ Queued(z) = Queued(s) /\ Offered(z) = Offered(s)
       /\ Queued(s) \cup Offered(s) \subseteq Requests(s)
  BY <1>1, <1>6, <1>13 DEF Queued, Offered, Requests
<1>15. \A u \in Task : s.leases[u].res \subseteq z.leases[u].res /\ (Leased(s, u) => Leased(z, u))
  <2>1. s.leases[t] \in LeaseRow
    BY RowFacts DEF Inv
  <2>2. /\ s.leases[t].res \subseteq z.leases[t].res
        /\ Leased(s, t) => Leased(z, t)
    BY <1>9, <2>1, DrainedFacts DEF Leased
  <2> QED BY <1>8, <2>2 DEF Leased
<1>16. NothingToPromote(z)
  BY <1>13, <1>14, <1>15, NothingKept
<1> QED BY <1>0, <1>5, <1>10, <1>16

-----------------------------------------------------------------------------
(* Queueing *)

\* Superseding the pending request of a task.
LEMMA SupersedeKeeps ==
  ASSUME NEW s, Inv(s), NEW t \in Task
  PROVE  Inv(ClosePending(s, {t}, "superseded"))
<1> DEFINE z == ClosePending(s, {t}, "superseded")
<1>0. z = ClosePending(s, {t}, "superseded")
  OBVIOUS
<1> HIDE DEF z
<1>1. /\ TablesOK(z) /\ z.tasks = s.tasks /\ z.leases = s.leases
      /\ z.queueSeq = s.queueSeq /\ z.attempts = s.attempts
      /\ \A q \in Requests(s) :
           /\ z.requests[q].task = s.requests[q].task
           /\ z.requests[q].res = s.requests[q].res
           /\ z.requests[q].state # s.requests[q].state =>
                z.requests[q].state \notin {"queued", "offered"}
  BY SMTT(40), <1>0, ClosePendingFacts DEF Inv
<1>2. Shrinks(s, z) /\ Yields(s, z)
  BY <1>1 DEF Shrinks, Yields, Leased
<1>3. EndsTasks(s, z)
  BY <1>1 DEF EndsTasks, Active, Inv, DrainsSafely, Leased
<1> QED BY <1>0, <1>1, <1>2, <1>3, GivingBack

\* Running writes and draining leases do not depend on the queue.
LEMMA QueueIrrelevant ==
  ASSUME NEW c, NEW z, Covered(c), DrainsSafely(c),
         z.tasks = c.tasks, z.leases = c.leases, z.attempts = c.attempts
  PROVE  Covered(z) /\ DrainsSafely(z)
<1>1. \A a \in Attempt, t \in Task : RunsUnder(c, a, t) => RunsUnder(z, a, t)
  BY DEF RunsUnder
<1>2. Covered(z)
  BY SMTT(40), <1>1 DEF Covered
<1>3. DrainsSafely(z)
  BY DEF DrainsSafely, Leased
<1> QED BY <1>2, <1>3

\* A task without a lease joins the end of the queue.
LEMMA EnqueueKeeps ==
  ASSUME NEW s, Inv(s), NEW t \in Task, Active(s, t), ~Leased(s, t),
         NEW res \in SUBSET Resource, NEW e \in Nat
  PROVE  Inv(EnqueueRequest(s, t, res, e))
<1> DEFINE c == ClosePending(s, {t}, "superseded")
           n == s.queueSeq + 1
           new == [task |-> t, res |-> res, state |-> "queued", expires |-> e,
                   offeredAt |-> 0, offerExpires |-> 0]
           R == [q \in 1..n |-> IF q \in Requests(s) THEN c.requests[q] ELSE new]
           z == [c EXCEPT !.queueSeq = n, !.requests = R]
<1>0. c = ClosePending(s, {t}, "superseded") /\ EnqueueRequest(s, t, res, e) = z
  BY DEF EnqueueRequest
<1> HIDE DEF c
<1>1. /\ Inv(c) /\ TablesOK(c) /\ c.tasks = s.tasks /\ c.leases = s.leases
      /\ c.queueSeq = s.queueSeq /\ c.attempts = s.attempts
      /\ PendingTaskRequest(c, t) = {}
  BY SMTT(40), <1>0, SupersedeKeeps, ClosePendingFacts DEF Inv
<1>2. new \in RequestRow /\ new.task = t /\ new.state = "queued"
  BY DEF RequestRow, RequestState
<1> HIDE DEF new
<1>3. /\ s.queueSeq \in Nat /\ n \in Nat /\ n \notin Requests(s)
      /\ Requests(c) = Requests(s) /\ 1..n = Requests(s) \cup {n}
  BY SMTT(40), <1>1, RowFacts DEF Inv, Requests
<1>4. \A q \in Requests(s) : R[q] = c.requests[q]
  BY <1>3
<1>5. R[n] = new
  BY <1>3
<1>6. R \in [1..n -> RequestRow]
  BY <1>1, <1>2, <1>3, RowFacts
<1>7. /\ TablesOK(z) /\ z.requests = R /\ z.queueSeq = n
      /\ z.tasks = c.tasks /\ z.leases = c.leases /\ z.attempts = c.attempts
  <2> HIDE DEF R, n
  <2> QED BY <1>1, <1>3, <1>6 DEF TablesOK, Leased
<1> HIDE DEF z, R
<1>8. Requests(z) = Requests(s) \cup {n}
  BY <1>3, <1>7 DEF Requests
<1> HIDE DEF n
<1>9. Queued(z) = Queued(c) \cup {n} /\ Offered(z) = Offered(c)
  BY <1>2, <1>3, <1>4, <1>5, <1>7, <1>8 DEF Queued, Offered
<1>10. \A q \in Queued(c) \cup Offered(c) :
         z.requests[q] = c.requests[q] /\ q \in Requests(s) /\ c.requests[q].task # t
  BY <1>1, <1>3, <1>4, <1>7 DEF Queued, Offered, PendingTaskRequest
<1>11. Exclusive(z) /\ OnePerAgent(z)
  BY SMTT(40), <1>1, <1>7, <1>9, <1>10 DEF Inv, Exclusive, OnePerAgent, Leased
<1>12. OnePerTask(z)
  <2> SUFFICES ASSUME NEW q \in Queued(z) \cup Offered(z)
               PROVE  LET u == z.requests[q].task
                      IN PendingTaskRequest(z, u) = {q} /\ Active(z, u) /\ ~Leased(z, u)
    BY DEF OnePerTask
  <2>1. CASE q = n
    <3>1. z.requests[q].task = t
      BY <1>2, <1>5, <1>7, <2>1
    <3>2. PendingTaskRequest(z, t) = {n}
      BY SMTT(40), <1>9, <1>10, <2>1, <3>1 DEF PendingTaskRequest
    <3> QED BY <1>1, <1>7, <2>1, <3>1, <3>2 DEF Active, Leased
  <2>2. CASE q # n
    <3>1. q \in Queued(c) \cup Offered(c) /\ z.requests[q] = c.requests[q]
      BY <1>9, <1>10, <2>2
    <3>2. /\ PendingTaskRequest(c, c.requests[q].task) = {q} /\ c.requests[q].task # t
          /\ Active(c, c.requests[q].task) /\ ~Leased(c, c.requests[q].task)
      BY <1>1, <1>10, <3>1 DEF Inv, OnePerTask
    <3>3. PendingTaskRequest(z, c.requests[q].task) = {q}
      BY <1>2, <1>5, <1>7, <1>9, <1>10, <3>2 DEF PendingTaskRequest
    <3> QED BY <1>7, <3>1, <3>2, <3>3 DEF Active, Leased
  <2> QED BY <2>1, <2>2
<1>13. Ordered(z)
  <2>1. \A q \in Offered(c) : ~(n < q)
    BY SMTT(40), <1>3, <1>10 DEF n, Requests
  <2> QED BY <1>1, <1>9, <1>10, <2>1 DEF Inv, Ordered
<1>14. Covered(z) /\ DrainsSafely(z)
  BY <1>1, <1>7, QueueIrrelevant DEF Inv
<1> QED BY <1>0, <1>7, <1>11, <1>12, <1>13, <1>14 DEF Inv

-----------------------------------------------------------------------------
(* Granting: a new or a larger lease of one task *)

\* What a grant to task t leaves alone: the queue, the requests that stay
\* pending, none of which is t's, and every other lease.
Grants(s, z, t) ==
  /\ z.tasks = s.tasks
  /\ Queued(z) = Queued(s)
  /\ Offered(z) \subseteq Offered(s)
  /\ \A p \in Queued(z) \cup Offered(z) : z.requests[p] = s.requests[p]
  /\ \A p \in Queued(z) \cup Offered(z) : s.requests[p].task # t
  /\ \A u \in Task : u # t => z.leases[u] = s.leases[u]

\* A lease that meets no other lease and no offer keeps holders exclusive.
LEMMA GrantKeepsExclusive ==
  ASSUME NEW s, NEW z, NEW t \in Task, Exclusive(s), Grants(s, z, t),
         \A u \in Task : u # t => ~Overlapping(z.leases[t].res, s.leases[u].res),
         \A u \in Task : u # t => ~Overlapping(s.leases[u].res, z.leases[t].res),
         \A p \in Offered(z) : ~Overlapping(s.requests[p].res, z.leases[t].res)
  PROVE  Exclusive(z)
<1>1. \A u \in Task : u # t => z.leases[u] = s.leases[u]
  BY DEF Grants
<1>2. \A p \in Offered(z) : p \in Offered(s) /\ z.requests[p] = s.requests[p]
  BY DEF Grants
<1>3. \A u, v \in Task : u # v => ~Overlapping(s.leases[u].res, s.leases[v].res)
  BY DEF Exclusive
<1>4. \A u, v \in Task : u # v => ~Overlapping(z.leases[u].res, z.leases[v].res)
  BY <1>1, <1>3
<1>5. ASSUME NEW p \in Offered(z), NEW u \in Task \ {z.requests[p].task}
      PROVE  ~Overlapping(z.requests[p].res, z.leases[u].res)
  <2>1. CASE u = t
    BY <1>2, <2>1
  <2>2. CASE u # t
    BY <1>1, <1>2, <2>2 DEF Exclusive
  <2> QED BY <2>1, <2>2
<1>6. \A p, q \in Offered(z) : p # q => ~Overlapping(z.requests[p].res, z.requests[q].res)
  BY <1>2 DEF Exclusive
<1> QED BY <1>4, <1>5, <1>6 DEF Exclusive

\* A grant to a task whose agent has no other lease keeps agents apart.
LEMMA GrantKeepsAgents ==
  ASSUME NEW s, NEW z, NEW t \in Task, OnePerAgent(s), Grants(s, z, t),
         ~AgentSlotOccupied(s, Owner[t], Task \ {t})
  PROVE  OnePerAgent(z)
<1>1. \A u \in Task : u # t => (Leased(z, u) <=> Leased(s, u))
  BY DEF Grants, Leased
<1>2. \A u \in Task : u # t /\ Owner[u] = Owner[t] => ~Leased(s, u)
  BY DEF AgentSlotOccupied
<1>3. \A u, v \in Task : u # v /\ Owner[u] = Owner[v] => ~Leased(s, u) \/ ~Leased(s, v)
  BY DEF OnePerAgent
<1>4. \A u, v \in Task : u # v /\ Owner[u] = Owner[v] => ~Leased(z, u) \/ ~Leased(z, v)
  BY <1>1, <1>2, <1>3
<1>5. \A p \in Offered(z) : p \in Offered(s) /\ z.requests[p] = s.requests[p]
  BY DEF Grants
<1>6. \A p, q \in Offered(z) :
        p # q => Owner[z.requests[p].task] # Owner[z.requests[q].task]
  BY <1>5 DEF OnePerAgent
<1> QED BY <1>4, <1>6 DEF OnePerAgent

\* A grant leaves the other tasks' pending requests as they are.
LEMMA GrantKeepsPending ==
  ASSUME NEW s, NEW z, NEW t \in Task, OnePerTask(s), Grants(s, z, t),
         \A p \in Queued(z) \cup Offered(z) : s.requests[p].task \in Task
  PROVE  OnePerTask(z)
<1>1. \A p \in Queued(z) \cup Offered(z) :
        p \in Queued(s) \cup Offered(s) /\ z.requests[p] = s.requests[p]
  BY DEF Grants
<1> SUFFICES ASSUME NEW p \in Queued(z) \cup Offered(z)
             PROVE  LET u == z.requests[p].task
                    IN PendingTaskRequest(z, u) = {p} /\ Active(z, u) /\ ~Leased(z, u)
  BY DEF OnePerTask
<1> DEFINE u == s.requests[p].task
<1>2. z.requests[p].task = u /\ u \in Task /\ u # t
  BY <1>1 DEF Grants
<1>3. PendingTaskRequest(s, u) = {p} /\ Active(s, u) /\ ~Leased(s, u)
  BY <1>1 DEF OnePerTask
<1> HIDE DEF u
<1>4. PendingTaskRequest(z, u) = {p}
  <2>1. PendingTaskRequest(z, u) \subseteq PendingTaskRequest(s, u)
    BY <1>1 DEF PendingTaskRequest
  <2> QED BY <1>2, <1>3, <2>1 DEF PendingTaskRequest
<1>5. Active(z, u) /\ ~Leased(z, u)
  BY <1>2, <1>3 DEF Grants, Active, Leased
<1> QED BY <1>2, <1>4, <1>5

\* A grant makes no offer, so offers keep the order of the queue.
LEMMA GrantKeepsOrder ==
  ASSUME NEW s, NEW z, NEW t \in Task, Ordered(s), Grants(s, z, t)
  PROVE  Ordered(z)
<1>1. \A p \in Queued(z) : p \in Queued(s) /\ z.requests[p] = s.requests[p]
  BY DEF Grants
<1>2. \A p \in Offered(z) : p \in Offered(s) /\ z.requests[p] = s.requests[p]
  BY DEF Grants
<1> QED BY <1>1, <1>2 DEF Ordered

-----------------------------------------------------------------------------
(* Activating *)

\* The tables z after the offer q of task t was activated in s.
Activated(s, z, t, q) ==
  /\ TablesOK(z)
  /\ z.tasks = s.tasks /\ z.attempts = s.attempts /\ z.queueSeq = s.queueSeq
  /\ \A u \in Task \ {t} : z.leases[u] = s.leases[u]
  /\ z.leases[t].state = "active" /\ z.leases[t].res = s.requests[q].res
  /\ z.leases[t].attempts = {} /\ \A r \in Resource : z.leases[t].slot[r] = None
  /\ \A p \in Requests(s) \ {q} : z.requests[p] = s.requests[p]
  /\ z.requests[q].state = "activated"

\* The update of lease.activate.
Activation(s, t, q, e) ==
  [InsertActiveLease(s, t, s.requests[q].res, e) EXCEPT !.requests[q].state = "activated"]

\* Activating inserts the lease and closes the request.
LEMMA ActivatedFacts ==
  ASSUME NEW s, TablesOK(s), NEW t \in Task, NEW q \in Requests(s), NEW e \in Nat
  PROVE  Activated(s, Activation(s, t, q, e), t, q)
<1> DEFINE row == [NoLease EXCEPT !.state = "active", !.res = s.requests[q].res, !.expires = e]
           L == [s.leases EXCEPT ![t] = row]
           R == [s.requests EXCEPT ![q].state = "activated"]
           x == [s EXCEPT !.leases = L]
           z == [x EXCEPT !.requests = R]
<1>1. s.requests \in [Requests(s) -> RequestRow] /\ s.leases \in [Task -> LeaseRow]
  BY DEF TablesOK, Requests
<1>2. /\ row \in LeaseRow /\ row.state = "active" /\ row.res = s.requests[q].res
      /\ row.attempts = {} /\ \A r \in Resource : row.slot[r] = None
  <2>1. s.requests[q].res \in SUBSET Resource
    BY <1>1 DEF RequestRow
  <2> QED BY <2>1, NoLeaseFacts DEF LeaseRow
<1>3. /\ R \in [Requests(s) -> RequestRow] /\ R[q].state = "activated"
      /\ \A p \in Requests(s) \ {q} : R[p] = s.requests[p]
  BY SMTT(40), <1>1 DEF RequestRow, RequestState
<1>4. Activation(s, t, q, e) = z
  <2> HIDE DEF row
  <2>1. InsertActiveLease(s, t, s.requests[q].res, e) = [s EXCEPT !.leases[t] = row]
    BY DEF InsertActiveLease, row
  <2> QED BY <2>1 DEF TablesOK, Activation
<1> HIDE DEF row
<1>5. /\ L \in [Task -> LeaseRow] /\ L[t] = row
      /\ \A u \in Task \ {t} : L[u] = s.leases[u]
  BY <1>1, <1>2
<1>6. \A u \in Task : L[u].state # "none" \/ L[u] = NoLease
  BY <1>2, <1>5 DEF TablesOK, Leased
<1> HIDE DEF L, R, x, z
<1>7. /\ TablesOK(x) /\ x.leases = L /\ x.tasks = s.tasks /\ x.requests = s.requests
      /\ x.queueSeq = s.queueSeq /\ x.attempts = s.attempts
  BY SMTT(40), <1>5, <1>6, WithLeases DEF x
<1>8. /\ TablesOK(z) /\ z.requests = R /\ z.tasks = x.tasks /\ z.leases = x.leases
      /\ z.queueSeq = x.queueSeq /\ z.attempts = x.attempts
  <2>1. Requests(x) = Requests(s)
    BY <1>7 DEF Requests
  <2>2. R \in [Requests(x) -> RequestRow]
    BY <1>3, <2>1
  <2> QED BY SMTT(40), <1>7, <2>2, WithRequests DEF z
<1>9. Activated(s, z, t, q)
  BY SMTT(40), <1>2, <1>3, <1>5, <1>7, <1>8 DEF Activated
<1> QED BY <1>4, <1>9

\* What activating leaves alone.
LEMMA ActivatedGrants ==
  ASSUME NEW s, NEW z, NEW t \in Task, NEW q \in Offered(s),
         Activated(s, z, t, q), PendingTaskRequest(s, t) = {q}
  PROVE  Grants(s, z, t) /\ Offered(z) = Offered(s) \ {q}
<1>1. z.tasks = s.tasks /\ z.queueSeq = s.queueSeq
  BY DEF Activated
<1>2. \A p \in Requests(s) : p # q => z.requests[p] = s.requests[p]
  BY DEF Activated
<1>3. z.requests[q].state = "activated" /\ q \in Requests(s) /\ s.requests[q].state = "offered"
  BY DEF Activated, Offered
<1>4. Requests(z) = Requests(s)
  BY <1>1 DEF Requests
<1>5. Queued(z) = Queued(s) /\ q \notin Queued(s)
  BY <1>2, <1>3, <1>4 DEF Queued
<1>6. Offered(z) = Offered(s) \ {q}
  BY <1>2, <1>3, <1>4 DEF Offered
<1>7. \A p \in Queued(s) \cup Offered(s) : p # q => s.requests[p].task # t
  BY DEF PendingTaskRequest
<1>8. \A p \in Queued(z) \cup Offered(z) : p # q /\ p \in Requests(s)
  BY <1>5, <1>6 DEF Queued, Offered
<1>9. \A u \in Task : u # t => z.leases[u] = s.leases[u]
  BY DEF Activated
<1> QED BY <1>1, <1>2, <1>5, <1>6, <1>7, <1>8, <1>9 DEF Grants

\* The new lease has no marker and no attempt.
LEMMA ActivatedCovers ==
  ASSUME NEW s, NEW z, NEW t \in Task, NEW q, Covered(s), s.leases[t] = NoLease,
         Activated(s, z, t, q)
  PROVE  Covered(z)
<1>1. z.attempts = s.attempts
  BY DEF Activated
<1>2. \A u \in Task : u # t => z.leases[u] = s.leases[u]
  BY DEF Activated
<1>3. z.leases[t].attempts = {} /\ \A r \in Resource : z.leases[t].slot[r] = None
  BY DEF Activated
<1>4. ASSUME NEW b \in Attempt, z.attempts[b].status = "executing"
      PROVE  \E u \in Task : RunsUnder(z, b, u)
  <2>1. PICK u \in Task : RunsUnder(s, b, u)
    BY <1>1, <1>4 DEF Covered
  <2>2. u # t
    BY <2>1, NoLeaseFacts DEF RunsUnder
  <2>3. RunsUnder(z, b, u)
    BY <1>1, <1>2, <2>1, <2>2 DEF RunsUnder
  <2> QED BY <2>3
<1>5. ASSUME NEW u \in Task, NEW r \in Resource, NEW b \in Attempt, z.leases[u].slot[r] = b
      PROVE  z.attempts[b].status = "executing" /\ z.attempts[b].task = u /\ r \in z.attempts[b].res
  <2>1. u # t
    BY <1>3, <1>5, NoneAssumption
  <2>2. s.leases[u].slot[r] = b
    BY <1>2, <1>5, <2>1
  <2> QED BY SMTT(40), <1>1, <2>2 DEF Covered
<1>6. ASSUME NEW u \in Task, NEW b \in z.leases[u].attempts
      PROVE  z.attempts[b].task = u /\ z.attempts[b].status # "unused"
  <2>1. u # t
    BY <1>3, <1>6
  <2>2. b \in s.leases[u].attempts
    BY <1>2, <1>6, <2>1
  <2> QED BY <1>1, <2>2 DEF Covered
<1> QED BY SMTT(40), <1>4, <1>5, <1>6 DEF Covered

\* The new lease is active, and so is its task.
LEMMA ActivatedDrains ==
  ASSUME NEW s, NEW z, NEW t \in Task, NEW q, DrainsSafely(s), Active(s, t),
         Activated(s, z, t, q)
  PROVE  DrainsSafely(z)
<1>1. z.tasks = s.tasks /\ z.attempts = s.attempts
  BY DEF Activated
<1>2. \A u \in Task : u # t => z.leases[u] = s.leases[u]
  BY DEF Activated
<1>3. z.leases[t].attempts = {}
  BY DEF Activated
<1>4. z.tasks[t].status = "active"
  BY <1>1 DEF Active
<1>5. ASSUME NEW u \in Task
      PROVE  /\ z.tasks[u].status \notin {"active", "draining"} => ~Leased(z, u)
             /\ z.tasks[u].status = "draining" => z.leases[u].state # "active"
             /\ \A b \in z.leases[u].attempts :
                  z.attempts[b].status = "uncertain" => z.leases[u].state = "draining"
  <2>1. CASE u = t
    BY <1>3, <1>4, <2>1
  <2>2. CASE u # t
    <3>1. z.leases[u] = s.leases[u]
      BY <1>2, <2>2
    <3> QED BY <1>1, <3>1 DEF DrainsSafely, Leased
  <2> QED BY <2>1, <2>2
<1> QED BY <1>5 DEF DrainsSafely

\* A waiter that the offer blocked is blocked by the lease.
LEMMA ActivatedPromotesNothing ==
  ASSUME NEW s, NEW z, NEW t \in Task, NEW q \in Offered(s), s.requests[q].task = t,
         NothingToPromote(s), Grants(s, z, t), Offered(z) = Offered(s) \ {q},
         Leased(z, t), z.leases[t].res = s.requests[q].res,
         ~Leased(s, t), s.leases[t].res = {}
  PROVE  NothingToPromote(z)
<1> DEFINE idle == [p \in Queued(s) |-> "queued"]
<1>1. Queued(z) = Queued(s)
  BY DEF Grants
<1> SUFFICES ASSUME NEW p \in Queued(s)
             PROVE  Blocked(z, idle, p)
  BY <1>1 DEF NothingToPromote
<1>2. Blocked(s, idle, p)
  BY DEF NothingToPromote
<1>3. OfferedBefore(s, idle, p) = Offered(s) /\ OfferedBefore(z, idle, p) = Offered(z)
  BY <1>1 DEF OfferedBefore
<1> HIDE DEF idle
<1>4. \A o \in Queued(s) \cup Offered(z) : z.requests[o] = s.requests[o]
  BY <1>1 DEF Grants
<1>5. z.requests[p] = s.requests[p] /\ s.requests[p].task # t
  BY <1>1 DEF Grants
<1>6. \A u \in Task : u # t => z.leases[u] = s.leases[u]
  BY DEF Grants
<1>7. CASE \E o \in Queued(s) : o < p /\ idle[o] = "queued"
                                /\ Overlapping(s.requests[p].res, s.requests[o].res)
  BY <1>1, <1>4, <1>5, <1>7 DEF Blocked
<1>8. CASE AgentSlotOccupied(s, Owner[s.requests[p].task], Task)
  <2>1. AgentSlotOccupied(z, Owner[z.requests[p].task], Task)
    BY <1>5, <1>6, <1>8 DEF AgentSlotOccupied, Leased
  <2> QED BY <2>1 DEF Blocked
<1>9. CASE \E o \in Offered(s) : Owner[s.requests[o].task] = Owner[s.requests[p].task]
  <2>1. PICK o \in Offered(s) : Owner[s.requests[o].task] = Owner[s.requests[p].task]
    BY <1>9
  <2>2. CASE o = q
    <3>1. AgentSlotOccupied(z, Owner[z.requests[p].task], Task)
      BY <1>5, <2>1, <2>2 DEF AgentSlotOccupied
    <3> QED BY <3>1 DEF Blocked
  <2>3. CASE o # q
    BY <1>3, <1>4, <1>5, <2>1, <2>3 DEF Blocked
  <2> QED BY <2>2, <2>3
<1>10. CASE \E u \in Task \ {s.requests[p].task} : Overlapping(s.requests[p].res, s.leases[u].res)
  <2>1. PICK u \in Task \ {s.requests[p].task} : Overlapping(s.requests[p].res, s.leases[u].res)
    BY <1>10
  <2>2. u # t
    BY <2>1 DEF Overlapping
  <2> QED BY <1>5, <1>6, <2>1, <2>2 DEF Blocked
<1>11. CASE \E o \in Offered(s) : /\ s.requests[o].task # s.requests[p].task
                                  /\ Overlapping(s.requests[p].res, s.requests[o].res)
  <2>1. PICK o \in Offered(s) : /\ s.requests[o].task # s.requests[p].task
                                /\ Overlapping(s.requests[p].res, s.requests[o].res)
    BY <1>11
  <2>2. CASE o = q
    BY <1>5, <2>1, <2>2 DEF Blocked
  <2>3. CASE o # q
    BY SMTT(40), <1>3, <1>4, <1>5, <2>1, <2>3 DEF Blocked
  <2> QED BY <2>2, <2>3
<1> QED BY <1>2, <1>3, <1>7, <1>8, <1>9, <1>10, <1>11 DEF Blocked

\* An offer becomes the lease it promised: it blocks what the offer blocked.
LEMMA ActivateKeeps ==
  ASSUME NEW s, Inv(s), NothingToPromote(s), NEW t \in Task, NEW q \in Offered(s),
         s.requests[q].task = t, ~AgentSlotOccupied(s, Owner[t], Task),
         NEW z, Activated(s, z, t, q)
  PROVE  Inv(z) /\ NothingToPromote(z)
<1>1. /\ TablesOK(s) /\ Exclusive(s) /\ OnePerAgent(s) /\ OnePerTask(s)
      /\ Ordered(s) /\ Covered(s) /\ DrainsSafely(s)
  BY DEF Inv
<1>2. PendingTaskRequest(s, t) = {q} /\ Active(s, t) /\ ~Leased(s, t)
  BY <1>1 DEF OnePerTask
<1>3. s.leases[t] = NoLease
  BY <1>1, <1>2 DEF TablesOK
<1>4. Grants(s, z, t) /\ Offered(z) = Offered(s) \ {q}
  BY SMTT(40), <1>2, ActivatedGrants
<1>5. TablesOK(z) /\ z.leases[t].res = s.requests[q].res /\ Leased(z, t)
  BY DEF Activated, Leased
<1>6. \A u \in Task : s.leases[u].res \in SUBSET Resource
  BY <1>1, RowFacts DEF LeaseRow
<1>7. \A p \in Queued(s) \cup Offered(s) :
        s.requests[p].res \in SUBSET Resource /\ s.requests[p].task \in Task
  BY <1>1, RowFacts DEF Queued, Offered, RequestRow
<1>8. \A u \in Task : u # t => ~Overlapping(s.requests[q].res, s.leases[u].res)
  BY <1>1 DEF Exclusive
<1>9. \A u \in Task : u # t => ~Overlapping(s.leases[u].res, s.requests[q].res)
  BY <1>6, <1>7, <1>8, OverlapSymmetric
<1>10. \A p \in Offered(z) : ~Overlapping(s.requests[p].res, s.requests[q].res)
  BY <1>1, <1>4 DEF Exclusive
<1>11. Exclusive(z)
  BY SMTT(40), <1>1, <1>4, <1>5, <1>8, <1>9, <1>10, GrantKeepsExclusive
<1>12. OnePerAgent(z)
  <2>1. ~AgentSlotOccupied(s, Owner[t], Task \ {t})
    BY DEF AgentSlotOccupied
  <2> QED BY <1>1, <1>4, <2>1, GrantKeepsAgents
<1>13. Ordered(z)
  BY <1>1, <1>4, GrantKeepsOrder
<1>14. \A p \in Queued(z) \cup Offered(z) : s.requests[p].task \in Task
  BY <1>4, <1>7 DEF Grants
<1>15. OnePerTask(z)
  BY <1>1, <1>4, <1>14, GrantKeepsPending
<1>16. Covered(z)
  BY <1>1, <1>3, ActivatedCovers
<1>17. DrainsSafely(z)
  BY <1>1, <1>2, ActivatedDrains
<1>18. Inv(z)
  BY <1>5, <1>11, <1>12, <1>13, <1>15, <1>16, <1>17 DEF Inv
<1>19. NothingToPromote(z)
  BY SMTT(40), <1>2, <1>3, <1>4, <1>5, NoLeaseFacts, ActivatedPromotesNothing
<1> QED BY <1>18, <1>19

-----------------------------------------------------------------------------
(* Acquiring *)

\* The tables z after attempt a of t was prepared in s: the task's lease covers
\* all, and the resources of the write are marked.
Prepared(s, z, t, a, all, res) ==
  /\ TablesOK(z)
  /\ z.tasks = s.tasks /\ z.requests = s.requests /\ z.queueSeq = s.queueSeq
  /\ \A u \in Task \ {t} : z.leases[u] = s.leases[u]
  /\ \A b \in Attempt \ {a} : z.attempts[b] = s.attempts[b]
  /\ z.attempts[a].status = "executing" /\ z.attempts[a].task = t /\ z.attempts[a].res = res
  /\ z.leases[t].state = "active"
  /\ z.leases[t].res = all
  /\ z.leases[t].attempts = s.leases[t].attempts \cup {a}
  /\ \A r \in Resource :
       z.leases[t].slot[r] = IF r \in res THEN a ELSE s.leases[t].slot[r]

\* Preparing a write extends or inserts the lease and marks the resources.
LEMMA PreparedFacts ==
  ASSUME NEW s, TablesOK(s), NEW t \in Task, NEW a \in Attempt,
         NEW all \in SUBSET Resource, NEW res \in SUBSET Resource,
         NEW e \in Nat, NEW deadline \in Nat, NEW now,
         MayEnsureLease(s, t, all, now), s.leases[t].res \subseteq all,
         NEW z, z = PrepareWriteAttempt(EnsureActiveLease(s, t, all, e), t, a, res, deadline)
  PROVE  Prepared(s, z, t, a, all, res)
<1> DEFINE y == EnsureActiveLease(s, t, all, e)
<1>0. /\ s.leases \in [Task -> LeaseRow] /\ s.leases[t] \in LeaseRow
      /\ Leased(s, t) \/ s.leases[t] = NoLease
  BY DEF TablesOK
<1>1. /\ y.tasks = s.tasks /\ y.requests = s.requests /\ y.queueSeq = s.queueSeq
      /\ y.attempts = s.attempts
      /\ y = [s EXCEPT !.leases = y.leases]
      /\ DOMAIN y.leases = Task
      /\ \A u \in Task \ {t} : y.leases[u] = s.leases[u]
  BY <1>0 DEF EnsureActiveLease, InsertActiveLease, TablesOK
<1>2. /\ y.leases[t] \in LeaseRow
      /\ y.leases[t].state = "active"
      /\ y.leases[t].res = all
      /\ y.leases[t].attempts = s.leases[t].attempts
      /\ y.leases[t].slot = s.leases[t].slot
  <2>1. CASE Leased(s, t)
    <3>1. s.leases[t].state = "active"
      BY <2>1 DEF MayEnsureLease
    <3>2. y.leases[t] = [s.leases[t] EXCEPT !.res = s.leases[t].res \cup all, !.expires = e]
      BY <1>0, <2>1 DEF EnsureActiveLease, TablesOK, LeaseRow
    <3>3. s.leases[t].res \cup all = all
      OBVIOUS
    <3> HIDE DEF y
    <3> QED BY <1>0, <3>1, <3>2, <3>3 DEF LeaseRow
  <2>2. CASE ~Leased(s, t)
    <3>1. y.leases[t] = [s.leases[t] EXCEPT !.state = "active", !.res = all, !.expires = e]
      BY <1>0, <2>2 DEF EnsureActiveLease, InsertActiveLease, TablesOK
    <3> HIDE DEF y
    <3> QED BY <1>0, <3>1 DEF LeaseRow
  <2> QED BY SMTT(40), <2>1, <2>2
<1>3. z = PrepareWriteAttempt(y, t, a, res, deadline)
  OBVIOUS
<1>4. y.leases \in [Task -> LeaseRow]
  <2>1. \A u \in Task : y.leases[u] \in LeaseRow
    BY <1>0, <1>1, <1>2
  <2>2. y.leases = [u \in Task |-> y.leases[u]]
    <3>1. s.leases = [u \in Task |-> s.leases[u]]
      BY <1>0
    <3> QED BY <1>0 DEF EnsureActiveLease, InsertActiveLease, TablesOK
  <2> HIDE DEF y
  <2> QED BY <2>1, <2>2
<1> HIDE DEF y
<1>5. TablesOK(y)
  <2>1. \A u \in Task : y.leases[u].state # "none" \/ y.leases[u] = NoLease
    BY <1>1, <1>2 DEF TablesOK, Leased
  <2> QED BY <1>1, <1>4, <2>1, WithLeases
<1> DEFINE slot == [r \in Resource |-> IF r \in res THEN a ELSE y.leases[t].slot[r]]
           row == [y.leases[t] EXCEPT !.attempts = y.leases[t].attempts \cup {a}, !.slot = slot]
           L == [y.leases EXCEPT ![t] = row]
           w == [task |-> t, res |-> res, deadline |-> deadline, status |-> "executing"]
           A == [y.attempts EXCEPT ![a] = w]
           x == [y EXCEPT !.attempts = A]
<1>6. z = [x EXCEPT !.leases = L]
  <2>1. z = [y EXCEPT !.attempts[a] = w, !.leases[t] = row]
    BY <1>3 DEF PrepareWriteAttempt
  <2> HIDE DEF w, row
  <2> QED BY <1>5, <2>1 DEF TablesOK
<1>7. slot \in [Resource -> Attempt \cup {None}]
  BY <1>2 DEF LeaseRow
<1> HIDE DEF slot
<1>8. /\ row \in LeaseRow /\ row.state = "active" /\ row.res = all /\ row.slot = slot
      /\ row.attempts = s.leases[t].attempts \cup {a}
  BY <1>2, <1>7 DEF LeaseRow
<1>9. w \in AttemptRow
  BY DEF AttemptRow
<1> HIDE DEF row, w
<1>10. /\ TablesOK(x) /\ x.attempts = A /\ x.tasks = y.tasks /\ x.requests = y.requests
       /\ x.queueSeq = y.queueSeq /\ x.leases = y.leases
  BY <1>5, <1>9 DEF TablesOK, Leased
<1>11. /\ L \in [Task -> LeaseRow] /\ L[t] = row
       /\ \A u \in Task \ {t} : L[u] = s.leases[u]
  BY <1>1, <1>4, <1>8
<1>12. /\ A[a] = w /\ \A b \in Attempt \ {a} : A[b] = s.attempts[b]
  BY <1>1, <1>5 DEF TablesOK
<1>13. \A u \in Task : L[u].state # "none" \/ L[u] = NoLease
  BY <1>8, <1>11 DEF TablesOK, Leased
<1> HIDE DEF L, A, x
<1>14. /\ TablesOK(z) /\ z.leases = L /\ z.tasks = x.tasks /\ z.requests = x.requests
       /\ z.queueSeq = x.queueSeq /\ z.attempts = x.attempts
  BY SMTT(40), <1>6, <1>10, <1>11, <1>13, WithLeases
<1>15. \A r \in Resource : slot[r] = IF r \in res THEN a ELSE s.leases[t].slot[r]
  BY <1>2 DEF slot
<1>16. w.status = "executing" /\ w.task = t /\ w.res = res
  BY DEF w
<1> QED BY SMTT(40), <1>1, <1>8, <1>10, <1>11, <1>12, <1>14, <1>15, <1>16 DEF Prepared

\* A task that waits for nothing needs what it holds and what it writes.
LEMMA UnionFacts ==
  ASSUME NEW s, NEW t, NEW res, PendingTaskRequest(s, t) = {}
  PROVE  UnionResources(s, t, res) = s.leases[t].res \cup res
<1>1. UNION {s.requests[q].res : q \in PendingTaskRequest(s, t)} = {}
  OBVIOUS
<1> QED BY <1>1 DEF UnionResources

\* What preparing leaves alone.
LEMMA PreparedGrants ==
  ASSUME NEW s, NEW z, NEW t \in Task, NEW a, NEW all, NEW res,
         Prepared(s, z, t, a, all, res), PendingTaskRequest(s, t) = {}
  PROVE  Grants(s, z, t) /\ Offered(z) = Offered(s)
<1>1. z.tasks = s.tasks /\ z.requests = s.requests /\ z.queueSeq = s.queueSeq
  BY DEF Prepared
<1>2. Queued(z) = Queued(s) /\ Offered(z) = Offered(s)
  BY <1>1 DEF Queued, Offered, Requests
<1>3. \A p \in Queued(s) \cup Offered(s) : s.requests[p].task # t
  BY DEF PendingTaskRequest
<1>4. \A u \in Task : u # t => z.leases[u] = s.leases[u]
  BY DEF Prepared
<1> QED BY <1>1, <1>2, <1>3, <1>4 DEF Grants

\* The new write runs under the lease, and no other write loses a marker.
LEMMA PreparedCovers ==
  ASSUME NEW s, NEW z, NEW t \in Task, NEW a \in Attempt, NEW all,
         NEW res \in SUBSET Resource, res # {}, res \subseteq all,
         TablesOK(s), Covered(s), s.leases[t].res \subseteq all,
         s.attempts[a].status = "unused",
         \A r \in res : s.leases[t].slot[r] = None,
         Prepared(s, z, t, a, all, res)
  PROVE  Covered(z)
<1>1. \A u \in Task : u # t => z.leases[u] = s.leases[u]
  BY DEF Prepared
<1>2. \A b \in Attempt : b # a => z.attempts[b] = s.attempts[b]
  BY DEF Prepared
<1>3. z.attempts[a].status = "executing" /\ z.attempts[a].task = t /\ z.attempts[a].res = res
  BY DEF Prepared
<1>4. z.leases[t].res = all /\ z.leases[t].attempts = s.leases[t].attempts \cup {a}
  BY DEF Prepared
<1>5. \A r \in res : z.leases[t].slot[r] = a
  BY DEF Prepared
<1>6. \A r \in Resource : r \notin res => z.leases[t].slot[r] = s.leases[t].slot[r]
  BY DEF Prepared
<1>7. \A u \in Task : s.leases[u].attempts \subseteq Attempt
  BY RowFacts DEF LeaseRow
<1>8. \A b \in Attempt : s.attempts[b].res \subseteq Resource
  BY RowFacts DEF AttemptRow
<1>9. ASSUME NEW b \in Attempt, z.attempts[b].status = "executing"
      PROVE  \E u \in Task : RunsUnder(z, b, u)
  <2>1. CASE b = a
    <3>1. RunsUnder(z, a, t)
      BY <1>3, <1>4, <1>5 DEF RunsUnder
    <3> QED BY <2>1, <3>1
  <2>2. CASE b # a
    <3>1. z.attempts[b] = s.attempts[b]
      BY <1>2, <2>2
    <3>2. PICK u \in Task : RunsUnder(s, b, u)
      BY <1>9, <3>1 DEF Covered
    <3>3. CASE u # t
      <4>1. z.leases[u] = s.leases[u]
        BY <1>1, <3>3
      <4>2. RunsUnder(z, b, u)
        BY <3>1, <3>2, <4>1 DEF RunsUnder
      <4> QED BY <4>2
    <3>4. CASE u = t
      <4>1. \A r \in s.attempts[b].res : r \in s.leases[t].res /\ s.leases[t].slot[r] = b
        BY <3>2, <3>4 DEF RunsUnder
      <4>2. \A r \in s.attempts[b].res : r \notin res
        BY <4>1, NoneAssumption
      <4>3. \A r \in s.attempts[b].res : r \in all /\ z.leases[t].slot[r] = b
        BY <1>6, <1>8, <4>1, <4>2
      <4>4. b \in z.leases[t].attempts /\ s.attempts[b].task = t /\ s.attempts[b].res # {}
        BY <1>4, <3>2, <3>4 DEF RunsUnder
      <4>5. RunsUnder(z, b, t)
        BY <1>4, <3>1, <4>3, <4>4 DEF RunsUnder
      <4> QED BY <4>5
    <3> QED BY <3>3, <3>4
  <2> QED BY <2>1, <2>2
<1>10. ASSUME NEW u \in Task, NEW r \in Resource, NEW b \in Attempt, z.leases[u].slot[r] = b
       PROVE  z.attempts[b].status = "executing" /\ z.attempts[b].task = u /\ r \in z.attempts[b].res
  <2>1. CASE u = t /\ r \in res
    BY <1>3, <1>5, <1>10, <2>1
  <2>2. CASE ~(u = t /\ r \in res)
    <3>1. s.leases[u].slot[r] = b
      BY <1>1, <1>6, <1>10, <2>2
    <3>2. s.attempts[b].status = "executing" /\ s.attempts[b].task = u /\ r \in s.attempts[b].res
      BY SMTT(40), <3>1 DEF Covered
    <3>3. z.attempts[b] = s.attempts[b]
      BY <1>2, <3>2
    <3> QED BY <3>2, <3>3
  <2> QED BY <2>1, <2>2
<1>11. ASSUME NEW u \in Task, NEW b \in z.leases[u].attempts
       PROVE  z.attempts[b].task = u /\ z.attempts[b].status # "unused"
  <2>1. CASE u = t /\ b = a
    BY <1>3, <2>1
  <2>2. CASE ~(u = t /\ b = a)
    <3>1. b \in s.leases[u].attempts
      BY <1>1, <1>4, <1>11, <2>2
    <3>2. s.attempts[b].task = u /\ s.attempts[b].status # "unused"
      BY <3>1 DEF Covered
    <3>3. z.attempts[b] = s.attempts[b]
      BY <1>2, <1>7, <3>1, <3>2
    <3> QED BY <3>2, <3>3
  <2> QED BY <2>1, <2>2
<1> QED BY SMTT(40), <1>9, <1>10, <1>11 DEF Covered

\* The lease of an active task is active: no write under it is uncertain.
LEMMA PreparedDrains ==
  ASSUME NEW s, NEW z, NEW t \in Task, NEW a \in Attempt, NEW all, NEW res,
         TablesOK(s), Covered(s), DrainsSafely(s), Active(s, t),
         s.leases[t].state # "draining", Prepared(s, z, t, a, all, res)
  PROVE  DrainsSafely(z)
<1>1. z.tasks = s.tasks
  BY DEF Prepared
<1>2. \A u \in Task : u # t => z.leases[u] = s.leases[u]
  BY DEF Prepared
<1>3. z.attempts[a].status = "executing"
  BY DEF Prepared
<1>4. \A b \in Attempt : b # a => z.attempts[b] = s.attempts[b]
  BY DEF Prepared
<1>5. z.leases[t].attempts = s.leases[t].attempts \cup {a}
  BY DEF Prepared
<1>6. \A u \in Task : s.leases[u].attempts \subseteq Attempt
  BY RowFacts DEF LeaseRow
<1>7. \A b \in Attempt : z.attempts[b].status = "uncertain" => s.attempts[b].status = "uncertain"
  BY <1>3, <1>4
<1>8. ASSUME NEW u \in Task
      PROVE  /\ z.tasks[u].status \notin {"active", "draining"} => ~Leased(z, u)
             /\ z.tasks[u].status = "draining" => z.leases[u].state # "active"
             /\ \A b \in z.leases[u].attempts :
                  z.attempts[b].status = "uncertain" => z.leases[u].state = "draining"
  <2>1. \A b \in s.leases[u].attempts :
          s.attempts[b].status = "uncertain" => s.leases[u].state = "draining"
    BY DEF DrainsSafely
  <2>2. CASE u # t
    <3>1. z.leases[u] = s.leases[u]
      BY <1>2, <2>2
    <3>2. /\ z.tasks[u].status \notin {"active", "draining"} => ~Leased(z, u)
          /\ z.tasks[u].status = "draining" => z.leases[u].state # "active"
      BY <1>1, <3>1 DEF DrainsSafely, Leased
    <3>3. \A b \in z.leases[u].attempts :
            z.attempts[b].status = "uncertain" => z.leases[u].state = "draining"
      BY <1>6, <1>7, <2>1, <3>1
    <3> QED BY <3>2, <3>3
  <2>3. CASE u = t
    <3>1. z.tasks[u].status = "active"
      BY <1>1, <2>3 DEF Active
    <3>2. \A b \in z.leases[u].attempts : z.attempts[b].status # "uncertain"
      BY <1>3, <1>5, <1>6, <1>7, <2>1, <2>3
    <3> QED BY <3>1, <3>2
  <2> QED BY <2>2, <2>3
<1> QED BY <1>8 DEF DrainsSafely

\* A larger lease that meets no other lease and no offer keeps the invariant.
LEMMA PreparedKeeps ==
  ASSUME NEW s, NEW z, NEW t \in Task, NEW a, NEW all \in SUBSET Resource, NEW res,
         Inv(s), Prepared(s, z, t, a, all, res), Covered(z), DrainsSafely(z),
         PendingTaskRequest(s, t) = {},
         ~AgentSlotOccupied(s, Owner[t], Task \ {t}),
         ~ConflictingOwners(s, t, all)
  PROVE  Inv(z)
<1>1. /\ TablesOK(s) /\ Exclusive(s) /\ OnePerAgent(s) /\ OnePerTask(s)
      /\ Ordered(s)
  BY DEF Inv
<1>2. Grants(s, z, t) /\ Offered(z) = Offered(s)
  BY PreparedGrants
<1>3. TablesOK(z) /\ z.leases[t].res = all
  BY DEF Prepared
<1>4. \A u \in Task : s.leases[u].res \in SUBSET Resource
  BY <1>1, RowFacts DEF LeaseRow
<1>5. \A p \in Queued(s) \cup Offered(s) :
        s.requests[p].res \in SUBSET Resource /\ s.requests[p].task \in Task
  BY <1>1, RowFacts DEF Queued, Offered, RequestRow
<1>6. \A p \in Offered(s) : s.requests[p].task # t
  BY DEF PendingTaskRequest
<1>7. \A u \in Task : u # t => ~Overlapping(all, s.leases[u].res)
  BY DEF ConflictingOwners
<1>8. \A u \in Task : u # t => ~Overlapping(s.leases[u].res, all)
  BY <1>4, <1>7, OverlapSymmetric
<1>9. \A p \in Offered(s) : ~Overlapping(all, s.requests[p].res)
  BY <1>6 DEF ConflictingOwners
<1>10. \A p \in Offered(s) : ~Overlapping(s.requests[p].res, all)
  BY <1>5, <1>9, OverlapSymmetric
<1>11. Exclusive(z)
  BY <1>1, <1>2, <1>3, <1>7, <1>8, <1>10, GrantKeepsExclusive
<1>12. OnePerAgent(z)
  BY <1>1, <1>2, GrantKeepsAgents
<1>13. Ordered(z)
  BY <1>1, <1>2, GrantKeepsOrder
<1>14. \A p \in Queued(z) \cup Offered(z) : s.requests[p].task \in Task
  BY <1>2, <1>5 DEF Grants
<1>15. OnePerTask(z)
  BY <1>1, <1>2, <1>14, GrantKeepsPending
<1> QED BY SMTT(40), <1>3, <1>11, <1>12, <1>13, <1>15 DEF Inv

\* A larger lease blocks whatever the smaller one blocked.
LEMMA PreparedPromotesNothing ==
  ASSUME NEW s, NEW z, NEW t \in Task, NEW a, NEW all, NEW res,
         NothingToPromote(s), Prepared(s, z, t, a, all, res),
         s.leases[t].res \subseteq all
  PROVE  NothingToPromote(z)
<1>1. z.requests = s.requests /\ z.queueSeq = s.queueSeq
  BY DEF Prepared
<1>2. Queued(z) = Queued(s) /\ Offered(z) = Offered(s)
  BY <1>1 DEF Queued, Offered, Requests
<1>3. \A u \in Task : u # t => z.leases[u] = s.leases[u]
  BY DEF Prepared
<1>4. z.leases[t].res = all /\ z.leases[t].state = "active"
  BY DEF Prepared
<1>5. \A u \in Task : s.leases[u].res \subseteq z.leases[u].res
  BY <1>3, <1>4
<1>6. \A u \in Task : Leased(s, u) => Leased(z, u)
  BY <1>3, <1>4 DEF Leased
<1> QED BY <1>1, <1>2, <1>5, <1>6, NothingKept

\* An uncontended write acquires what nobody else holds, was offered or waits
\* for, and marks resources that no other write has marked.
LEMMA PrepareKeeps ==
  ASSUME NEW s, Inv(s), NothingToPromote(s), NEW t \in Task, NEW a \in Attempt,
         NEW res \in SUBSET Resource, res # {},
         NEW all, all = UnionResources(s, t, res),
         NEW e \in Nat, NEW deadline \in Nat, NEW now,
         Active(s, t), ~Contended(s, t, res),
         MayEnsureLease(s, t, all, now),
         \A r \in res : s.leases[t].slot[r] = None,
         s.attempts[a].status = "unused",
         NEW z, z = PrepareWriteAttempt(EnsureActiveLease(s, t, all, e), t, a, res, deadline)
  PROVE  Inv(z) /\ NothingToPromote(z)
<1>1. TablesOK(s) /\ Covered(s) /\ DrainsSafely(s)
  BY DEF Inv
<1>2. /\ PendingTaskRequest(s, t) = {}
      /\ ~AgentSlotOccupied(s, Owner[t], Task \ {t})
      /\ ~ConflictingOwners(s, t, all)
  BY DEF Contended
<1>3. all = s.leases[t].res \cup res
  BY SMTT(40), <1>2, UnionFacts
<1>4. s.leases[t].res \in SUBSET Resource
  BY SMTT(40), <1>1, RowFacts DEF LeaseRow
<1>5. all \in SUBSET Resource /\ s.leases[t].res \subseteq all /\ res \subseteq all
  BY <1>3, <1>4
<1>6. s.leases[t].state # "draining"
  BY DEF MayEnsureLease, Leased
<1>7. Prepared(s, z, t, a, all, res)
  BY <1>1, <1>5, PreparedFacts
<1>8. Covered(z)
  BY SMTT(40), <1>1, <1>5, <1>7, PreparedCovers
<1>9. DrainsSafely(z)
  BY SMTT(40), <1>1, <1>6, <1>7, PreparedDrains
<1>10. Inv(z)
  BY <1>2, <1>5, <1>7, <1>8, <1>9, PreparedKeeps
<1>11. NothingToPromote(z)
  BY <1>5, <1>7, PreparedPromotesNothing
<1> QED BY <1>10, <1>11
==============================================================================
