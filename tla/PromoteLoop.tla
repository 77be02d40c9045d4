----------------------------- MODULE PromoteLoop -----------------------------
(***************************************************************************)
(* The loop of promote_waiters, statement by statement, and its agreement  *)
(* with PromoteWaiters of LeaseTables, which defines the outcome of the    *)
(* loop without recursion.                                                 *)
(***************************************************************************)
EXTENDS MCLeaseStore

\* One turn of the loop for request q, then the rest: blocked holds the
\* resources of the requests the loop has left queued so far.
RECURSIVE Turns(_, _, _, _)
Turns(s, q, blocked, now) ==
  IF q \notin Requests(s) THEN s
  ELSE IF q \notin Queued(s) THEN Turns(s, q + 1, blocked, now)
  ELSE
    LET req == s.requests[q]
        expired == ~Active(s, req.task) \/ req.expires <= now
        waits == \/ Overlapping(req.res, blocked)
                 \/ AgentSlotOccupied(s, Owner[req.task], Task)
                 \/ Leased(s, req.task)
                 \/ \E p \in Offered(s) : Owner[s.requests[p].task] = Owner[req.task]
                 \/ ConflictingOwners(s, req.task, req.res)
        verdict == IF expired THEN "expired" ELSE IF waits THEN "queued" ELSE "offered"
    IN Turns([s EXCEPT !.requests[q] = Settled(req, verdict, now)], q + 1,
             IF verdict = "queued" THEN blocked \cup req.res ELSE blocked, now)

Loop(s, now) == Turns(ExpireOffers(s, now), 1, {}, now)

\* Databases promote_waiters is called on: a committed one, one in which time
\* has run out for tasks and leases, those in which some tasks have just given
\* their leases back, and those in which a task has just queued.
Unpromoted ==
  {db, ExpireTasksAndLeases(db, clock), ExpireTasksAndLeases(db, clock + 1)} \cup
  {[db EXCEPT !.leases = [t \in Task |-> IF t \in T THEN NoLease ELSE db.leases[t]]] :
     T \in SUBSET Task} \cup
  {EnqueueRequest(db, t, res, clock + 1) :
     t \in {u \in Task : Active(db, u) /\ ~Leased(db, u)}, res \in WriteSets}

\* promote_waiters has exactly one outcome, and the declarative walk that the
\* commands and the proofs use is what the loop computes: for each request the
\* verdict that follows from the verdicts on the requests ahead of it.
PromoteIsLoop ==
  \A s \in Unpromoted, now \in {clock, clock + 1} : PromoteWaiters(s, now) = {Loop(s, now)}
=============================================================================
