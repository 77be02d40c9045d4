--------------------------- MODULE EvidenceProofs ----------------------------
(*****************************************************************************)
(* Proofs about Evidence, for every set of tasks, resources, files and       *)
(* contents, every overlap relation and every bound.                         *)
(*                                                                           *)
(* The properties of the lease tables come from LeaseStoreProofs. What the   *)
(* evidence needs of them is the set of resources each task has a write in   *)
(* flight on: the first part says how each command changes that set. The     *)
(* second part is the inductive invariant EInv.                              *)
(*****************************************************************************)
EXTENDS Evidence, LeaseStoreProofs

(* The backend of a step that names none, and the time it may take. *)
USE ZenonT(40)

-----------------------------------------------------------------------------
(* Writes in flight *)

InFlight(s, t) == InFlightSlots(s.leases[t])

\* No write starts or ends.
Calm(s, z) == \A t \in Task : InFlight(z, t) = InFlight(s, t)

\* A lease under which nothing executes marks nothing.
LEMMA NoExecutingNoSlot ==
  ASSUME NEW s, Inv(s), NEW t \in Task, NoExecuting(s, t)
  PROVE  InFlight(s, t) = {}
<1> SUFFICES ASSUME NEW r \in InFlight(s, t)
             PROVE  FALSE
  OBVIOUS
<1>1. s.leases[t] \in LeaseRow
  BY RowFacts DEF Inv
<1>2. r \in Resource /\ s.leases[t].slot[r] \in Attempt
  BY <1>1 DEF InFlight, InFlightSlots, LeaseRow
<1> DEFINE a == s.leases[t].slot[r]
<1>3. s.attempts[a].status = "executing" /\ s.attempts[a].task = t
  BY SMTT(40), <1>2 DEF Inv, Covered
<1>4. a \in s.leases[t].attempts
  BY <1>2, <1>3, ExecutingUnderLease
<1> QED BY <1>3, <1>4 DEF NoExecuting

\* What a write in flight says about its attempt.
LEMMA SlotFacts ==
  ASSUME NEW s, Inv(s), NEW t \in Task
  PROVE  /\ InFlight(s, t) \in SUBSET Resource
         /\ InFlight(s, t) \subseteq s.leases[t].res
<1>1. s.leases[t] \in LeaseRow
  BY RowFacts DEF Inv
<1> QED BY <1>1 DEF InFlight, InFlightSlots, LeaseRow

\* Draining a lease keeps its markers.
LEMMA DrainedSlots ==
  ASSUME NEW lease \in LeaseRow
  PROVE  InFlightSlots(Drained(lease)) = InFlightSlots(lease)
  BY DrainedFacts DEF InFlightSlots

\* The empty row has no marker.
LEMMA NoLeaseSlots == InFlightSlots(NoLease) = {}
  BY NoLeaseFacts DEF InFlightSlots

\* The preamble of a command leaves every write in flight alone.
LEMMA AcceptedCalm ==
  ASSUME IInv, NEW now \in Nat, NEW s \in AcceptedCommand(now)
  PROVE  /\ Inv(s) /\ NothingToPromote(s) /\ TablesOK(s)
         /\ Calm(db, s) /\ s.attempts = db.attempts
<1>1. Inv(db) /\ Inv(s) /\ NothingToPromote(s) /\ GivesBack(db, s)
  BY AcceptedKeeps DEF IInv
<1>2. ASSUME NEW t \in Task
      PROVE  InFlight(s, t) = InFlight(db, t)
  <2>1. db.leases[t] \in LeaseRow
    BY <1>1, RowFacts DEF Inv
  <2>2. \/ s.leases[t] = db.leases[t]
        \/ s.leases[t] = Drained(db.leases[t])
        \/ s.leases[t] = NoLease /\ NoExecuting(db, t)
    BY <1>1 DEF GivesBack
  <2>3. CASE s.leases[t] = NoLease /\ NoExecuting(db, t)
    BY <1>1, <2>3, NoExecutingNoSlot, NoLeaseSlots DEF InFlight
  <2> QED BY <2>1, <2>2, <2>3, DrainedSlots DEF InFlight
<1> QED BY <1>1, <1>2 DEF Calm, GivesBack, Inv

\* Giving back a lease without a marker.
LEMMA ReleaseCalm ==
  ASSUME NEW s, Inv(s), NEW t \in Task, InFlight(s, t) = {}, NEW now \in Nat,
         NEW z \in PromoteWaiters(ReleaseAllTaskLeases(s, t), now)
  PROVE  Calm(s, z)
<1> DEFINE r == ReleaseAllTaskLeases(s, t)
<1>1. Inv(r)
  BY NoSlotNoExecuting, ReleaseKeeps DEF InFlight
<1>2. r.leases = [s.leases EXCEPT ![t] = NoLease]
  BY DEF ReleaseAllTaskLeases, Inv, TablesOK
<1>3. z \in PromoteWaiters(r, now)
  OBVIOUS
<1> HIDE DEF r
<1>4. z.leases = r.leases
  BY <1>1, <1>3, PromoteFrame
<1>5. z.leases[t] = NoLease /\ \A u \in Task \ {t} : z.leases[u] = s.leases[u]
  BY <1>2, <1>4 DEF Inv, TablesOK
<1> QED BY <1>5, NoLeaseSlots DEF Calm, InFlight

\* Draining a lease.
LEMMA DrainCalm ==
  ASSUME NEW s, Inv(s), NEW t \in Task
  PROVE  Calm(s, Drain(s, t))
<1> DEFINE z == Drain(s, t)
<1>1. z.leases[t] = Drained(s.leases[t]) /\ \A u \in Task \ {t} : z.leases[u] = s.leases[u]
  BY DrainFacts DEF Inv
<1> HIDE DEF z
<1>2. s.leases[t] \in LeaseRow
  BY RowFacts DEF Inv
<1>3. Calm(s, z)
  BY <1>1, <1>2, DrainedSlots DEF Calm, InFlight
<1> QED BY <1>3 DEF z

\* Releasing a lease, at once or deferred.
LEMMA ReleasesDb ==
  ASSUME IInv, NEW t \in Task, LeaseRelease(t) \/ LeaseReleaseDeferred(t)
  PROVE  IInv' /\ Calm(db, db')
<1>1. PICK now, s : /\ now \in Observed /\ s \in AcceptedCommand(now)
                    /\ \/ /\ InFlight(s, t) = {}
                          /\ db' \in PromoteWaiters(ReleaseAllTaskLeases(s, t), now)
                       \/ db' = Drain(s, t)
  BY DEF LeaseRelease, LeaseReleaseDeferred, InFlight
<1>2. now \in Nat /\ Inv(s) /\ Calm(db, s)
  BY <1>1, Times, AcceptedCalm DEF IInv
<1>3. Calm(s, db')
  BY <1>1, <1>2, ReleaseCalm, DrainCalm
<1>4. IInv'
  BY LeaseReleaseOK
<1> QED BY <1>2, <1>3, <1>4 DEF Calm

\* Queueing.
LEMMA QueuesUpDb ==
  ASSUME IInv, NEW t \in Task, DOMAIN client[t].obs \in SUBSET Resource, QueuesUp(t)
  PROVE  IInv' /\ Calm(db, db')
<1> DEFINE R == DOMAIN client[t].obs
           e == clock + OfferTtl
<1>1. PICK s, y :
        /\ s \in AcceptedCommand(clock)
        /\ Active(s, t) /\ InFlight(s, t) = {}
        /\ y \in Yielded(s, t, clock)
        /\ db' \in PromoteWaiters(EnqueueRequest(y, t, UnionResources(s, t, R), e), clock)
        /\ clock' = clock
  BY DEF QueuesUp, InFlight
<1>2. clock \in Nat /\ e \in Nat /\ Inv(s) /\ Calm(db, s)
  BY SMTT(40), <1>1, AcceptedCalm, OfferTtlAssumption DEF IInv
<1> DEFINE all == UnionResources(s, t, R)
           n == EnqueueRequest(y, t, all, e)
<1>3. all \in SUBSET Resource
  BY <1>2, UnionInResource DEF Inv
<1>4. db' \in PromoteWaiters(n, clock)
  BY <1>1
<1> HIDE DEF R, e, all, n
<1>5. Inv(y) /\ Active(y, t) /\ ~Leased(y, t) /\ Calm(s, y)
  <2>1. CASE Leased(s, t)
    <3>1. y \in PromoteWaiters(ReleaseAllTaskLeases(s, t), clock)
      BY <1>1, <2>1 DEF Yielded
    <3>2. Inv(y) /\ y.leases[t] = NoLease /\ y.tasks = s.tasks
      BY SMTT(40), <1>1, <1>2, <3>1, YieldSheds DEF InFlight
    <3>3. Calm(s, y)
      BY <1>1, <1>2, <3>1, ReleaseCalm
    <3> QED BY <1>1, <3>2, <3>3, NoLeaseFacts DEF Active, Leased
  <2>2. CASE ~Leased(s, t)
    BY <1>1, <1>2, <2>2 DEF Yielded, Calm
  <2> QED BY <2>1, <2>2
<1>6. Inv(n) /\ n.leases = y.leases
  <2>1. Inv(n)
    BY <1>2, <1>3, <1>5, EnqueueKeeps DEF n
  <2>2. n.leases = y.leases
    BY <1>5 DEF n, EnqueueRequest, ClosePending, Inv, TablesOK
  <2> QED BY <2>1, <2>2
<1>7. db'.leases = n.leases /\ Inv(db') /\ NothingToPromote(db')
  BY <1>2, <1>4, <1>6, PromoteFrame, PromoteKeeps
<1>8. Calm(y, db')
  BY <1>6, <1>7 DEF Calm, InFlight
<1> QED BY <1>1, <1>2, <1>5, <1>7, <1>8 DEF Calm, IInv

\* Activating an offer.
LEMMA ActivatesDb ==
  ASSUME IInv, NEW t \in Task, Activates(t)
  PROVE  IInv' /\ Calm(db, db')
<1> DEFINE e == clock + LeaseExpiry
<1>1. PICK s \in AcceptedCommand(clock) : \E q \in Requests(s) :
        MayActivate(s, t, q) /\ db' = Activation(s, t, q, e)
  BY DEF Activates, Activation
<1>2. PICK q \in Requests(s) : MayActivate(s, t, q) /\ db' = Activation(s, t, q, e)
  BY <1>1
<1>3. Inv(s) /\ NothingToPromote(s) /\ Calm(db, s) /\ e \in Nat /\ clock' = clock
  BY SMTT(40), AcceptedCalm, BoundAssumption DEF IInv, Activates
<1> HIDE DEF e
<1>4. Activated(s, db', t, q)
  BY <1>2, <1>3, ActivatedFacts DEF Inv
<1>5. q \in Offered(s) /\ s.requests[q].task = t /\ ~AgentSlotOccupied(s, Owner[t], Task)
  BY <1>2 DEF MayActivate
<1>6. Inv(db') /\ NothingToPromote(db')
  BY <1>3, <1>4, <1>5, ActivateKeeps
<1>7. s.leases[t] = NoLease
  BY <1>3, <1>5 DEF AgentSlotOccupied, Inv, TablesOK
<1>8. ASSUME NEW u \in Task
      PROVE  InFlight(db', u) = InFlight(s, u)
  <2>1. CASE u = t
    <3>1. db'.leases[t].res \in SUBSET Resource /\ \A r \in Resource : db'.leases[t].slot[r] = None
      BY <1>4, <1>6, RowFacts DEF Activated, Inv, LeaseRow
    <3> QED BY <1>7, <2>1, <3>1, NoLeaseSlots DEF InFlight, InFlightSlots
  <2>2. CASE u # t
    BY <1>4, <2>2 DEF Activated, InFlight
  <2> QED BY <2>1, <2>2
<1> QED BY SMTT(40), <1>3, <1>6, <1>8 DEF Calm, IInv

\* Preparing a write: the markers of the task grow by the resources of the
\* write, and the evidence of the others over all the lease covers goes.
LEMMA PermittedDb ==
  ASSUME IInv, NEW t \in Task, NEW a \in Attempt,
         DOMAIN client[t].obs \in SUBSET Resource, DOMAIN client[t].obs # {}, Permitted(t, a)
  PROVE  /\ IInv'
         /\ InFlight(db', t) = InFlight(db, t) \cup DOMAIN client[t].obs
         /\ \A u \in Task \ {t} : InFlight(db', u) = InFlight(db, u)
         /\ \E all \in SUBSET Resource :
              /\ DOMAIN client[t].obs \subseteq all
              /\ evidence' = RevokeOverlapping(evidence, all, {t})
<1> DEFINE R == DOMAIN client[t].obs
           e == clock + LeaseExpiry
           deadline == clock + AttemptWindow
<1>1. PICK s, all :
        /\ s \in AcceptedCommand(clock)
        /\ all = UnionResources(s, t, R)
        /\ Active(s, t) /\ ~Contended(s, t, R) /\ MayEnsureLease(s, t, all, clock)
        /\ \A r \in R : s.leases[t].slot[r] = None
        /\ s.attempts[a].status = "unused"
        /\ db' = PrepareWriteAttempt(EnsureActiveLease(s, t, all, e), t, a, R, deadline)
        /\ evidence' = RevokeOverlapping(evidence, all, {t})
        /\ clock' = clock
  BY DEF Permitted
<1>2. Inv(s) /\ NothingToPromote(s) /\ Calm(db, s) /\ e \in Nat /\ deadline \in Nat
  BY SMTT(40), <1>1, AcceptedCalm, BoundAssumption DEF IInv
<1>3. R \in SUBSET Resource /\ R # {}
  OBVIOUS
<1> HIDE DEF R, e, deadline
<1>4. Inv(db') /\ NothingToPromote(db')
  BY SMTT(40), <1>1, <1>2, <1>3, PrepareKeeps
<1>5. all \in SUBSET Resource /\ s.leases[t].res \subseteq all /\ R \subseteq all
  <2>1. TablesOK(s) /\ all = UnionResources(s, t, R)
    BY <1>1, <1>2 DEF Inv
  <2>2. all \in SUBSET Resource
    BY <1>3, <2>1, UnionInResource
  <2> QED BY <2>1, <2>2 DEF UnionResources
<1>6. Prepared(s, db', t, a, all, R)
  <2>1. MayEnsureLease(s, t, all, clock)
    BY <1>1
  <2>2. db' = PrepareWriteAttempt(EnsureActiveLease(s, t, all, e), t, a, R, deadline)
    BY <1>1
  <2>3. TablesOK(s) /\ e \in Nat /\ deadline \in Nat
    BY <1>2 DEF Inv
  <2> QED BY <1>3, <1>5, <2>1, <2>2, <2>3, PreparedFacts
<1>7. \A u \in Task \ {t} : InFlight(db', u) = InFlight(s, u)
  BY <1>6 DEF Prepared, InFlight
<1>8. InFlight(db', t) = InFlight(s, t) \cup R
  <2>1. s.leases[t] \in LeaseRow /\ (Leased(s, t) \/ s.leases[t] = NoLease)
    BY <1>2, RowFacts DEF Inv, TablesOK
  <2>2. /\ db'.leases[t].res = all
        /\ \A r \in Resource : db'.leases[t].slot[r] = IF r \in R THEN a ELSE s.leases[t].slot[r]
    BY <1>6 DEF Prepared
  <2>3. \A r \in all \ R : r \in s.leases[t].res
    <3>1. PendingTaskRequest(s, t) = {}
      BY <1>1 DEF Contended
    <3>2. UnionResources(s, t, R) = s.leases[t].res \cup R
      BY <3>1, UnionFacts
    <3> QED BY <1>1, <1>2, <1>3, <3>2
  <2> QED BY <1>3, <1>5, <2>1, <2>2, <2>3, NoneAssumption DEF InFlight, InFlightSlots
<1>9. IInv'
  BY <1>1, <1>4 DEF IInv
<1> QED BY <1>1, <1>2, <1>5, <1>7, <1>8, <1>9 DEF Calm, R

\* The result of a write of t clears markers of t only.
LEMMA CompletedSlots ==
  ASSUME NEW s, Inv(s), NEW t \in Task, NEW a \in Attempt,
         NEW result \in {"completed", "failed", "uncertain"},
         s.attempts[a].task = t, s.attempts[a].status = "executing",
         NEW z, z = Completed(s, t, a, result)
  PROVE  /\ Inv(z)
         /\ InFlight(z, t) \subseteq InFlight(s, t)
         /\ \A u \in Task \ {t} : InFlight(z, u) = InFlight(s, u)
<1> DEFINE b == RecordResult(s, a, result)
           y == SettleBatch(b, t, a, result)
<1>1. Inv(y) /\ Inv(z)
  BY BatchKeeps, FinishKeeps DEF Completed
<1>2. Recorded(s, b, a, result)
  BY RecordedFacts DEF Inv
<1>3. y \in {b, Drain(b, t), ReleaseAllTaskLeases(b, t)}
  BY DEF SettleBatch
<1>4. z = y \/ z = [ReleaseAllTaskLeases(y, t) EXCEPT !.tasks[t].status = y.tasks[t].terminal]
  BY DEF Completed, FinishDrainingTask
<1> HIDE DEF b, y
<1>5. /\ TablesOK(b)
      /\ \A u \in Task :
           /\ b.leases[u].res = s.leases[u].res
           /\ \A r \in Resource : b.leases[u].slot[r] =
                IF s.leases[u].slot[r] = a THEN None ELSE s.leases[u].slot[r]
  BY <1>2 DEF Recorded
<1>6. \A u \in Task : s.leases[u].res \in SUBSET Resource
  BY RowFacts DEF Inv, LeaseRow
<1>7. \A u \in Task \ {t}, r \in Resource : s.leases[u].slot[r] # a
  BY SMTT(40) DEF Inv, Covered
<1>8. InFlight(b, t) \subseteq InFlight(s, t)
  BY <1>5, <1>6 DEF InFlight, InFlightSlots
<1>9. \A u \in Task \ {t} : InFlight(b, u) = InFlight(s, u)
  <2> SUFFICES ASSUME NEW u \in Task \ {t}
               PROVE  InFlight(b, u) = InFlight(s, u)
    OBVIOUS
  <2>1. \A r \in Resource : b.leases[u].slot[r] = s.leases[u].slot[r]
    BY <1>5, <1>7
  <2>2. b.leases[u].res = s.leases[u].res /\ s.leases[u].res \in SUBSET Resource
    BY <1>5, <1>6
  <2> QED BY <2>1, <2>2 DEF InFlight, InFlightSlots
<1>10. ASSUME NEW x, TablesOK(x)
       PROVE  /\ InFlight(Drain(x, t), t) = InFlight(x, t)
              /\ InFlight(ReleaseAllTaskLeases(x, t), t) = {}
              /\ \A u \in Task \ {t} : /\ InFlight(Drain(x, t), u) = InFlight(x, u)
                                       /\ InFlight(ReleaseAllTaskLeases(x, t), u) = InFlight(x, u)
  <2> DEFINE d == Drain(x, t)
             r == ReleaseAllTaskLeases(x, t)
  <2>1. d.leases[t] = Drained(x.leases[t]) /\ \A u \in Task \ {t} : d.leases[u] = x.leases[u]
    BY SMTT(40), <1>10, DrainFacts
  <2>2. r.leases[t] = NoLease /\ \A u \in Task \ {t} : r.leases[u] = x.leases[u]
    BY <1>10 DEF ReleaseAllTaskLeases, TablesOK
  <2> HIDE DEF d, r
  <2>3. x.leases[t] \in LeaseRow
    BY <1>10, RowFacts
  <2>4. /\ InFlight(d, t) = InFlight(x, t) /\ InFlight(r, t) = {}
        /\ \A u \in Task \ {t} : InFlight(d, u) = InFlight(x, u) /\ InFlight(r, u) = InFlight(x, u)
    BY <2>1, <2>2, <2>3, DrainedSlots, NoLeaseSlots DEF InFlight
  <2> QED BY <2>4 DEF d, r
<1>11. /\ InFlight(y, t) \subseteq InFlight(s, t)
       /\ \A u \in Task \ {t} : InFlight(y, u) = InFlight(s, u)
  BY SMTT(40), <1>3, <1>5, <1>8, <1>9, <1>10
<1>12. CASE z = y
  BY <1>1, <1>11, <1>12
<1>13. CASE z = [ReleaseAllTaskLeases(y, t) EXCEPT !.tasks[t].status = y.tasks[t].terminal]
  <2> DEFINE r == ReleaseAllTaskLeases(y, t)
  <2>1. z.leases = r.leases
    BY <1>1, <1>13 DEF ReleaseAllTaskLeases, Inv, TablesOK
  <2>2. InFlight(r, t) = {} /\ \A u \in Task \ {t} : InFlight(r, u) = InFlight(y, u)
    BY SMTT(40), <1>1, <1>10 DEF Inv
  <2> HIDE DEF r
  <2> QED BY <1>1, <1>11, <2>1, <2>2 DEF InFlight
<1> QED BY <1>4, <1>12, <1>13

\* Reporting the result of a write.
LEMMA ReportsDb ==
  ASSUME IInv, NEW t \in Task, NEW a \in Attempt, Reports(t, a)
  PROVE  /\ IInv'
         /\ DOMAIN client[t].obs \subseteq InFlight(db, t)
         /\ InFlight(db', t) \subseteq InFlight(db, t)
         /\ \A u \in Task \ {t} : InFlight(db', u) = InFlight(db, u)
<1>1. PICK s, result :
        /\ s \in AcceptedCommand(clock) /\ result \in Results(t)
        /\ db' \in IF Released(s, t, a, result)
                   THEN PromoteWaiters(Completed(s, t, a, result), clock)
                   ELSE {Completed(s, t, a, result)}
  BY DEF Reports
<1>2. /\ db.attempts[a].task = t /\ db.attempts[a].status = "executing"
      /\ db.attempts[a].res = DOMAIN client[t].obs /\ clock' = clock
  BY DEF Reports
<1>3. result \in {"completed", "failed", "uncertain"}
  BY <1>1 DEF Results
<1>4. /\ clock \in Nat /\ Inv(s) /\ NothingToPromote(s) /\ Calm(db, s)
      /\ s.attempts[a].task = t /\ s.attempts[a].status = "executing"
  BY <1>1, <1>2, AcceptedCalm DEF IInv
<1> DEFINE z == Completed(s, t, a, result)
<1>5. /\ Inv(z) /\ InFlight(z, t) \subseteq InFlight(s, t)
      /\ \A u \in Task \ {t} : InFlight(z, u) = InFlight(s, u)
  BY SMTT(40), <1>3, <1>4, CompletedSlots
<1>6. ~Released(s, t, a, result) => NothingToPromote(z)
  BY <1>3, <1>4, UnreleasedKeepsNothing
<1>7. \/ db' \in PromoteWaiters(z, clock)
      \/ db' = z /\ ~Released(s, t, a, result)
  BY <1>1
<1> HIDE DEF z
<1>8. Inv(db') /\ NothingToPromote(db') /\ db'.leases = z.leases
  BY <1>4, <1>5, <1>6, <1>7, PromoteKeeps, PromoteFrame
<1>9. DOMAIN client[t].obs \subseteq InFlight(db, t)
  <2>1. PICK u \in Task : RunsUnder(db, a, u)
    BY <1>2 DEF IInv, Inv, Covered
  <2>2. u = t
    BY <1>2, <2>1 DEF RunsUnder
  <2> QED BY <1>2, <2>1, <2>2, NoneAssumption DEF RunsUnder, InFlight, InFlightSlots
<1>10. IInv'
  BY <1>2, <1>4, <1>8 DEF IInv
<1> QED BY <1>4, <1>5, <1>8, <1>9, <1>10 DEF Calm, InFlight

-----------------------------------------------------------------------------
(* The inductive invariant *)

\* The evidence tables and the clients are functions, and rows are records.
Shapes ==
  /\ client = [t \in Task |-> client[t]]
  /\ reads = [t \in Task |-> reads[t]]
  /\ evidence = [t \in Task |-> evidence[t]]
  /\ \A t \in Task : \A e \in evidence[t] : e.res \in Resource
  /\ resources = [r \in Resource |-> resources[r]]
  /\ \A r \in Resource : resources[r] = [state |-> resources[r].state, gen |-> resources[r].gen]

\* The client of t observes resources, and a command it sends names some.
ClientOK(t) ==
  /\ client[t] = [pc |-> client[t].pc, obs |-> client[t].obs, offers |-> client[t].offers]
  /\ client[t].obs = [r \in DOMAIN client[t].obs |-> client[t].obs[r]]
  /\ DOMAIN client[t].obs \in SUBSET Resource
  /\ client[t].pc # "idle" => DOMAIN client[t].obs # {}
  /\ DOMAIN reads[t].obs \in SUBSET Resource

\* A client with a permit has a write in flight on all of it.  What it observed
\* is what is on disk; before the permit, as far as its task has evidence.
Sound(t) ==
  /\ client[t].pc \in {"permitted", "written"} => DOMAIN client[t].obs \subseteq InFlight(db, t)
  /\ client[t].pc = "permitted" =>
       \A r \in DOMAIN client[t].obs : client[t].obs[r] = StateOf(r)
  /\ client[t].pc = "preparing" =>
       \A r \in DOMAIN client[t].obs :
         client[t].obs[r] = StateOf(r) \/ \A e \in evidence[t] : e.res # r

EInv ==
  /\ IInv /\ Shapes
  /\ \A t \in Task : ClientOK(t) /\ Sound(t)
  /\ EvidenceIsCurrent /\ NoEvidenceUnderWrites

\* A step of t: the other clients stand still and gain no evidence.
StepOf(t) ==
  \A u \in Task \ {t} :
    /\ client'[u] = client[u] /\ reads'[u] = reads[u]
    /\ evidence'[u] \subseteq evidence[u]
    /\ InFlight(db', u) = InFlight(db, u)

\* A step of t that leaves the disk alone keeps the invariant, if it does for t.
LEMMA StepOK ==
  ASSUME EInv, NEW t \in Task, StepOf(t), disk' = disk,
         IInv', Shapes', ClientOK(t)', Sound(t)', EvidenceIsCurrent', NoEvidenceUnderWrites'
  PROVE  EInv'
<1>1. ASSUME NEW u \in Task, u # t
      PROVE  ClientOK(u)' /\ Sound(u)'
  <2>1. ClientOK(u) /\ Sound(u)
    BY DEF EInv
  <2>2. /\ client'[u] = client[u] /\ reads'[u] = reads[u]
        /\ evidence'[u] \subseteq evidence[u]
        /\ InFlight(db', u) = InFlight(db, u)
    BY <1>1 DEF StepOf
  <2>3. ClientOK(u)'
    BY <2>1, <2>2 DEF ClientOK
  <2>4. \A r : StateOf(r)' = StateOf(r)
    BY DEF StateOf
  <2>5. Sound(u)'
    BY <2>1, <2>2, <2>4 DEF Sound, InFlight
  <2> QED BY <2>3, <2>5
<1>2. \A u \in Task : ClientOK(u)' /\ Sound(u)'
  BY <1>1
<1> QED BY <1>2 DEF EInv

\* Evidence that only goes stays current and clear of the writes.
LEMMA EvidenceGoes ==
  ASSUME EInv, Calm(db, db'), resources' = resources,
         \A t \in Task : evidence'[t] \subseteq evidence[t]
  PROVE  EvidenceIsCurrent' /\ NoEvidenceUnderWrites'
<1>1. EvidenceIsCurrent'
  BY DEF EInv, EvidenceIsCurrent
<1>2. NoEvidenceUnderWrites'
  BY DEF EInv, NoEvidenceUnderWrites, Calm, InFlight
<1> QED BY <1>1, <1>2

\* The client of t goes on to pc, and forgets what it observed when idle.
LEMMA MovedFacts ==
  ASSUME Shapes, NEW t \in Task, ClientOK(t), NEW pc, client' = Moved(t, pc)
  PROVE  /\ client' = [u \in Task |-> client'[u]]
         /\ \A u \in Task \ {t} : client'[u] = client[u]
         /\ client'[t] = [pc |-> pc, obs |-> client'[t].obs, offers |-> client'[t].offers]
         /\ client'[t].obs = IF pc = "idle" THEN <<>> ELSE client[t].obs
         /\ client'[t].pc = pc
<1> DEFINE c == IF pc = "idle" THEN Idle ELSE [client[t] EXCEPT !.pc = pc]
<1>1. client' = [client EXCEPT ![t] = c]
  BY DEF Moved
<1>2. /\ c = [pc |-> pc, obs |-> c.obs, offers |-> c.offers]
      /\ c.obs = IF pc = "idle" THEN <<>> ELSE client[t].obs
      /\ c.pc = pc
  <2>1. CASE pc = "idle"
    BY <2>1 DEF Idle
  <2>2. CASE pc # "idle"
    BY <2>2 DEF ClientOK
  <2> QED BY <2>1, <2>2
<1> HIDE DEF c
<1>3. client = [u \in Task |-> client[u]]
  BY DEF Shapes
<1>4. client'[t] = c /\ \A u \in Task \ {t} : client'[u] = client[u]
  BY <1>1, <1>3
<1>5. client' = [u \in Task |-> client'[u]]
  BY <1>1, <1>3
<1> QED BY <1>2, <1>4, <1>5

\* A client that goes on, with neither a command to send nor a permit.
LEMMA GoesOn ==
  ASSUME EInv, NEW t \in Task, NEW pc \in {"idle", "reading", "read"},
         pc # "idle" => client[t].pc # "idle",
         client' = Moved(t, pc), DOMAIN reads'[t].obs \in SUBSET Resource
  PROVE  /\ client' = [u \in Task |-> client'[u]]
         /\ \A u \in Task \ {t} : client'[u] = client[u]
         /\ ClientOK(t)' /\ Sound(t)'
<1>1. Shapes /\ ClientOK(t)
  BY DEF EInv
<1>2. /\ client' = [u \in Task |-> client'[u]]
      /\ \A u \in Task \ {t} : client'[u] = client[u]
      /\ client'[t] = [pc |-> pc, obs |-> client'[t].obs, offers |-> client'[t].offers]
      /\ client'[t].obs = IF pc = "idle" THEN <<>> ELSE client[t].obs
      /\ client'[t].pc = pc
  BY <1>1, MovedFacts
<1>3. Sound(t)'
  BY <1>2 DEF Sound
<1>4. ClientOK(t)'
  <2>1. CASE pc = "idle"
    <3>1. DOMAIN client'[t].obs = {} /\ client'[t].obs = [r \in {} |-> client'[t].obs[r]]
      BY SMTT(40), <1>2, <2>1
    <3> QED BY <1>2, <2>1, <3>1 DEF ClientOK
  <2>2. CASE pc # "idle"
    BY <1>1, <1>2, <2>2 DEF ClientOK
  <2> QED BY <2>1, <2>2
<1> QED BY <1>2, <1>3, <1>4

\* Revoking takes rows away, all those near R from the tasks not spared.
LEMMA RevokeFacts ==
  ASSUME NEW R, NEW Spared
  PROVE  LET ev == RevokeOverlapping(evidence, R, Spared)
         IN /\ ev = [t \in Task |-> ev[t]]
            /\ \A t \in Task : ev[t] \subseteq evidence[t]
            /\ \A t \in Task \ Spared : \A e \in ev[t] : e.res \notin Near(R)
  BY DEF RevokeOverlapping

\* Commands that leave the recorded states alone and give no evidence; the
\* client is done, or took no part.
LEMMA Withdraws ==
  ASSUME EInv, NEW t \in Task, IInv', Calm(db, db'), disk' = disk, resources' = resources,
         evidence' = [u \in Task |-> evidence'[u]],
         \A u \in Task : evidence'[u] \subseteq evidence[u],
         reads' = reads \/ reads' = [reads EXCEPT ![t] = NoRead],
         client' = client \/ client' = Moved(t, "idle")
  PROVE  EInv'
<1>1. Shapes /\ ClientOK(t) /\ Sound(t)
  BY DEF EInv
<1>2. EvidenceIsCurrent' /\ NoEvidenceUnderWrites'
  BY EvidenceGoes
<1>3. /\ reads' = [u \in Task |-> reads'[u]]
      /\ DOMAIN reads'[t].obs \in SUBSET Resource
      /\ \A u \in Task \ {t} : reads'[u] = reads[u]
  <2>1. NoRead.obs = <<>> /\ DOMAIN <<>> = {}
    BY SMTT(40) DEF NoRead
  <2>2. reads = [u \in Task |-> reads[u]] /\ DOMAIN reads[t].obs \in SUBSET Resource
    BY <1>1 DEF Shapes, ClientOK
  <2>3. CASE reads' = reads
    BY <2>2, <2>3
  <2>4. CASE reads' = [reads EXCEPT ![t] = NoRead]
    <3>1. reads'[t] = NoRead /\ \A u \in Task \ {t} : reads'[u] = reads[u]
      BY <2>2, <2>4
    <3>2. reads' = [u \in Task |-> reads'[u]]
      BY <2>2, <2>4
    <3> QED BY <2>1, <3>1, <3>2
  <2> QED BY <2>3, <2>4
<1>4. /\ client' = [u \in Task |-> client'[u]]
      /\ \A u \in Task \ {t} : client'[u] = client[u]
      /\ ClientOK(t)' /\ Sound(t)'
  <2>1. CASE client' = Moved(t, "idle")
    BY <1>3, <2>1, GoesOn
  <2>2. CASE client' = client
    <3>1. ClientOK(t)'
      BY <1>1, <1>3, <2>2 DEF ClientOK
    <3>2. InFlight(db', t) = InFlight(db, t) /\ evidence'[t] \subseteq evidence[t]
      BY DEF Calm
    <3>3. \A r : StateOf(r)' = StateOf(r)
      BY DEF StateOf
    <3>4. Sound(t)'
      BY <1>1, <2>2, <3>2, <3>3 DEF Sound, InFlight
    <3>5. client' = [u \in Task |-> client'[u]]
      BY <1>1, <2>2 DEF Shapes
    <3> QED BY <2>2, <3>1, <3>4, <3>5
  <2> QED BY <2>1, <2>2
<1>5. Shapes'
  BY <1>1, <1>3, <1>4 DEF Shapes
<1>6. StepOf(t)
  BY <1>3, <1>4 DEF StepOf, Calm
<1> QED BY <1>2, <1>4, <1>5, <1>6, StepOK

\* The steps that withdraw: a failed read, a refused or queued write, an
\* activated offer, a released lease, a client that gives up.
LEMMA WithdrawingSteps ==
  ASSUME EInv, NEW t \in Task,
         \/ ReadFails(t) \/ Refused(t) \/ QueuesUp(t) \/ Activates(t)
         \/ Releases(t) \/ Abandons(t)
  PROVE  EInv'
<1>1. IInv /\ Shapes /\ ClientOK(t) /\ clock \in Nat
  BY DEF EInv, IInv
<1>2. evidence = [u \in Task |-> evidence[u]]
  BY <1>1 DEF Shapes
<1>3. ASSUME NEW s \in AcceptedCommand(clock), db' = s, clock' = clock
      PROVE  IInv' /\ Calm(db, db')
  BY <1>1, <1>3, AcceptedCalm DEF IInv
<1>4. CASE ReadFails(t)
  <2>1. IInv' /\ Calm(db, db')
    BY <1>3, <1>4 DEF ReadFails
  <2> QED BY <1>2, <1>4, <2>1, Withdraws DEF ReadFails
<1>5. CASE Refused(t)
  <2>1. IInv' /\ Calm(db, db')
    BY <1>3, <1>5 DEF Refused
  <2> QED BY <1>2, <1>5, <2>1, Withdraws DEF Refused
<1>6. CASE QueuesUp(t)
  <2>1. IInv' /\ Calm(db, db')
    BY <1>1, <1>6, QueuesUpDb DEF ClientOK
  <2> QED BY <1>2, <1>6, <2>1, Withdraws DEF QueuesUp
<1>7. CASE Activates(t)
  <2>1. IInv' /\ Calm(db, db')
    BY <1>1, <1>7, ActivatesDb
  <2>2. PICK R : evidence' = RevokeOverlapping(evidence, R, {t})
    BY <1>7 DEF Activates
  <2>3. /\ evidence' = [u \in Task |-> evidence'[u]]
        /\ \A u \in Task : evidence'[u] \subseteq evidence[u]
    BY <2>2, RevokeFacts
  <2> QED BY <1>7, <2>1, <2>3, Withdraws DEF Activates
<1>8. CASE Releases(t)
  <2>1. IInv' /\ Calm(db, db')
    BY <1>1, <1>8, ReleasesDb DEF Releases
  <2> QED BY <1>2, <1>8, <2>1, Withdraws DEF Releases, EvidenceUnchanged
<1>9. CASE Abandons(t)
  <2>1. IInv' /\ Calm(db, db')
    BY <1>1, <1>9 DEF Abandons, IInv, Calm
  <2> QED BY <1>2, <1>9, <2>1, Withdraws DEF Abandons
<1> QED BY <1>4, <1>5, <1>6, <1>7, <1>8, <1>9

\* Observing changes nothing but what the client remembers.
LEMMA Observing ==
  ASSUME EInv, NEW t \in Task, NEW pc \in {"starting", "ending", "preparing"},
         NEW R \in SUBSET Resource, R # {},
         Observes(t, pc, R), StoreUnchanged, UNCHANGED <<clock, disk>>
  PROVE  EInv'
<1>1. IInv /\ Shapes /\ ClientOK(t)
  BY DEF EInv
<1>2. PICK offers : client' = [client EXCEPT ![t] = [pc |-> pc, obs |-> Snapshot(R), offers |-> offers]]
  BY DEF Observes
<1>3. /\ client'[t] = [pc |-> pc, obs |-> Snapshot(R), offers |-> offers]
      /\ \A u \in Task \ {t} : client'[u] = client[u]
      /\ client' = [u \in Task |-> client'[u]]
  BY <1>1, <1>2 DEF Shapes
<1>4. client'[t].pc = pc /\ client'[t].obs = Snapshot(R)
  BY SMTT(40), <1>3
<1>5. DOMAIN Snapshot(R) = R /\ \A r \in R : Snapshot(R)[r] = StateOf(r)
  BY DEF Snapshot
<1>6. Snapshot(R) = [r \in R |-> Snapshot(R)[r]]
  BY DEF Snapshot
<1>7. UNCHANGED <<db, resources, reads, evidence, clock, disk>>
  BY DEF StoreUnchanged
<1>8. ClientOK(t)'
  BY <1>1, <1>3, <1>4, <1>5, <1>6, <1>7 DEF ClientOK
<1>9. Sound(t)'
  <2>1. \A r : StateOf(r)' = StateOf(r)
    BY <1>7 DEF StateOf
  <2> QED BY <1>4, <1>5, <2>1 DEF Sound
<1>10. IInv' /\ Shapes'
  BY <1>1, <1>3, <1>7 DEF IInv, Shapes
<1>11. Calm(db, db') /\ StepOf(t)
  BY <1>3, <1>7 DEF Calm, StepOf, InFlight
<1>12. EvidenceIsCurrent' /\ NoEvidenceUnderWrites'
  BY <1>7, <1>11, EvidenceGoes
<1> QED BY <1>7, <1>8, <1>9, <1>10, <1>11, <1>12, StepOK

\* The observations of the clients.
LEMMA ObservingSteps ==
  ASSUME EInv, NEW t \in Task, ObserveRead(t) \/ ObserveReadEnd(t) \/ ObserveWrite(t)
  PROVE  EInv'
<1>1. ClientOK(t)
  BY DEF EInv
<1>2. CASE ObserveRead(t)
  <2>1. PICK R \in Target[t] : Observes(t, "starting", R)
    BY <1>2 DEF ObserveRead
  <2>2. R \in SUBSET Resource /\ R # {}
    BY TargetAssumption
  <2> QED BY <1>2, <2>1, <2>2, Observing DEF ObserveRead
<1>3. CASE ObserveReadEnd(t)
  BY <1>1, <1>3, Observing DEF ObserveReadEnd, ClientOK
<1>4. CASE ObserveWrite(t)
  BY <1>1, <1>4, Observing DEF ObserveWrite, ClientOK
<1> QED BY <1>2, <1>3, <1>4

\* Recording observations changes the rows that differ and no others.
LEMMA SyncedFacts ==
  ASSUME Shapes, NEW obs, DOMAIN obs \in SUBSET Resource
  PROVE  /\ Synced(obs) = [r \in Resource |-> Synced(obs)[r]]
         /\ \A r \in Resource :
              /\ Synced(obs)[r] = [state |-> Synced(obs)[r].state, gen |-> Synced(obs)[r].gen]
              /\ r \notin Changed(obs) => Synced(obs)[r] = resources[r]
         /\ Changed(obs) \in SUBSET Resource
<1> DEFINE S == Synced(obs)
           C == Changed(obs)
<1>1. C \in SUBSET Resource
  BY DEF Changed
<1>2. S = [r \in Resource |->
             IF r \in C THEN [state |-> obs[r], gen |-> resources[r].gen + 1] ELSE resources[r]]
  BY DEF Synced
<1> HIDE DEF S, C
<1>3. S = [r \in Resource |-> S[r]]
  BY <1>2
<1>4. ASSUME NEW r \in Resource
      PROVE  /\ S[r] = [state |-> S[r].state, gen |-> S[r].gen]
             /\ r \notin C => S[r] = resources[r]
  <2>1. resources[r] = [state |-> resources[r].state, gen |-> resources[r].gen]
    BY DEF Shapes
  <2>2. CASE r \in C
    <3>1. S[r] = [state |-> obs[r], gen |-> resources[r].gen + 1]
      BY <1>2, <2>2
    <3> QED BY <2>2, <3>1
  <2>3. CASE r \notin C
    BY <1>2, <2>1, <2>3
  <2> QED BY <2>2, <2>3
<1> QED BY <1>1, <1>3, <1>4 DEF S, C

\* A resource overlaps itself.
LEMMA NearItself ==
  ASSUME NEW R \in SUBSET Resource
  PROVE  R \subseteq Near(R)
  BY OverlapAssumption DEF Near

\* Evidence kept that the observations do not contradict.
Sifted(ev, obs) ==
  \A t \in Task : ev[t] \subseteq evidence[t] /\ \A e \in ev[t] : e.res \notin Near(Changed(obs))

\* Recording observations and revoking what they changed keeps evidence current.
LEMMA SyncKeepsCurrent ==
  ASSUME EInv, NEW obs, DOMAIN obs \in SUBSET Resource, NEW ev, Sifted(ev, obs)
  PROVE  \A t \in Task : \A e \in ev[t] :
           Synced(obs)[e.res] = [state |-> e.state, gen |-> e.gen]
<1> SUFFICES ASSUME NEW t \in Task, NEW e \in ev[t]
             PROVE  Synced(obs)[e.res] = [state |-> e.state, gen |-> e.gen]
  OBVIOUS
<1>1. Changed(obs) \in SUBSET Resource /\ Shapes
  BY SyncedFacts DEF EInv
<1>2. e.res \notin Changed(obs) /\ e \in evidence[t] /\ e.res \in Resource
  BY <1>1, NearItself DEF Shapes, Sifted
<1>3. resources[e.res] = [state |-> e.state, gen |-> e.gen]
  BY <1>2 DEF EInv, EvidenceIsCurrent
<1> QED BY <1>1, <1>2, <1>3, SyncedFacts

\* Evidence that only goes stays clear of writes that only end.
LEMMA StaysClear ==
  ASSUME EInv, \A t \in Task : /\ evidence'[t] \subseteq evidence[t]
                               /\ InFlight(db', t) \subseteq InFlight(db, t)
  PROVE  NoEvidenceUnderWrites'
  BY DEF EInv, NoEvidenceUnderWrites, InFlight

\* Starting a read records what was observed and revokes the evidence of what
\* it replaces.
LEMMA ReadStartOK ==
  ASSUME EInv, NEW t \in Task, ReadStart(t)
  PROVE  EInv'
<1> DEFINE obs == client[t].obs
<1>1. IInv /\ Shapes /\ clock \in Nat /\ DOMAIN obs \in SUBSET Resource
  BY DEF EInv, IInv, ClientOK
<1>2. /\ client[t].pc = "starting" /\ client' = Moved(t, "reading")
      /\ resources' = Synced(obs)
      /\ evidence' = RevokeOverlapping(evidence, Changed(obs), {})
      /\ reads' = [reads EXCEPT ![t] = [obs |-> [r \in DOMAIN obs |-> Synced(obs)[r]],
                                        offers |-> client[t].offers]]
      /\ clock' = clock /\ disk' = disk
  BY DEF ReadStart
<1>3. IInv' /\ Calm(db, db')
  BY <1>1, <1>2, AcceptedCalm DEF ReadStart, IInv
<1> HIDE DEF obs
<1>4. /\ evidence' = [u \in Task |-> evidence'[u]]
      /\ \A u \in Task : /\ evidence'[u] \subseteq evidence[u]
                         /\ \A e \in evidence'[u] : e.res \notin Near(Changed(obs))
  BY <1>2, RevokeFacts
<1>5. EvidenceIsCurrent'
  <2>1. \A u \in Task : \A e \in evidence'[u] :
          Synced(obs)[e.res] = [state |-> e.state, gen |-> e.gen]
    <3>1. Sifted(evidence', obs)
      BY <1>4 DEF Sifted
    <3> QED BY <1>1, <3>1, SyncKeepsCurrent
  <2> QED BY <1>2, <2>1 DEF EvidenceIsCurrent
<1>6. NoEvidenceUnderWrites'
  BY <1>3, <1>4, StaysClear DEF Calm
<1>7. /\ reads' = [u \in Task |-> reads'[u]]
      /\ DOMAIN reads'[t].obs \in SUBSET Resource
      /\ \A u \in Task \ {t} : reads'[u] = reads[u]
  <2>1. reads = [u \in Task |-> reads[u]]
    BY <1>1 DEF Shapes
  <2>2. reads'[t] = [obs |-> [r \in DOMAIN obs |-> Synced(obs)[r]], offers |-> client[t].offers]
    BY <1>2, <2>1
  <2>3. DOMAIN reads'[t].obs = DOMAIN obs
    BY SMTT(40), <2>2
  <2> QED BY <1>1, <1>2, <2>1, <2>3
<1>8. /\ client' = [u \in Task |-> client'[u]]
      /\ \A u \in Task \ {t} : client'[u] = client[u]
      /\ ClientOK(t)' /\ Sound(t)'
  BY <1>2, <1>7, GoesOn
<1>9. Shapes'
  <2>1. /\ resources' = [r \in Resource |-> resources'[r]]
        /\ \A r \in Resource : resources'[r] = [state |-> resources'[r].state, gen |-> resources'[r].gen]
    BY <1>1, <1>2, SyncedFacts
  <2>2. \A u \in Task : \A e \in evidence'[u] : e.res \in Resource
    BY <1>1, <1>4 DEF Shapes
  <2> QED BY <1>4, <1>7, <1>8, <2>1, <2>2 DEF Shapes
<1>10. StepOf(t)
  BY <1>3, <1>4, <1>7, <1>8 DEF StepOf, Calm
<1> QED BY SMTT(40), <1>2, <1>3, <1>5, <1>6, <1>8, <1>9, <1>10, StepOK

\* Completing a read is evidence of the recorded states it saw, except where
\* another task is writing.
LEMMA ReadCompletesOK ==
  ASSUME EInv, NEW t \in Task, ReadCompletes(t)
  PROVE  EInv'
<1>1. /\ IInv /\ Shapes /\ clock \in Nat /\ DOMAIN reads[t].obs \in SUBSET Resource
      /\ EvidenceIsCurrent /\ NoEvidenceUnderWrites
  BY DEF EInv, IInv, ClientOK
<1>2. /\ client[t].pc = "ending" /\ client' = Moved(t, "read")
      /\ \A r \in DOMAIN reads[t].obs : reads[t].obs[r] = resources[r]
      /\ reads' = [reads EXCEPT ![t] = NoRead]
      /\ clock' = clock /\ disk' = disk /\ resources' = resources
  BY DEF ReadCompletes, Unchanged
<1>3. /\ db' \in AcceptedCommand(clock)
      /\ evidence' = [evidence EXCEPT ![t] = @ \cup
           {EvidenceRow(r, reads[t].obs[r], reads[t].offers) : r \in InsertsValid(db', t)}]
  BY DEF ReadCompletes
<1>4. IInv' /\ Calm(db, db')
  BY <1>1, <1>2, <1>3, AcceptedCalm DEF IInv
<1> DEFINE V == InsertsValid(db', t)
           new == {EvidenceRow(r, reads[t].obs[r], reads[t].offers) : r \in V}
<1>5. /\ V \in SUBSET Resource
      /\ \A r \in V : r \in DOMAIN reads[t].obs /\ ~PeerWriteInFlight(db', t, r)
  BY <1>1 DEF InsertsValid
<1>6. /\ evidence' = [u \in Task |-> evidence'[u]]
      /\ evidence'[t] = evidence[t] \cup new
      /\ \A u \in Task \ {t} : evidence'[u] = evidence[u]
  BY <1>1, <1>3 DEF Shapes
<1> HIDE DEF V
<1>7. ASSUME NEW e \in new
      PROVE  /\ e.res \in V
             /\ resources[e.res] = [state |-> e.state, gen |-> e.gen]
  <2>1. PICK r \in V : e = EvidenceRow(r, reads[t].obs[r], reads[t].offers)
    OBVIOUS
  <2>2. reads[t].obs[r] = resources[r]
    BY <1>2, <1>5
  <2>3. resources[r] = [state |-> resources[r].state, gen |-> resources[r].gen]
    BY <1>1, <1>5 DEF Shapes
  <2>4. e.res = r /\ e.state = resources[r].state /\ e.gen = resources[r].gen
    BY <2>1, <2>2 DEF EvidenceRow
  <2> QED BY <2>3, <2>4
<1> HIDE DEF new
<1>8. EvidenceIsCurrent'
  BY <1>1, <1>2, <1>6, <1>7 DEF EvidenceIsCurrent
<1>9. NoEvidenceUnderWrites'
  <2> SUFFICES ASSUME NEW u \in Task, NEW q \in InFlight(db', u),
                      NEW v \in Task \ {u}, NEW e \in evidence'[v]
               PROVE  <<e.res, q>> \notin Overlap
    BY DEF NoEvidenceUnderWrites, InFlight
  <2>1. q \in InFlight(db, u)
    BY <1>4 DEF Calm
  <2>2. CASE e \in evidence[v]
    BY <1>1, <2>1, <2>2 DEF NoEvidenceUnderWrites, InFlight
  <2>3. CASE e \notin evidence[v]
    <3>1. v = t /\ e \in new
      BY <1>6, <2>3
    <3>2. ~PeerWriteInFlight(db', t, e.res) /\ e.res \in Resource
      BY <1>5, <1>7, <3>1
    <3>3. <<q, e.res>> \notin Overlap
      BY <3>1, <3>2 DEF PeerWriteInFlight, InFlight
    <3>4. q \in Resource
      BY <1>1, <2>1, SlotFacts DEF IInv
    <3> QED BY <3>2, <3>3, <3>4, OverlapAssumption
  <2> QED BY <2>2, <2>3
<1>10. /\ reads' = [u \in Task |-> reads'[u]]
       /\ DOMAIN reads'[t].obs \in SUBSET Resource
       /\ \A u \in Task \ {t} : reads'[u] = reads[u]
  <2>1. NoRead.obs = <<>> /\ DOMAIN <<>> = {}
    BY SMTT(40) DEF NoRead
  <2>2. reads = [u \in Task |-> reads[u]]
    BY <1>1 DEF Shapes
  <2>3. reads'[t] = NoRead
    BY <1>2, <2>2
  <2> QED BY <1>2, <2>1, <2>2, <2>3
<1>11. /\ client' = [u \in Task |-> client'[u]]
       /\ \A u \in Task \ {t} : client'[u] = client[u]
       /\ ClientOK(t)' /\ Sound(t)'
  BY <1>2, <1>10, GoesOn
<1>12. Shapes'
  <2>1. \A u \in Task : \A e \in evidence'[u] : e.res \in Resource
    BY <1>1, <1>5, <1>6, <1>7 DEF Shapes
  <2> QED BY <1>1, <1>2, <1>6, <1>10, <1>11, <2>1 DEF Shapes
<1>13. StepOf(t)
  BY <1>4, <1>6, <1>10, <1>11 DEF StepOf, Calm
<1> QED BY SMTT(40), <1>2, <1>4, <1>8, <1>9, <1>11, <1>12, <1>13, StepOK

\* A permit is given for what the client observed and the store has on record,
\* and takes the evidence of the other tasks near it away.
LEMMA PermittedOK ==
  ASSUME EInv, NEW t \in Task, NEW a \in Attempt, Permitted(t, a)
  PROVE  EInv'
<1> DEFINE R == DOMAIN client[t].obs
<1>1. IInv /\ Shapes /\ ClientOK(t) /\ Sound(t) /\ EvidenceIsCurrent /\ NoEvidenceUnderWrites
  BY DEF EInv
<1>2. /\ client[t].pc = "preparing" /\ client' = Moved(t, "permitted")
      /\ HasCurrentEvidence(t, R, {})
      /\ disk' = disk /\ resources' = resources /\ reads' = reads
  BY DEF Permitted, Fresh
<1>3. R \in SUBSET Resource /\ R # {}
  BY <1>1, <1>2 DEF ClientOK
<1>4. /\ IInv'
      /\ InFlight(db', t) = InFlight(db, t) \cup R
      /\ \A u \in Task \ {t} : InFlight(db', u) = InFlight(db, u)
  BY <1>1, <1>3, PermittedDb
<1>5. PICK all \in SUBSET Resource :
        R \subseteq all /\ evidence' = RevokeOverlapping(evidence, all, {t})
  BY <1>1, <1>3, PermittedDb
<1>6. /\ evidence' = [u \in Task |-> evidence'[u]]
      /\ \A u \in Task : evidence'[u] \subseteq evidence[u]
      /\ \A u \in Task \ {t} : \A e \in evidence'[u] : e.res \notin Near(all)
  BY <1>5, RevokeFacts
<1> HIDE DEF R
<1>7. EvidenceIsCurrent'
  BY <1>1, <1>2, <1>6 DEF EvidenceIsCurrent
<1>8. NoEvidenceUnderWrites'
  <2> SUFFICES ASSUME NEW u \in Task, NEW q \in InFlight(db', u),
                      NEW v \in Task \ {u}, NEW e \in evidence'[v]
               PROVE  <<e.res, q>> \notin Overlap
    BY DEF NoEvidenceUnderWrites, InFlight
  <2>1. e \in evidence[v] /\ e.res \in Resource
    BY <1>1, <1>6 DEF Shapes
  <2>2. CASE q \in InFlight(db, u)
    BY <1>1, <2>1, <2>2 DEF NoEvidenceUnderWrites, InFlight
  <2>3. CASE q \notin InFlight(db, u)
    <3>1. u = t /\ q \in all
      BY <1>4, <1>5, <2>3
    <3>2. e.res \notin Near(all)
      BY <1>6, <3>1
    <3> QED BY <2>1, <3>1, <3>2 DEF Near
  <2> QED BY <2>2, <2>3
<1>9. /\ client' = [u \in Task |-> client'[u]]
      /\ \A u \in Task \ {t} : client'[u] = client[u]
      /\ client'[t] = [pc |-> "permitted", obs |-> client'[t].obs, offers |-> client'[t].offers]
      /\ client'[t].obs = client[t].obs
      /\ client'[t].pc = "permitted"
  BY SMTT(40), <1>1, <1>2, MovedFacts
<1>10. ClientOK(t)'
  BY <1>1, <1>2, <1>3, <1>9 DEF ClientOK, R
<1>11. Sound(t)'
  <2>1. \A r \in R : client[t].obs[r] = StateOf(r)
    BY <1>1, <1>2 DEF Sound, HasCurrentEvidence, R
  <2>2. \A r : StateOf(r)' = StateOf(r)
    BY <1>2 DEF StateOf
  <2>3. R \subseteq InFlight(db', t)
    BY <1>4
  <2> QED BY <1>9, <2>1, <2>2, <2>3 DEF Sound, R, InFlight
<1>12. Shapes'
  <2>1. \A u \in Task : \A e \in evidence'[u] : e.res \in Resource
    BY <1>1, <1>6 DEF Shapes
  <2> QED BY <1>1, <1>2, <1>6, <1>9, <2>1 DEF Shapes
<1>13. StepOf(t)
  BY <1>2, <1>4, <1>6, <1>9 DEF StepOf
<1> QED BY SMTT(40), <1>2, <1>4, <1>7, <1>8, <1>10, <1>11, <1>12, <1>13, StepOK

\* Writes in flight of two tasks do not overlap.
LEMMA WritesApart ==
  ASSUME EInv, NEW t \in Task, NEW u \in Task \ {t}, NEW q \in InFlight(db, t),
         NEW r \in InFlight(db, u)
  PROVE  q \in Resource /\ r \in Resource /\ <<q, r>> \notin Overlap
<1>1. Inv(db)
  BY DEF EInv, IInv
<1>2. q \in Resource /\ q \in db.leases[t].res /\ r \in Resource /\ r \in db.leases[u].res
  BY <1>1, SlotFacts
<1>3. ~Overlapping(db.leases[t].res, db.leases[u].res)
  BY <1>1 DEF Inv, Exclusive
<1> QED BY <1>2, <1>3 DEF Overlapping

\* What a reported result does to the evidence.
LEMMA RecordsOK ==
  ASSUME EInv, NEW t \in Task, NEW post, DOMAIN post \in SUBSET Resource,
         DOMAIN post \subseteq InFlight(db, t),
         NEW result \in {"completed", "failed", "uncertain"}, RecordsWrite(t, post, result),
         \A u \in Task : InFlight(db', u) \subseteq InFlight(db, u)
  PROVE  /\ evidence' = [u \in Task |-> evidence'[u]]
         /\ resources' = [r \in Resource |-> resources'[r]]
         /\ \A r \in Resource : resources'[r] = [state |-> resources'[r].state, gen |-> resources'[r].gen]
         /\ \A u \in Task : \A e \in evidence'[u] : e.res \in Resource
         /\ \A u \in Task \ {t} : evidence'[u] \subseteq evidence[u]
         /\ EvidenceIsCurrent' /\ NoEvidenceUnderWrites'
<1>1. Shapes /\ EvidenceIsCurrent /\ NoEvidenceUnderWrites
  BY DEF EInv
<1>2. CASE result = "failed"
  <2>1. resources' = resources /\ evidence' = evidence
    BY <1>2 DEF RecordsWrite
  <2>2. NoEvidenceUnderWrites'
    BY <2>1, StaysClear
  <2> QED BY <1>1, <2>1, <2>2 DEF Shapes, EvidenceIsCurrent
<1>3. CASE result = "uncertain"
  <2>1. resources' = resources /\ evidence' = RevokeOverlapping(evidence, DOMAIN post, {})
    BY <1>3 DEF RecordsWrite
  <2>2. /\ evidence' = [u \in Task |-> evidence'[u]]
        /\ \A u \in Task : evidence'[u] \subseteq evidence[u]
    BY SMTT(40), <2>1, RevokeFacts
  <2>3. NoEvidenceUnderWrites'
    BY <2>2, StaysClear
  <2> QED BY <1>1, <2>1, <2>2, <2>3 DEF Shapes, EvidenceIsCurrent
<1>4. CASE result = "completed"
  <2> DEFINE ev == RevokeOverlapping(evidence, Changed(post), {})
             S == Synced(post)
             new == {EvidenceRow(r, S[r], {}) : r \in DOMAIN post}
  <2>1. resources' = S /\ evidence' = [ev EXCEPT ![t] = @ \cup new]
    BY <1>4 DEF RecordsWrite
  <2>2. /\ ev = [u \in Task |-> ev[u]]
        /\ \A u \in Task : ev[u] \subseteq evidence[u]
        /\ \A u \in Task : \A e \in ev[u] : e.res \notin Near(Changed(post))
    BY RevokeFacts
  <2> HIDE DEF ev
  <2>3. \A u \in Task : \A e \in ev[u] : S[e.res] = [state |-> e.state, gen |-> e.gen]
    <3>1. Sifted(ev, post)
      BY <2>2 DEF Sifted
    <3> QED BY <3>1, SyncKeepsCurrent
  <2>4. /\ S = [r \in Resource |-> S[r]]
        /\ \A r \in Resource : S[r] = [state |-> S[r].state, gen |-> S[r].gen]
    BY <1>1, SyncedFacts
  <2> HIDE DEF S
  <2>5. ASSUME NEW e \in new
        PROVE  e.res \in DOMAIN post /\ S[e.res] = [state |-> e.state, gen |-> e.gen]
    <3>1. PICK r \in DOMAIN post : e = EvidenceRow(r, S[r], {})
      OBVIOUS
    <3>2. e.res = r /\ e.state = S[r].state /\ e.gen = S[r].gen
      BY <3>1 DEF EvidenceRow
    <3> QED BY <2>4, <3>2
  <2> HIDE DEF new
  <2>6. /\ evidence' = [u \in Task |-> evidence'[u]]
        /\ evidence'[t] = ev[t] \cup new
        /\ \A u \in Task \ {t} : evidence'[u] = ev[u]
    BY <2>1, <2>2
  <2>7. EvidenceIsCurrent'
    BY <2>1, <2>3, <2>5, <2>6 DEF EvidenceIsCurrent
  <2>8. NoEvidenceUnderWrites'
    <3> SUFFICES ASSUME NEW u \in Task, NEW q \in InFlight(db', u),
                        NEW v \in Task \ {u}, NEW e \in evidence'[v]
                 PROVE  <<e.res, q>> \notin Overlap
      BY DEF NoEvidenceUnderWrites, InFlight
    <3>1. q \in InFlight(db, u)
      OBVIOUS
    <3>2. CASE e \in evidence[v]
      BY <1>1, <3>1, <3>2 DEF NoEvidenceUnderWrites, InFlight
    <3>3. CASE e \notin evidence[v]
      <4>1. v = t /\ e \in new
        BY <2>2, <2>6, <3>3
      <4>2. e.res \in InFlight(db, t) /\ u \in Task \ {t}
        BY <2>5, <4>1
      <4> QED BY <3>1, <4>2, WritesApart
    <3> QED BY <3>2, <3>3
  <2>9. \A u \in Task : \A e \in evidence'[u] : e.res \in Resource
    BY <1>1, <2>2, <2>5, <2>6 DEF Shapes
  <2> QED BY <2>1, <2>2, <2>4, <2>6, <2>7, <2>8, <2>9
<1> QED BY <1>2, <1>3, <1>4

\* Reporting a result.
LEMMA ReportsOK ==
  ASSUME EInv, NEW t \in Task, NEW a \in Attempt, Reports(t, a)
  PROVE  EInv'
<1> DEFINE post == Snapshot(DOMAIN client[t].obs)
<1>1. IInv /\ Shapes /\ DOMAIN client[t].obs \in SUBSET Resource /\ DOMAIN reads[t].obs \in SUBSET Resource
  BY DEF EInv, ClientOK
<1>2. client' = Moved(t, "idle") /\ disk' = disk /\ reads' = reads
  BY DEF Reports
<1>3. PICK result \in Results(t) : RecordsWrite(t, post, result)
  BY DEF Reports
<1>4. result \in {"completed", "failed", "uncertain"}
  BY DEF Results
<1>5. /\ IInv'
      /\ DOMAIN client[t].obs \subseteq InFlight(db, t)
      /\ InFlight(db', t) \subseteq InFlight(db, t)
      /\ \A u \in Task \ {t} : InFlight(db', u) = InFlight(db, u)
  BY <1>1, ReportsDb
<1>6. DOMAIN post = DOMAIN client[t].obs
  BY DEF Snapshot
<1> HIDE DEF post
<1>7. \A u \in Task : InFlight(db', u) \subseteq InFlight(db, u)
  BY SMTT(40), <1>5
<1>8. DOMAIN post \in SUBSET Resource /\ DOMAIN post \subseteq InFlight(db, t)
  BY <1>1, <1>5, <1>6
<1>9. /\ evidence' = [u \in Task |-> evidence'[u]]
      /\ resources' = [r \in Resource |-> resources'[r]]
      /\ \A r \in Resource : resources'[r] = [state |-> resources'[r].state, gen |-> resources'[r].gen]
      /\ \A u \in Task : \A e \in evidence'[u] : e.res \in Resource
      /\ \A u \in Task \ {t} : evidence'[u] \subseteq evidence[u]
      /\ EvidenceIsCurrent' /\ NoEvidenceUnderWrites'
  BY <1>3, <1>4, <1>7, <1>8, RecordsOK
<1>10. /\ client' = [u \in Task |-> client'[u]]
       /\ \A u \in Task \ {t} : client'[u] = client[u]
       /\ ClientOK(t)' /\ Sound(t)'
  BY <1>1, <1>2, GoesOn
<1>11. Shapes'
  BY <1>1, <1>2, <1>9, <1>10 DEF Shapes
<1>12. StepOf(t)
  BY <1>2, <1>5, <1>9, <1>10 DEF StepOf
<1> QED BY SMTT(40), <1>2, <1>5, <1>9, <1>10, <1>11, <1>12, StepOK

\* Writing changes the state of no resource that is clear of the writer's
\* writes in flight.
LEMMA WritesApartFromDisk ==
  ASSUME EInv, NEW t \in Task, Writes(t), NEW r \in Resource,
         \A q \in InFlight(db, t) : <<r, q>> \notin Overlap
  PROVE  StateOf(r)' = StateOf(r)
<1>1. /\ \A x \in File : disk'[x] # disk[x] => \E q \in DOMAIN client[t].obs : x \in Under[q]
      /\ DOMAIN client[t].obs \subseteq InFlight(db, t)
      /\ DOMAIN client[t].obs \in SUBSET Resource
  BY DEF Writes, EInv, Sound, ClientOK
<1>2. ASSUME NEW x \in Under[r]
      PROVE  disk'[x] = disk[x]
  <2>1. x \in File
    BY DEF File
  <2>2. \A q \in DOMAIN client[t].obs : x \notin Under[q]
    BY <1>1, UnderAssumption
  <2> QED BY <1>1, <2>1, <2>2
<1> QED BY <1>2 DEF StateOf

\* The client's own I/O: nobody else has a permit or evidence it would spoil.
LEMMA WritesOK ==
  ASSUME EInv, NEW t \in Task, Writes(t)
  PROVE  EInv'
<1>1. /\ IInv /\ Shapes /\ ClientOK(t) /\ Sound(t)
      /\ EvidenceIsCurrent /\ NoEvidenceUnderWrites
  BY DEF EInv
<1>2. /\ client[t].pc = "permitted" /\ client' = Moved(t, "written")
      /\ db' = db /\ resources' = resources /\ reads' = reads /\ evidence' = evidence
      /\ clock' = clock
  BY DEF Writes, StoreUnchanged
<1>3. /\ client' = [u \in Task |-> client'[u]]
      /\ \A u \in Task \ {t} : client'[u] = client[u]
      /\ client'[t] = [pc |-> "written", obs |-> client'[t].obs, offers |-> client'[t].offers]
      /\ client'[t].obs = client[t].obs
      /\ client'[t].pc = "written"
  BY SMTT(40), <1>1, <1>2, MovedFacts
<1>4. IInv' /\ Shapes' /\ EvidenceIsCurrent' /\ NoEvidenceUnderWrites'
  BY <1>1, <1>2, <1>3 DEF IInv, Shapes, EvidenceIsCurrent, NoEvidenceUnderWrites
<1>5. ClientOK(t)' /\ Sound(t)'
  BY <1>1, <1>2, <1>3 DEF ClientOK, Sound, InFlight
<1>6. ASSUME NEW u \in Task \ {t}
      PROVE  ClientOK(u)' /\ Sound(u)'
  <2>1. ClientOK(u) /\ Sound(u) /\ client'[u] = client[u]
    BY <1>3 DEF EInv
  <2>2. ClientOK(u)'
    BY <1>2, <2>1 DEF ClientOK
  <2>3. DOMAIN client[u].obs \in SUBSET Resource
    BY <2>1 DEF ClientOK
  <2>4. ASSUME NEW r \in DOMAIN client[u].obs, client[u].pc = "permitted"
        PROVE  client[u].obs[r] = StateOf(r)'
    <3>1. r \in InFlight(db, u) /\ client[u].obs[r] = StateOf(r)
      BY <2>1, <2>4 DEF Sound
    <3>2. \A q \in InFlight(db, t) : <<r, q>> \notin Overlap
      BY <3>1, WritesApart
    <3> QED BY SMTT(40), <2>3, <3>1, <3>2, WritesApartFromDisk
  <2>5. ASSUME NEW r \in DOMAIN client[u].obs, client[u].pc = "preparing",
               NEW e \in evidence[u], e.res = r
        PROVE  client[u].obs[r] = StateOf(r)'
    <3>1. client[u].obs[r] = StateOf(r)
      BY <2>1, <2>5 DEF Sound
    <3>2. \A q \in InFlight(db, t) : <<r, q>> \notin Overlap
      BY <1>1, <2>5 DEF NoEvidenceUnderWrites, InFlight
    <3> QED BY <2>3, <3>1, <3>2, WritesApartFromDisk
  <2>6. Sound(u)'
    BY SMTT(40), <1>2, <2>1, <2>4, <2>5 DEF Sound, InFlight
  <2> QED BY SMTT(40), <2>2, <2>6
<1>7. \A u \in Task : ClientOK(u)' /\ Sound(u)'
  BY <1>5, <1>6
<1> QED BY <1>4, <1>7 DEF EInv

\* The invariant holds initially.
LEMMA EInitOK == EInit => EInv
<1> SUFFICES ASSUME EInit PROVE EInv
  OBVIOUS
<1> DEFINE row == [status |-> "active", terminal |-> "none", expires |-> InactivityTimeout]
           T == [t \in Task |-> row]
<1>1. db = [EmptyTables EXCEPT !.tasks = T] /\ clock = 0
  BY DEF EInit
<1>2. row \in TaskRow
  BY BoundAssumption DEF TaskRow
<1>3. \A t \in Task : EmptyTables.tasks[t].status = "absent"
  BY DEF EmptyTables
<1>4. T \in [Task -> TaskRow] /\ \A t \in Task : T[t].status = "active"
  BY <1>2
<1> HIDE DEF T
<1>5. IInv
  BY <1>1, <1>3, <1>4, EmptyOK, TasksKeep DEF IInv
<1>6. /\ resources = [r \in Resource |-> [state |-> <<>>, gen |-> 0]]
      /\ reads = [t \in Task |-> NoRead] /\ evidence = [t \in Task |-> {}]
      /\ client = [t \in Task |-> Idle]
  BY DEF EInit
<1>7. Shapes
  BY <1>6 DEF Shapes
<1>8. ASSUME NEW t \in Task
      PROVE  ClientOK(t) /\ Sound(t)
  <2>1. client[t] = Idle /\ reads[t] = NoRead /\ DOMAIN <<>> = {} /\ <<>> = [r \in {} |-> <<>>[r]]
    <3>1. client[t] = Idle /\ reads[t] = NoRead
      BY <1>6
    <3>2. DOMAIN <<>> = {} /\ <<>> = [r \in {} |-> <<>>[r]]
      BY SMTT(40)
    <3> QED BY <3>1, <3>2
  <2>2. ClientOK(t)
    BY SMTT(40), <2>1 DEF ClientOK, Idle, NoRead
  <2>3. Sound(t)
    BY SMTT(40), <2>1 DEF Sound, Idle
  <2> QED BY <2>2, <2>3
<1>9. EvidenceIsCurrent /\ NoEvidenceUnderWrites
  BY <1>6 DEF EvidenceIsCurrent, NoEvidenceUnderWrites
<1> QED BY <1>5, <1>7, <1>8, <1>9 DEF EInv

\* Every step keeps the invariant.
LEMMA ENextOK == EInv /\ [ENext]_evars => EInv'
<1> SUFFICES ASSUME EInv, [ENext]_evars PROVE EInv'
  OBVIOUS
<1>1. CASE UNCHANGED evars
  <2>1. UNCHANGED <<db, clock, disk, resources, reads, evidence, client>>
    BY <1>1 DEF evars
  <2>2. IInv' /\ Shapes' /\ EvidenceIsCurrent' /\ NoEvidenceUnderWrites'
    BY <2>1 DEF EInv, IInv, Shapes, EvidenceIsCurrent, NoEvidenceUnderWrites
  <2>3. ASSUME NEW t \in Task
        PROVE  ClientOK(t)' /\ Sound(t)'
    <3>1. ClientOK(t) /\ Sound(t)
      BY DEF EInv
    <3>2. \A r : StateOf(r)' = StateOf(r)
      BY <2>1 DEF StateOf
    <3> QED BY <2>1, <3>1, <3>2 DEF ClientOK, Sound, InFlight
  <2> QED BY <2>2, <2>3 DEF EInv
<1>2. CASE ENext
  <2>1. PICK t \in Task :
          \/ Releases(t) \/ Abandons(t)
          \/ ObserveRead(t) \/ ReadStart(t) \/ ObserveReadEnd(t) \/ ReadFails(t) \/ ReadCompletes(t)
          \/ ObserveWrite(t) \/ Refused(t) \/ QueuesUp(t) \/ Activates(t) \/ Writes(t)
          \/ \E a \in Attempt : Permitted(t, a) \/ Reports(t, a)
    BY <1>2 DEF ENext
  <2> QED BY SMTT(40), <2>1, WithdrawingSteps, ObservingSteps, ReadStartOK, ReadCompletesOK, PermittedOK,
             ReportsOK, WritesOK
<1> QED BY <1>1, <1>2 DEF ENext

-----------------------------------------------------------------------------
(* Theorems *)

\* Valid evidence is evidence of the state on record, its generation included:
\* sync_observations and the report of a write revoke whatever they outdate, in
\* every task and through every overlapping resource.
THEOREM EvidenceStaysCurrent == ESpec => []EvidenceIsCurrent
<1>1. EInv => EvidenceIsCurrent
  BY DEF EInv
<1> QED BY <1>1, EInitOK, ENextOK, PTL DEF ESpec

\* While a write is in flight no other task holds valid evidence of anything it
\* may change: write.prepare revokes it, and insert_evidence grants none.
THEOREM NoEvidenceDuringWrites == ESpec => []NoEvidenceUnderWrites
<1>1. EInv => NoEvidenceUnderWrites
  BY DEF EInv
<1> QED BY <1>1, EInitOK, ENextOK, PTL DEF ESpec

\* A client that writes under a permit of write.prepare overwrites what it
\* observed and nothing newer, whoever wrote since its observation and however
\* late its commands reached the store.
THEOREM NoUpdateIsLost == ESpec => NoLostUpdate
<1> DEFINE Seen ==
      \A t \in Task : client[t].pc = "permitted" /\ client'[t].pc = "written" =>
        client[t].obs = Snapshot(DOMAIN client[t].obs)
<1>1. EInv => \A t \in Task : client[t].pc = "permitted" =>
                client[t].obs = Snapshot(DOMAIN client[t].obs)
  BY DEF EInv, ClientOK, Sound, Snapshot
<1>2. EInv /\ [ENext]_evars => [Seen]_evars
  BY <1>1
<1> QED BY <1>2, EInitOK, ENextOK, PTL DEF ESpec, NoLostUpdate, Seen

==============================================================================
