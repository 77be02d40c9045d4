-------------------------- MODULE LeaseStoreProofs ---------------------------
(*****************************************************************************)
(* The result of a write is recorded, and a batch that drains or has nothing *)
(* in flight is given back. Then the actions of LeaseStore keep the          *)
(* inductive invariant, and the theorems about its specification.            *)
(*****************************************************************************)
EXTENDS LeaseStore, LeaseTableProofs

(* The backend of a step that names none, and the time it may take. *)
USE ZenonT(40)

-----------------------------------------------------------------------------
(* Recording a result *)

\* The tables z after attempt a got its result in s.
Recorded(s, z, a, result) ==
  /\ TablesOK(z)
  /\ z.tasks = s.tasks /\ z.requests = s.requests /\ z.queueSeq = s.queueSeq
  /\ \A t \in Task :
       /\ z.leases[t].state = s.leases[t].state
       /\ z.leases[t].res = s.leases[t].res
       /\ z.leases[t].attempts = s.leases[t].attempts
       /\ \A r \in Resource :
            z.leases[t].slot[r] = IF s.leases[t].slot[r] = a THEN None ELSE s.leases[t].slot[r]
  /\ \A b \in Attempt \ {a} : z.attempts[b] = s.attempts[b]
  /\ z.attempts[a].status = result /\ z.attempts[a].task = s.attempts[a].task

\* Recording clears the markers of the attempt, in every lease.
LEMMA RecordedFacts ==
  ASSUME NEW s, TablesOK(s), NEW a \in Attempt, NEW result \in {"completed", "failed", "uncertain"},
         NEW z, z = RecordResult(s, a, result)
  PROVE  Recorded(s, z, a, result)
<1> DEFINE slot(t) == [r \in Resource |->
                         IF s.leases[t].slot[r] = a THEN None ELSE s.leases[t].slot[r]]
           L == [t \in Task |-> [s.leases[t] EXCEPT !.slot = slot(t)]]
           A == [s.attempts EXCEPT ![a].status = result]
           x == [s EXCEPT !.attempts = A]
<1>1. \A t \in Task : s.leases[t] \in LeaseRow /\ (s.leases[t].state # "none" \/ s.leases[t] = NoLease)
  BY DEF TablesOK, Leased
<1>2. z = [x EXCEPT !.leases = L]
  BY DEF RecordResult, TablesOK
<1>3. ASSUME NEW t \in Task
      PROVE  /\ L[t] \in LeaseRow
             /\ L[t].state = s.leases[t].state /\ L[t].res = s.leases[t].res
             /\ L[t].attempts = s.leases[t].attempts
             /\ L[t].slot = slot(t)
             /\ L[t].state # "none" \/ L[t] = NoLease
  <2>1. slot(t) \in [Resource -> Attempt \cup {None}]
    BY <1>1 DEF LeaseRow
  <2>2. L[t] = [s.leases[t] EXCEPT !.slot = slot(t)]
    OBVIOUS
  <2>3. s.leases[t] = NoLease => slot(t) = NoLease.slot
    BY NoneAssumption DEF NoLease
  <2> HIDE DEF L, slot
  <2>4. /\ L[t] \in LeaseRow
        /\ L[t].state = s.leases[t].state /\ L[t].res = s.leases[t].res
        /\ L[t].attempts = s.leases[t].attempts
        /\ L[t].slot = slot(t)
    BY <1>1, <2>1, <2>2 DEF LeaseRow
  <2>5. CASE s.leases[t] = NoLease
    <3>1. L[t] = [NoLease EXCEPT !.slot = NoLease.slot]
      BY <2>2, <2>3, <2>5
    <3>2. L[t] = NoLease
      BY <3>1 DEF NoLease
    <3> QED BY <2>4, <3>2
  <2> QED BY <1>1, <2>4, <2>5
<1>4. L \in [Task -> LeaseRow]
  BY <1>3
<1>5. \A t \in Task, r \in Resource :
        slot(t)[r] = IF s.leases[t].slot[r] = a THEN None ELSE s.leases[t].slot[r]
  OBVIOUS
<1>6. /\ A \in [Attempt -> AttemptRow]
      /\ A[a].status = result /\ A[a].task = s.attempts[a].task
      /\ \A b \in Attempt \ {a} : A[b] = s.attempts[b]
  BY SMTT(40) DEF TablesOK, AttemptRow
<1> HIDE DEF L, A, slot
<1>7. /\ TablesOK(x) /\ x.attempts = A /\ x.tasks = s.tasks /\ x.requests = s.requests
      /\ x.queueSeq = s.queueSeq /\ x.leases = s.leases
  BY <1>6 DEF TablesOK, Leased
<1> HIDE DEF x
<1>8. /\ TablesOK(z) /\ z.leases = L /\ z.tasks = x.tasks /\ z.requests = x.requests
      /\ z.queueSeq = x.queueSeq /\ z.attempts = x.attempts
  <2>1. \A t \in Task : L[t].state # "none" \/ L[t] = NoLease
    BY <1>3
  <2> QED BY SMTT(40), <1>2, <1>4, <1>7, <2>1, WithLeases
<1> QED BY SMTT(40), <1>3, <1>5, <1>6, <1>7, <1>8 DEF Recorded

\* Recording a result keeps the invariant, if the lease of an uncertain write
\* drains already.
LEMMA RecordKeeps ==
  ASSUME NEW s, Inv(s), NEW t \in Task, NEW a \in Attempt,
         NEW result \in {"completed", "failed", "uncertain"},
         s.attempts[a].task = t, s.attempts[a].status = "executing",
         result = "uncertain" => s.leases[t].state = "draining",
         NEW z, Recorded(s, z, a, result)
  PROVE  Inv(z)
<1>0. TablesOK(s)
  BY DEF Inv
<1>1. /\ TablesOK(z)
      /\ z.tasks = s.tasks /\ z.requests = s.requests /\ z.queueSeq = s.queueSeq
      /\ \A u \in Task :
           /\ z.leases[u].state = s.leases[u].state
           /\ z.leases[u].res = s.leases[u].res
           /\ z.leases[u].attempts = s.leases[u].attempts
           /\ \A r \in Resource :
                z.leases[u].slot[r] = IF s.leases[u].slot[r] = a THEN None ELSE s.leases[u].slot[r]
      /\ \A b \in Attempt \ {a} : z.attempts[b] = s.attempts[b]
      /\ z.attempts[a].status = result /\ z.attempts[a].task = t
  BY DEF Recorded
<1>2. Shrinks(s, z)
  BY <1>1 DEF Shrinks, Leased
<1>3. EndsTasks(s, z)
  BY SMTT(40), <1>1 DEF EndsTasks, Active, Inv, DrainsSafely, Leased
<1>4. Exclusive(z) /\ OnePerAgent(z) /\ Ordered(z) /\ OnePerTask(z)
  BY <1>0, <1>1, <1>2, <1>3, ShrinkKeepsClaims, ShrinkKeepsPending DEF Inv
<1>5. Covered(z)
  <2>1. ASSUME NEW b \in Attempt, z.attempts[b].status = "executing"
        PROVE  \E u \in Task : RunsUnder(z, b, u)
    <3>1. b # a /\ z.attempts[b] = s.attempts[b]
      BY <1>1, <2>1
    <3>2. PICK u \in Task : RunsUnder(s, b, u)
      BY <2>1, <3>1 DEF Inv, Covered
    <3>3. s.attempts[b].res \subseteq Resource
      BY <1>0, RowFacts DEF AttemptRow
    <3>4. \A r \in s.attempts[b].res : r \in z.leases[u].res /\ z.leases[u].slot[r] = b
      BY SMTT(40), <1>1, <3>1, <3>2, <3>3 DEF RunsUnder
    <3>5. RunsUnder(z, b, u)
      BY <1>1, <3>1, <3>2, <3>4 DEF RunsUnder
    <3> QED BY <3>5
  <2>2. ASSUME NEW u \in Task, NEW r \in Resource, NEW b \in Attempt, z.leases[u].slot[r] = b
        PROVE  z.attempts[b].status = "executing" /\ z.attempts[b].task = u /\ r \in z.attempts[b].res
    <3>1. b # a /\ s.leases[u].slot[r] = b
      BY SMTT(40), <1>1, <2>2, NoneAssumption
    <3> QED BY SMTT(40), <1>1, <3>1 DEF Inv, Covered
  <2>3. ASSUME NEW u \in Task, NEW b \in z.leases[u].attempts
        PROVE  z.attempts[b].task = u /\ z.attempts[b].status # "unused"
    <3>1. b \in s.leases[u].attempts /\ b \in Attempt
      BY <1>0, <1>1, RowFacts DEF LeaseRow
    <3>2. s.attempts[b].task = u /\ s.attempts[b].status # "unused"
      BY <3>1 DEF Inv, Covered
    <3> QED BY SMTT(40), <1>1, <3>1, <3>2
  <2> QED BY SMTT(40), <2>1, <2>2, <2>3 DEF Covered
<1>6. DrainsSafely(z)
  <2>1. ASSUME NEW u \in Task, NEW b \in z.leases[u].attempts, z.attempts[b].status = "uncertain"
        PROVE  z.leases[u].state = "draining"
    <3>1. b \in s.leases[u].attempts /\ b \in Attempt
      BY <1>0, <1>1, <2>1, RowFacts DEF LeaseRow
    <3>2. CASE b = a
      <4>1. u = t
        BY <3>1, <3>2 DEF Inv, Covered
      <4> QED BY <1>1, <2>1, <3>2, <4>1
    <3>3. CASE b # a
      BY SMTT(40), <1>1, <2>1, <3>1, <3>3 DEF Inv, DrainsSafely
    <3> QED BY <3>2, <3>3
  <2> QED BY SMTT(40), <1>1, <2>1 DEF Inv, DrainsSafely, Leased
<1> QED BY <1>1, <1>4, <1>5, <1>6 DEF Inv

\* One lease drains, nothing else changes.
LEMMA DrainFacts ==
  ASSUME NEW s, TablesOK(s), NEW t \in Task
  PROVE  LET z == Drain(s, t)
         IN /\ TablesOK(z)
            /\ z.tasks = s.tasks /\ z.requests = s.requests
            /\ z.queueSeq = s.queueSeq /\ z.attempts = s.attempts
            /\ z.leases[t] = Drained(s.leases[t])
            /\ \A u \in Task \ {t} : z.leases[u] = s.leases[u]
<1> DEFINE L == [s.leases EXCEPT ![t] = Drained(s.leases[t])]
           z == [s EXCEPT !.leases = L]
<1>1. Drain(s, t) = z
  BY DEF Drain, TablesOK
<1>2. L[t] = Drained(s.leases[t]) /\ \A u \in Task \ {t} : L[u] = s.leases[u]
  BY DEF TablesOK
<1>3. \A u \in Task : L[u] \in LeaseRow /\ (L[u].state # "none" \/ L[u] = NoLease)
  BY <1>2, YieldedLease
<1>4. L \in [Task -> LeaseRow]
  BY <1>3 DEF TablesOK
<1> HIDE DEF L, z
<1>5. /\ TablesOK(z) /\ z.leases = L /\ z.tasks = s.tasks /\ z.requests = s.requests
      /\ z.queueSeq = s.queueSeq /\ z.attempts = s.attempts
  BY SMTT(40), <1>3, <1>4, WithLeases DEF z
<1> QED BY <1>1, <1>2, <1>5

\* Draining keeps every resource and every lease.
LEMMA DrainKeepsNothing ==
  ASSUME NEW s, Inv(s), NothingToPromote(s), NEW t \in Task
  PROVE  NothingToPromote(Drain(s, t))
<1> DEFINE z == Drain(s, t)
<1>1. /\ TablesOK(z) /\ z.requests = s.requests /\ z.queueSeq = s.queueSeq
      /\ z.leases[t] = Drained(s.leases[t])
      /\ \A u \in Task \ {t} : z.leases[u] = s.leases[u]
  BY DrainFacts DEF Inv
<1> HIDE DEF z
<1>2. s.leases[t] \in LeaseRow
  BY RowFacts DEF Inv
<1>3. s.leases[t].res \subseteq z.leases[t].res /\ (Leased(s, t) => Leased(z, t))
  BY <1>1, <1>2, DrainedFacts DEF Leased
<1>4. \A u \in Task : s.leases[u].res \subseteq z.leases[u].res /\ (Leased(s, u) => Leased(z, u))
  BY <1>1, <1>3 DEF Leased
<1>5. NothingToPromote(z)
  BY <1>1, <1>4, NothingKept DEF Queued, Offered, Requests
<1> QED BY <1>5 DEF z

\* An executing attempt belongs to the lease of its task.
LEMMA ExecutingUnderLease ==
  ASSUME NEW s, Inv(s), NEW t \in Task, NEW a \in Attempt,
         s.attempts[a].task = t, s.attempts[a].status = "executing"
  PROVE  a \in s.leases[t].attempts /\ Leased(s, t)
<1>1. PICK u \in Task : RunsUnder(s, a, u)
  BY DEF Inv, Covered
<1>2. a \in s.leases[t].attempts
  BY <1>1 DEF RunsUnder
<1> QED BY <1>2, NoLeaseFacts DEF Inv, TablesOK

\* What a result does to its batch keeps the invariant.
LEMMA BatchKeeps ==
  ASSUME NEW s, Inv(s), NEW t \in Task, NEW a \in Attempt,
         NEW result \in {"completed", "failed", "uncertain"},
         s.attempts[a].task = t, s.attempts[a].status = "executing"
  PROVE  Inv(SettleBatch(RecordResult(s, a, result), t, a, result))
<1> DEFINE b == RecordResult(s, a, result)
<1>0. TablesOK(s) /\ s.leases[t] \in LeaseRow
  BY RowFacts DEF Inv
<1>1. Recorded(s, b, a, result)
  BY <1>0, RecordedFacts
<1> HIDE DEF b
<1>2. a \in s.leases[t].attempts /\ Leased(s, t)
  BY ExecutingUnderLease
<1>3. a \in b.leases[t].attempts /\ TablesOK(b)
  BY <1>1, <1>2 DEF Recorded
<1>4. CASE result = "uncertain"
  <2> DEFINE d == Drain(s, t)
             y == Drain(b, t)
  <2>1. /\ TablesOK(d) /\ Inv(d)
        /\ d.tasks = s.tasks /\ d.requests = s.requests
        /\ d.queueSeq = s.queueSeq /\ d.attempts = s.attempts
        /\ d.leases[t] = Drained(s.leases[t])
        /\ \A u \in Task \ {t} : d.leases[u] = s.leases[u]
    BY SMTT(40), <1>0, DrainFacts, DrainKeeps
  <2>2. /\ TablesOK(y)
        /\ y.tasks = b.tasks /\ y.requests = b.requests
        /\ y.queueSeq = b.queueSeq /\ y.attempts = b.attempts
        /\ y.leases[t] = Drained(b.leases[t])
        /\ \A u \in Task \ {t} : y.leases[u] = b.leases[u]
    BY SMTT(40), <1>3, DrainFacts
  <2> HIDE DEF d, y
  <2>3. b.leases[t] \in LeaseRow
    BY <1>3, RowFacts
  <2>4. /\ d.leases[t].state = "draining" /\ d.leases[t].res = s.leases[t].res
        /\ d.leases[t].attempts = s.leases[t].attempts /\ d.leases[t].slot = s.leases[t].slot
    BY SMTT(40), <1>0, <1>2, <2>1, DrainedFacts DEF Leased
  <2>5. /\ y.leases[t].state = "draining" /\ y.leases[t].res = b.leases[t].res
        /\ y.leases[t].attempts = b.leases[t].attempts /\ y.leases[t].slot = b.leases[t].slot
    BY SMTT(40), <1>1, <1>2, <2>2, <2>3, DrainedFacts DEF Leased, Recorded
  <2>6. Recorded(d, y, a, result)
    <3>1. ASSUME NEW u \in Task
          PROVE  /\ y.leases[u].state = d.leases[u].state
                 /\ y.leases[u].res = d.leases[u].res
                 /\ y.leases[u].attempts = d.leases[u].attempts
                 /\ \A r \in Resource : y.leases[u].slot[r] =
                      IF d.leases[u].slot[r] = a THEN None ELSE d.leases[u].slot[r]
      <4>1. /\ b.leases[u].state = s.leases[u].state
            /\ b.leases[u].res = s.leases[u].res
            /\ b.leases[u].attempts = s.leases[u].attempts
            /\ \A r \in Resource : b.leases[u].slot[r] =
                 IF s.leases[u].slot[r] = a THEN None ELSE s.leases[u].slot[r]
        BY <1>1 DEF Recorded
      <4>2. CASE u = t
        <5>1. y.leases[u].slot = b.leases[u].slot /\ d.leases[u].slot = s.leases[u].slot
          BY <2>4, <2>5, <4>2
        <5>2. \A r \in Resource : y.leases[u].slot[r] =
                IF d.leases[u].slot[r] = a THEN None ELSE d.leases[u].slot[r]
          BY <4>1, <5>1
        <5>3. /\ y.leases[u].state = d.leases[u].state
              /\ y.leases[u].res = d.leases[u].res
              /\ y.leases[u].attempts = d.leases[u].attempts
          BY <2>4, <2>5, <4>1, <4>2
        <5> QED BY <5>2, <5>3
      <4>3. CASE u # t
        BY SMTT(40), <2>1, <2>2, <4>1, <4>3
      <4> QED BY <4>2, <4>3
    <3>2. /\ y.tasks = d.tasks /\ y.requests = d.requests /\ y.queueSeq = d.queueSeq
          /\ \A c \in Attempt \ {a} : y.attempts[c] = d.attempts[c]
          /\ y.attempts[a].status = result /\ y.attempts[a].task = d.attempts[a].task
      BY SMTT(40), <1>1, <2>1, <2>2 DEF Recorded
    <3> QED BY <2>2, <3>1, <3>2 DEF Recorded
  <2>7. Inv(y)
    BY <2>1, <2>4, <2>6, RecordKeeps
  <2> QED BY <1>3, <1>4, <2>7 DEF SettleBatch, b, y
<1>5. CASE result # "uncertain"
  <2>1. Inv(b)
    BY <1>1, <1>5, RecordKeeps
  <2>2. InFlightSlots(b.leases[t]) = {} => Inv(ReleaseAllTaskLeases(b, t))
    BY <2>1, NoSlotNoExecuting, ReleaseKeeps
  <2> QED BY <1>5, <2>1, <2>2 DEF SettleBatch, b
<1> QED BY <1>4, <1>5

\* A draining task with nothing in flight ends.
LEMMA FinishKeeps ==
  ASSUME NEW s, Inv(s), NEW t \in Task
  PROVE  Inv(FinishDrainingTask(s, t))
<1> SUFFICES ASSUME MayFinishDraining(s, t)
             PROVE  Inv(FinishDrainingTask(s, t))
  BY DEF FinishDrainingTask
<1> DEFINE b == ReleaseAllTaskLeases(s, t)
           T == [s.tasks EXCEPT ![t].status = s.tasks[t].terminal]
           z == [b EXCEPT !.tasks = T]
<1>1. s.tasks[t].status = "draining" /\ s.tasks[t].terminal # "none" /\ ~TaskInFlight(s, t)
  BY DEF MayFinishDraining
<1>2. Inv(b)
  BY <1>1, IdleNoExecuting, ReleaseKeeps
<1>3. /\ b.tasks = s.tasks /\ b.leases[t] = NoLease /\ TablesOK(b)
      /\ b.queueSeq = s.queueSeq /\ b.requests = s.requests /\ b.attempts = s.attempts
  <2>1. TablesOK(b)
    BY <1>2 DEF Inv
  <2> QED BY <2>1 DEF ReleaseAllTaskLeases, Inv, TablesOK
<1>4. T \in [Task -> TaskRow] /\ T[t].status \in TerminalStatus
      /\ \A u \in Task \ {t} : T[u] = s.tasks[u]
  <2>1. s.tasks \in [Task -> TaskRow]
    BY DEF Inv, TablesOK
  <2> QED BY <1>1, <2>1 DEF TaskRow, TerminalStatus
<1>5. FinishDrainingTask(s, t) = z
  <2>1. FinishDrainingTask(s, t) = [b EXCEPT !.tasks[t].status = s.tasks[t].terminal]
    BY DEF FinishDrainingTask
  <2> HIDE DEF b
  <2> QED BY <1>3, <2>1 DEF TablesOK
<1> HIDE DEF b, T, z
<1>6. /\ TablesOK(z) /\ z.tasks = T /\ z.leases = b.leases /\ z.requests = b.requests
      /\ z.queueSeq = b.queueSeq /\ z.attempts = b.attempts
  BY SMTT(40), <1>3, <1>4, WithTasks DEF z
<1>7. Shrinks(b, z) /\ Yields(b, z)
  BY <1>6 DEF Shrinks, Yields, Leased
<1>8. EndsTasks(b, z)
  <2> SUFFICES ASSUME NEW u \in Task
               PROVE  /\ Active(b, u) /\ ~Active(z, u) => PendingTaskRequest(z, u) = {}
                      /\ z.tasks[u].status \notin {"active", "draining"} => ~Leased(z, u)
                      /\ z.tasks[u].status = "draining" => z.leases[u].state # "active"
    BY DEF EndsTasks
  <2>1. CASE u = t
    BY <1>1, <1>3, <1>4, <1>6, <2>1, NoLeaseFacts DEF Active, Leased
  <2>2. CASE u # t
    BY SMTT(40), <1>2, <1>3, <1>4, <1>6, <2>2 DEF Active, Leased, Inv, DrainsSafely
  <2> QED BY <2>1, <2>2
<1> QED BY <1>2, <1>5, <1>6, <1>7, <1>8, GivingBack

\* write.complete leaves nothing to promote when it gave nothing back.
LEMMA UnreleasedKeepsNothing ==
  ASSUME NEW s, Inv(s), NothingToPromote(s), NEW t \in Task, NEW a \in Attempt,
         NEW result \in {"completed", "failed", "uncertain"},
         s.attempts[a].task = t, s.attempts[a].status = "executing",
         ~Released(s, t, a, result)
  PROVE  NothingToPromote(Completed(s, t, a, result))
<1> DEFINE b == RecordResult(s, a, result)
           y == SettleBatch(b, t, a, result)
<1>0. TablesOK(s)
  BY DEF Inv
<1>1. Recorded(s, b, a, result)
  BY <1>0, RecordedFacts
<1>2. ~(Leased(s, t) /\ ~Leased(y, t)) /\ ~MayFinishDraining(y, t)
  BY DEF Released
<1>3. Completed(s, t, a, result) = y
  BY <1>2 DEF Completed, FinishDrainingTask
<1> HIDE DEF b
<1>4. a \in s.leases[t].attempts /\ Leased(s, t)
  BY ExecutingUnderLease
<1>5. a \in b.leases[t].attempts /\ TablesOK(b)
  BY <1>1, <1>4 DEF Recorded
<1>6. y = Drain(b, t) \/ y = b
  <2>1. ReleaseAllTaskLeases(b, t).leases[t] = NoLease
    BY <1>5 DEF ReleaseAllTaskLeases, TablesOK
  <2>2. y # ReleaseAllTaskLeases(b, t)
    BY <1>2, <1>4, <2>1, NoLeaseFacts DEF Leased
  <2> QED BY <2>2 DEF SettleBatch
<1> HIDE DEF y
<1>7. /\ y.requests = b.requests /\ y.queueSeq = b.queueSeq
      /\ \A u \in Task : y.leases[u].res = b.leases[u].res /\ (Leased(b, u) => Leased(y, u))
  <2>1. CASE y = b
    BY <2>1
  <2>2. CASE y = Drain(b, t)
    <3>1. /\ y.requests = b.requests /\ y.queueSeq = b.queueSeq
          /\ y.leases[t] = Drained(b.leases[t])
          /\ \A u \in Task \ {t} : y.leases[u] = b.leases[u]
      BY SMTT(40), <1>5, <2>2, DrainFacts
    <3>2. b.leases[t] \in LeaseRow
      BY <1>5, RowFacts
    <3>3. y.leases[t].res = b.leases[t].res /\ (Leased(b, t) => Leased(y, t))
      BY SMTT(40), <3>1, <3>2, DrainedFacts DEF Leased
    <3> QED BY <3>1, <3>3 DEF Leased
  <2> QED BY <1>6, <2>1, <2>2
<1>8. /\ y.requests = s.requests /\ y.queueSeq = s.queueSeq
      /\ \A u \in Task : s.leases[u].res \subseteq y.leases[u].res /\ (Leased(s, u) => Leased(y, u))
  BY SMTT(40), <1>1, <1>7 DEF Recorded, Leased
<1>9. NothingToPromote(y)
  BY <1>8, NothingKept DEF Queued, Offered, Requests
<1> QED BY <1>3, <1>9

-----------------------------------------------------------------------------
(* The commands *)

\* What a command finds after its preamble.
LEMMA AcceptedKeeps ==
  ASSUME Inv(db), NEW now \in Nat, NEW s \in AcceptedCommand(now)
  PROVE  Inv(s) /\ NothingToPromote(s) /\ GivesBack(db, s)
<1> DEFINE e == ExpireTasksAndLeases(db, now)
<1>1. Inv(e) /\ GivesBack(db, e)
  BY ExpireKeeps
<1>2. s \in PromoteWaiters(e, now)
  BY DEF AcceptedCommand
<1> HIDE DEF e
<1>3. /\ Inv(s) /\ NothingToPromote(s)
      /\ s.tasks = e.tasks /\ s.leases = e.leases /\ s.attempts = e.attempts
      /\ s.queueSeq = e.queueSeq
      /\ \A q \in Requests(e) : s.requests[q].task = e.requests[q].task
  BY <1>1, <1>2, PromoteKeeps, PromoteFrame
<1> QED BY <1>1, <1>3 DEF GivesBack, Active, Requests

\* The inductive invariant of Spec.
IInv == Inv(db) /\ NothingToPromote(db) /\ clock \in Nat

\* Times are natural numbers.
LEMMA Times ==
  ASSUME clock \in Nat, NEW now \in Observed
  PROVE  /\ now \in Nat
         /\ Window(now, InactivityTimeout) \subseteq Nat
         /\ Window(now, LeaseExpiry) \subseteq Nat
         /\ Window(now, AttemptWindow) \subseteq Nat
         /\ Window(now, OfferTtl) \subseteq Nat
  BY SMTT(40), BoundAssumption, OfferTtlAssumption DEF Observed, Window

\* The empty database satisfies the invariant.
LEMMA EmptyOK == Inv(EmptyTables) /\ NothingToPromote(EmptyTables)
<1> DEFINE s == EmptyTables
           absent == [status |-> "absent", terminal |-> "none", expires |-> 0]
           unused == [task |-> None, res |-> {}, deadline |-> 0, status |-> "unused"]
<1>1. absent \in TaskRow /\ unused \in AttemptRow
  BY DEF TaskRow, AttemptRow
<1>2. /\ s.tasks = [t \in Task |-> absent] /\ s.leases = [t \in Task |-> NoLease]
      /\ s.queueSeq = 0 /\ s.attempts = [a \in Attempt |-> unused]
      /\ s.requests = [q \in 1..0 |-> 0]
  BY DEF EmptyTables
<1>3. TablesOK(s)
  <2>1. s.requests \in [1..s.queueSeq -> RequestRow]
    BY SMTT(40), <1>2
  <2>2. s \in [tasks : [Task -> TaskRow], leases : [Task -> LeaseRow], queueSeq : Nat,
               requests : [1..s.queueSeq -> RequestRow], attempts : [Attempt -> AttemptRow]]
    BY <1>1, <1>2, <2>1, NoLeaseFacts DEF EmptyTables
  <2> QED BY <1>2, <2>2 DEF TablesOK
<1>4. Queued(s) = {} /\ Offered(s) = {}
  BY SMTT(40), <1>2 DEF Queued, Offered, Requests
<1> HIDE DEF s
<1>5. \A t \in Task : s.leases[t] = NoLease /\ s.tasks[t].status = "absent"
  <2>1. absent.status = "absent"
    OBVIOUS
  <2> HIDE DEF absent
  <2>2. \A t \in Task : s.tasks[t] = absent /\ s.leases[t] = NoLease
    BY <1>2
  <2> QED BY <2>1, <2>2
<1>6. \A a \in Attempt : s.attempts[a].status = "unused"
  BY SMTT(40), <1>2
<1>7. Exclusive(s) /\ OnePerAgent(s) /\ OnePerTask(s) /\ Ordered(s) /\ NothingToPromote(s)
  BY <1>4, <1>5, NoLeaseFacts
     DEF Exclusive, OnePerAgent, OnePerTask, Ordered, NothingToPromote, Overlapping, Leased
<1>8. Covered(s) /\ DrainsSafely(s)
  BY SMTT(40), <1>5, <1>6, NoLeaseFacts, NoneAssumption DEF Covered, DrainsSafely, Leased
<1> QED BY <1>3, <1>7, <1>8 DEF Inv, s

\* The initial state satisfies the invariant.
LEMMA InitOK == Init => IInv
  BY SMTT(40), EmptyOK DEF Init, IInv

\* Starting or renewing a task keeps the invariant.
LEMMA TaskStepOK ==
  ASSUME IInv, NEW t \in Task, TaskStart(t) \/ TaskHeartbeat(t)
  PROVE  IInv'
<1>1. PICK now, s, e :
        /\ now \in Observed /\ s \in AcceptedCommand(now) /\ e \in Window(now, InactivityTimeout)
        /\ clock' = clock
        /\ \/ /\ s.tasks[t].status = "absent"
              /\ db' = [s EXCEPT !.tasks[t] =
                          [status |-> "active", terminal |-> "none", expires |-> e]]
           \/ Active(s, t) /\ db' = [s EXCEPT !.tasks[t].expires = e]
  BY SMTT(40) DEF TaskStart, TaskHeartbeat
<1>2. e \in Nat /\ Inv(s) /\ NothingToPromote(s)
  BY <1>1, Times, AcceptedKeeps DEF IInv
<1>3. s.tasks \in [Task -> TaskRow] /\ TablesOK(s)
  BY <1>2 DEF Inv, TablesOK
<1>4. CASE /\ s.tasks[t].status = "absent"
           /\ db' = [s EXCEPT !.tasks[t] =
                       [status |-> "active", terminal |-> "none", expires |-> e]]
  <2> DEFINE row == [status |-> "active", terminal |-> "none", expires |-> e]
             T == [s.tasks EXCEPT ![t] = row]
  <2>1. row \in TaskRow /\ row.status = "active"
    BY <1>2 DEF TaskRow
  <2>2. db' = [s EXCEPT !.tasks = T]
    BY <1>3, <1>4 DEF TablesOK
  <2> HIDE DEF row
  <2>3. /\ T \in [Task -> TaskRow]
        /\ \A u \in Task : \/ T[u].status = s.tasks[u].status
                           \/ s.tasks[u].status = "absent" /\ T[u].status = "active"
    BY <1>3, <1>4, <2>1
  <2> HIDE DEF T
  <2> QED BY <1>1, <1>2, <2>2, <2>3, TasksKeep DEF IInv
<1>5. CASE Active(s, t) /\ db' = [s EXCEPT !.tasks[t].expires = e]
  <2> DEFINE T == [s.tasks EXCEPT ![t].expires = e]
  <2>1. db' = [s EXCEPT !.tasks = T]
    BY <1>3, <1>5 DEF TablesOK
  <2>2. /\ T \in [Task -> TaskRow]
        /\ \A u \in Task : T[u].status = s.tasks[u].status
    BY <1>2, <1>3 DEF TaskRow
  <2> HIDE DEF T
  <2> QED BY <1>1, <1>2, <2>1, <2>2, TasksKeep DEF IInv
<1> QED BY <1>1, <1>4, <1>5

\* Ending a task keeps the invariant, at once or deferred.
LEMMA TaskEndOK ==
  ASSUME IInv, NEW t \in Task, TaskEnd(t) \/ TaskEndDeferred(t)
  PROVE  IInv'
<1>1. CASE TaskEnd(t)
  <2>1. PICK now, s, terminal :
          /\ now \in Observed /\ s \in AcceptedCommand(now) /\ terminal \in {"completed", "cancelled"}
          /\ ~TaskInFlight(EndingTask(s, t, terminal), t)
          /\ db' \in PromoteWaiters(
               [ReleaseAllTaskLeases(EndingTask(s, t, terminal), t) EXCEPT
                  !.tasks[t].status = terminal], now)
          /\ clock' = clock
    BY <1>1 DEF TaskEnd
  <2>2. now \in Nat /\ Inv(s) /\ terminal \in TerminalStatus
    BY <2>1, Times, AcceptedKeeps DEF IInv, TerminalStatus
  <2>3. Inv([ReleaseAllTaskLeases(EndingTask(s, t, terminal), t) EXCEPT
               !.tasks[t].status = terminal])
    BY <2>1, <2>2, EndKeeps
  <2> QED BY <2>1, <2>2, <2>3, PromoteKeeps DEF IInv
<1>2. CASE TaskEndDeferred(t)
  <2>1. PICK now, s, terminal :
          /\ now \in Observed /\ s \in AcceptedCommand(now) /\ terminal \in {"completed", "cancelled"}
          /\ TaskInFlight(EndingTask(s, t, terminal), t)
          /\ db' = Drain(EndingTask(s, t, terminal), t)
          /\ clock' = clock
    BY <1>2 DEF TaskEndDeferred
  <2>2. now \in Nat /\ Inv(s) /\ NothingToPromote(s) /\ terminal \in TerminalStatus
    BY <2>1, Times, AcceptedKeeps DEF IInv, TerminalStatus
  <2> QED BY <2>1, <2>2, EndDeferredKeeps DEF IInv
<1> QED BY <1>1, <1>2

\* A command that only runs its preamble keeps the invariant.
LEMMA PreambleOK ==
  ASSUME IInv, NEW t \in Task, NoTableChange(t) \/ PrepareRefused(t)
  PROVE  IInv'
<1>1. PICK now, s : now \in Observed /\ s \in AcceptedCommand(now) /\ db' = s /\ clock' = clock
  BY DEF NoTableChange, PrepareRefused
<1> QED BY <1>1, Times, AcceptedKeeps DEF IInv

\* The resources a write has to hold are resources.
LEMMA UnionInResource ==
  ASSUME NEW s, TablesOK(s), NEW t \in Task, NEW res \in SUBSET Resource
  PROVE  UnionResources(s, t, res) \in SUBSET Resource
<1>1. \A q \in PendingTaskRequest(s, t) : s.requests[q].res \in SUBSET Resource
  BY RowFacts DEF PendingTaskRequest, Queued, Offered, RequestRow
<1>2. UNION {s.requests[q].res : q \in PendingTaskRequest(s, t)} \in SUBSET Resource
  BY <1>1
<1>3. s.leases[t].res \in SUBSET Resource
  BY RowFacts DEF LeaseRow
<1> QED BY <1>2, <1>3 DEF UnionResources

\* Queueing keeps the invariant: the task gives its lease back before.
LEMMA PrepareQueuedOK ==
  ASSUME IInv, NEW t \in Task, PrepareQueued(t)
  PROVE  IInv'
<1>1. PICK now, s, res, e, y :
        /\ now \in Observed /\ s \in AcceptedCommand(now)
        /\ res \in WriteSets /\ e \in Window(now, OfferTtl)
        /\ Active(s, t) /\ InFlightSlots(s.leases[t]) = {}
        /\ y \in Yielded(s, t, now)
        /\ db' \in PromoteWaiters(EnqueueRequest(y, t, UnionResources(s, t, res), e), now)
        /\ clock' = clock
  BY DEF PrepareQueued
<1>2. now \in Nat /\ e \in Nat /\ Inv(s)
  BY <1>1, Times, AcceptedKeeps DEF IInv
<1>3. UnionResources(s, t, res) \in SUBSET Resource
  BY <1>1, <1>2, BoundAssumption, UnionInResource DEF Inv
<1>4. Inv(y) /\ Active(y, t) /\ ~Leased(y, t)
  <2>1. CASE Leased(s, t)
    <3> DEFINE b == ReleaseAllTaskLeases(s, t)
    <3>1. Inv(b)
      BY <1>1, <1>2, NoSlotNoExecuting, ReleaseKeeps
    <3>2. b.leases[t] = NoLease /\ b.tasks = s.tasks
      BY <1>2 DEF ReleaseAllTaskLeases, Inv, TablesOK
    <3>3. y \in PromoteWaiters(b, now)
      BY <1>1, <2>1 DEF Yielded
    <3> HIDE DEF b
    <3>4. y.tasks = b.tasks /\ y.leases = b.leases
      BY <1>2, <3>1, <3>3, PromoteFrame
    <3>5. Inv(y)
      BY <1>2, <3>1, <3>3, PromoteKeeps
    <3> QED BY <1>1, <3>2, <3>4, <3>5, NoLeaseFacts DEF Active, Leased
  <2>2. CASE ~Leased(s, t)
    BY <1>1, <1>2, <2>2 DEF Yielded
  <2> QED BY <2>1, <2>2
<1>5. Inv(EnqueueRequest(y, t, UnionResources(s, t, res), e))
  BY <1>2, <1>3, <1>4, EnqueueKeeps
<1> QED BY <1>1, <1>2, <1>5, PromoteKeeps DEF IInv

\* Preparing a write keeps the invariant.
LEMMA PrepareReadyOK ==
  ASSUME IInv, NEW t \in Task, NEW a \in Attempt, PrepareReady(t, a)
  PROVE  IInv'
<1>1. PICK now, s, res, e, deadline, all :
        /\ now \in Observed /\ s \in AcceptedCommand(now)
        /\ res \in WriteSets /\ e \in Window(now, LeaseExpiry)
        /\ deadline \in Window(now, AttemptWindow)
        /\ all = UnionResources(s, t, res)
        /\ Active(s, t) /\ ~Contended(s, t, res) /\ MayEnsureLease(s, t, all, now)
        /\ \A r \in res : s.leases[t].slot[r] = None
        /\ s.attempts[a].status = "unused"
        /\ db' = PrepareWriteAttempt(EnsureActiveLease(s, t, all, e), t, a, res, deadline)
        /\ clock' = clock
  BY SMTT(40) DEF PrepareReady
<1>2. Inv(s) /\ NothingToPromote(s) /\ e \in Nat /\ deadline \in Nat
  BY <1>1, Times, AcceptedKeeps DEF IInv
<1>3. res \in SUBSET Resource /\ res # {}
  BY <1>1, BoundAssumption
<1>4. Inv(db') /\ NothingToPromote(db')
  BY SMTT(40), <1>1, <1>2, <1>3, PrepareKeeps
<1> QED BY <1>1, <1>4 DEF IInv

\* Activating an offer keeps the invariant.
LEMMA LeaseActivateOK ==
  ASSUME IInv, NEW t \in Task, LeaseActivate(t)
  PROVE  IInv'
<1>1. PICK now, s, e, q :
        /\ now \in Observed /\ s \in AcceptedCommand(now) /\ e \in Window(now, LeaseExpiry)
        /\ q \in Requests(s) /\ MayActivate(s, t, q)
        /\ db' = Activation(s, t, q, e) /\ clock' = clock
  BY DEF LeaseActivate, Activation
<1>2. Inv(s) /\ NothingToPromote(s) /\ e \in Nat
  BY <1>1, Times, AcceptedKeeps DEF IInv
<1>3. Activated(s, db', t, q)
  BY <1>1, <1>2, ActivatedFacts DEF Inv
<1>4. q \in Offered(s) /\ s.requests[q].task = t /\ ~AgentSlotOccupied(s, Owner[t], Task)
  BY <1>1 DEF MayActivate
<1>5. Inv(db') /\ NothingToPromote(db')
  BY <1>2, <1>3, <1>4, ActivateKeeps
<1> QED BY SMTT(40), <1>1, <1>5 DEF IInv

\* Releasing a lease keeps the invariant, at once or deferred.
LEMMA LeaseReleaseOK ==
  ASSUME IInv, NEW t \in Task, LeaseRelease(t) \/ LeaseReleaseDeferred(t)
  PROVE  IInv'
<1>1. CASE LeaseRelease(t)
  <2>1. PICK now, s : /\ now \in Observed /\ s \in AcceptedCommand(now)
                      /\ InFlightSlots(s.leases[t]) = {}
                      /\ db' \in PromoteWaiters(ReleaseAllTaskLeases(s, t), now)
                      /\ clock' = clock
    BY <1>1 DEF LeaseRelease
  <2>2. now \in Nat /\ Inv(s)
    BY <2>1, Times, AcceptedKeeps DEF IInv
  <2>3. Inv(ReleaseAllTaskLeases(s, t))
    BY <2>1, <2>2, NoSlotNoExecuting, ReleaseKeeps
  <2> QED BY <2>1, <2>2, <2>3, PromoteKeeps DEF IInv
<1>2. CASE LeaseReleaseDeferred(t)
  <2>1. PICK now, s : /\ now \in Observed /\ s \in AcceptedCommand(now)
                      /\ db' = Drain(s, t) /\ clock' = clock
    BY <1>2 DEF LeaseReleaseDeferred
  <2>2. Inv(s) /\ NothingToPromote(s)
    BY <2>1, Times, AcceptedKeeps DEF IInv
  <2> QED BY <2>1, <2>2, DrainKeeps, DrainKeepsNothing DEF IInv
<1> QED BY <1>1, <1>2

\* Completing a write keeps the invariant.
LEMMA WriteCompleteOK ==
  ASSUME IInv, NEW t \in Task, NEW a \in Attempt, WriteComplete(t, a)
  PROVE  IInv'
<1>1. PICK now, s, result :
        /\ now \in Observed /\ s \in AcceptedCommand(now)
        /\ result \in {"completed", "failed", "uncertain"}
        /\ s.attempts[a].task = t /\ s.attempts[a].status = "executing"
        /\ db' \in IF Released(s, t, a, result)
                   THEN PromoteWaiters(Completed(s, t, a, result), now)
                   ELSE {Completed(s, t, a, result)}
        /\ clock' = clock
  BY DEF WriteComplete
<1>2. now \in Nat /\ Inv(s) /\ NothingToPromote(s)
  BY <1>1, Times, AcceptedKeeps DEF IInv
<1>3. Inv(Completed(s, t, a, result))
  BY <1>1, <1>2, BatchKeeps, FinishKeeps DEF Completed
<1>4. CASE Released(s, t, a, result)
  BY <1>1, <1>2, <1>3, <1>4, PromoteKeeps DEF IInv
<1>5. CASE ~Released(s, t, a, result)
  <2>1. db' = Completed(s, t, a, result)
    BY <1>1, <1>5
  <2>2. NothingToPromote(Completed(s, t, a, result))
    BY <1>1, <1>2, <1>5, UnreleasedKeepsNothing
  <2> QED BY <1>1, <1>3, <2>1, <2>2 DEF IInv
<1> QED BY <1>4, <1>5

\* A turn of the maintenance loop keeps the invariant.
LEMMA MaintainOK ==
  ASSUME IInv, Maintain
  PROVE  IInv'
<1>1. Inv(DrainOverdue(ExpireTasksAndLeases(ExpireOffers(db, clock), clock), clock))
  BY ExpireOffersKeeps, ExpireKeeps, DrainOverdueKeeps DEF IInv
<1> QED BY <1>1, PromoteKeeps DEF IInv, Maintain

\* Every step keeps the invariant.
LEMMA NextOK == IInv /\ [Next]_vars => IInv'
<1> SUFFICES ASSUME IInv, [Next]_vars
             PROVE  IInv'
  OBVIOUS
<1>1. CASE UNCHANGED vars
  BY <1>1 DEF vars, IInv
<1>2. CASE Tick
  BY SMTT(40), <1>2 DEF Tick, IInv
<1>3. CASE Maintain
  BY <1>3, MaintainOK
<1>4. ASSUME NEW t \in Task, TaskStart(t) \/ TaskHeartbeat(t)
      PROVE  IInv'
  BY <1>4, TaskStepOK
<1>5. ASSUME NEW t \in Task, TaskEnd(t) \/ TaskEndDeferred(t)
      PROVE  IInv'
  BY <1>5, TaskEndOK
<1>6. ASSUME NEW t \in Task, NoTableChange(t) \/ PrepareRefused(t)
      PROVE  IInv'
  BY <1>6, PreambleOK
<1>7. ASSUME NEW t \in Task, PrepareQueued(t)
      PROVE  IInv'
  BY <1>7, PrepareQueuedOK
<1>8. ASSUME NEW t \in Task, LeaseActivate(t)
      PROVE  IInv'
  BY <1>8, LeaseActivateOK
<1>9. ASSUME NEW t \in Task, LeaseRelease(t) \/ LeaseReleaseDeferred(t)
      PROVE  IInv'
  BY <1>9, LeaseReleaseOK
<1>10. ASSUME NEW t \in Task, NEW a \in Attempt, PrepareReady(t, a)
       PROVE  IInv'
  BY <1>10, PrepareReadyOK
<1>11. ASSUME NEW t \in Task, NEW a \in Attempt, WriteComplete(t, a)
       PROVE  IInv'
  BY <1>11, WriteCompleteOK
<1> QED BY <1>1, <1>2, <1>3, <1>4, <1>5, <1>6, <1>7, <1>8, <1>9, <1>10, <1>11 DEF Next

-----------------------------------------------------------------------------
(* What a step may do to the leases *)

\* From s to z no lease grows, and a lease that drains stays as it is or goes.
Sheds(s, z) ==
  \A t \in Task :
    /\ z.leases[t].res \subseteq s.leases[t].res
    /\ Leased(z, t) =>
         /\ Leased(s, t)
         /\ s.leases[t].state = "draining" =>
              /\ z.leases[t].state = "draining"
              /\ z.leases[t].res = s.leases[t].res
              /\ z.leases[t].attempts = s.leases[t].attempts

\* The step properties NoOvertaking and DrainingBatchesOnlyEnd are about.
GrantsInOrder ==
  \A t \in Task, q \in (Queued(db) \cup Offered(db))' :
    /\ db'.requests[q].task # t
    /\ Overlapping(db'.leases[t].res \ db.leases[t].res, db'.requests[q].res)
    => \E p \in Offered(db) :
         p < q /\ db.requests[p].task = t /\ db'.requests[p].state = "activated"

DrainingOnlyEnds ==
  \A t \in Task :
    db.leases[t].state = "draining" /\ Leased(db, t)' =>
      /\ db'.leases[t].state = "draining"
      /\ db'.leases[t].res = db.leases[t].res
      /\ db'.leases[t].attempts = db.leases[t].attempts

\* Shedding twice is shedding.
LEMMA ShedsTwice ==
  ASSUME NEW s, NEW y, NEW z, Sheds(s, y), Sheds(y, z)
  PROVE  Sheds(s, z)
<1> SUFFICES ASSUME NEW t \in Task
             PROVE  /\ z.leases[t].res \subseteq s.leases[t].res
                    /\ Leased(z, t) =>
                         /\ Leased(s, t)
                         /\ s.leases[t].state = "draining" =>
                              /\ z.leases[t].state = "draining"
                              /\ z.leases[t].res = s.leases[t].res
                              /\ z.leases[t].attempts = s.leases[t].attempts
  BY DEF Sheds
<1> QED BY DEF Sheds

\* Leases that stay, drain or go shed.
LEMMA RowsShed ==
  ASSUME NEW s, TablesOK(s), NEW z,
         \A t \in Task : z.leases[t] \in {s.leases[t], Drained(s.leases[t]), NoLease}
  PROVE  Sheds(s, z)
<1> SUFFICES ASSUME NEW t \in Task
             PROVE  /\ z.leases[t].res \subseteq s.leases[t].res
                    /\ Leased(z, t) =>
                         /\ Leased(s, t)
                         /\ s.leases[t].state = "draining" =>
                              /\ z.leases[t].state = "draining"
                              /\ z.leases[t].res = s.leases[t].res
                              /\ z.leases[t].attempts = s.leases[t].attempts
  BY DEF Sheds
<1>1. s.leases[t] \in LeaseRow
  BY RowFacts
<1>2. CASE z.leases[t] = s.leases[t]
  BY <1>2 DEF Leased
<1>3. CASE z.leases[t] = NoLease
  BY <1>3, NoLeaseFacts DEF Leased
<1>4. CASE z.leases[t] = Drained(s.leases[t])
  BY SMTT(40), <1>1, <1>4, DrainedFacts DEF Leased
<1> QED BY <1>2, <1>3, <1>4

\* The preamble of a command only sheds.
LEMMA PreambleSheds ==
  ASSUME IInv, NEW now \in Nat, NEW s \in AcceptedCommand(now)
  PROVE  Inv(s) /\ GivesBack(db, s) /\ Sheds(db, s)
<1>1. Inv(s) /\ GivesBack(db, s) /\ TablesOK(db)
  BY AcceptedKeeps DEF IInv, Inv
<1>2. \A t \in Task : s.leases[t] \in {db.leases[t], Drained(db.leases[t]), NoLease}
  BY <1>1 DEF GivesBack
<1> QED BY <1>1, <1>2, RowsShed

\* Releasing the lease of one task sheds.
LEMMA ReleaseSheds ==
  ASSUME NEW s, TablesOK(s), NEW t \in Task
  PROVE  Sheds(s, ReleaseAllTaskLeases(s, t))
<1> DEFINE z == ReleaseAllTaskLeases(s, t)
<1>1. z.leases = [s.leases EXCEPT ![t] = NoLease]
  BY DEF ReleaseAllTaskLeases, TablesOK
<1> HIDE DEF z
<1>2. \A u \in Task : z.leases[u] \in {s.leases[u], Drained(s.leases[u]), NoLease}
  BY <1>1 DEF TablesOK
<1>3. Sheds(s, z)
  BY <1>2, RowsShed
<1> QED BY <1>3 DEF z

\* Draining the lease of one task sheds.
LEMMA DrainSheds ==
  ASSUME NEW s, TablesOK(s), NEW t \in Task
  PROVE  Sheds(s, Drain(s, t))
<1> DEFINE z == Drain(s, t)
<1>1. z.leases[t] = Drained(s.leases[t]) /\ \A u \in Task \ {t} : z.leases[u] = s.leases[u]
  BY DrainFacts
<1> HIDE DEF z
<1>2. \A u \in Task : z.leases[u] \in {s.leases[u], Drained(s.leases[u]), NoLease}
  BY <1>1
<1>3. Sheds(s, z)
  BY <1>2, RowsShed
<1> QED BY <1>3 DEF z

\* Shedding depends on the lease tables only.
LEMMA ShedsSame ==
  ASSUME NEW s, NEW y, NEW z, Sheds(s, y), z.leases = y.leases
  PROVE  Sheds(s, z)
  BY DEF Sheds, Leased

\* Commands on a task row, and those that only run their preamble.
LEMMA TaskStepSheds ==
  ASSUME IInv, NEW t \in Task,
         TaskStart(t) \/ TaskHeartbeat(t) \/ NoTableChange(t) \/ PrepareRefused(t)
  PROVE  Sheds(db, db')
<1>1. PICK now, s : /\ now \in Observed /\ s \in AcceptedCommand(now)
                    /\ \/ db' = s
                       \/ \E row : db' = [s EXCEPT !.tasks[t] = row]
                       \/ \E e : db' = [s EXCEPT !.tasks[t].expires = e]
  BY DEF TaskStart, TaskHeartbeat, NoTableChange, PrepareRefused
<1>2. Inv(s) /\ Sheds(db, s)
  BY <1>1, Times, PreambleSheds DEF IInv
<1>3. db'.leases = s.leases
  BY <1>1, <1>2 DEF Inv, TablesOK
<1> QED BY <1>2, <1>3, ShedsSame

\* Ending a task.
LEMMA TaskEndSheds ==
  ASSUME IInv, NEW t \in Task, TaskEnd(t) \/ TaskEndDeferred(t)
  PROVE  Sheds(db, db')
<1>1. PICK now, s, terminal, b :
        /\ now \in Observed /\ s \in AcceptedCommand(now) /\ terminal \in {"completed", "cancelled"}
        /\ b = EndingTask(s, t, terminal)
        /\ \/ /\ ~TaskInFlight(b, t)
              /\ db' \in PromoteWaiters(
                   [ReleaseAllTaskLeases(b, t) EXCEPT !.tasks[t].status = terminal], now)
           \/ db' = Drain(b, t)
  BY DEF TaskEnd, TaskEndDeferred
<1>2. now \in Nat /\ Inv(s) /\ Sheds(db, s) /\ terminal \in TerminalStatus
  BY <1>1, Times, PreambleSheds DEF IInv, TerminalStatus
<1>3. TablesOK(b) /\ b.leases = s.leases
  <2>1. b = EndingTask(s, t, terminal)
    BY <1>1
  <2>2. EndingOf(s, t, b)
    BY <1>2, <2>1, EndingFacts
  <2> QED BY <2>2 DEF EndingOf
<1>4. Sheds(db, b)
  BY <1>2, <1>3, ShedsSame
<1>5. CASE db' = Drain(b, t)
  BY <1>3, <1>4, <1>5, DrainSheds, ShedsTwice
<1>6. CASE /\ ~TaskInFlight(b, t)
           /\ db' \in PromoteWaiters(
                [ReleaseAllTaskLeases(b, t) EXCEPT !.tasks[t].status = terminal], now)
  <2> DEFINE r == ReleaseAllTaskLeases(b, t)
             x == [r EXCEPT !.tasks[t].status = terminal]
  <2>1. Inv(x)
    BY <1>1, <1>2, <1>6, EndKeeps
  <2>2. x.leases = r.leases
    BY <1>3 DEF ReleaseAllTaskLeases, TablesOK
  <2>3. Sheds(b, r)
    BY <1>3, ReleaseSheds
  <2>4. db' \in PromoteWaiters(x, now)
    BY <1>6
  <2> HIDE DEF r, x
  <2>5. db'.leases = x.leases
    BY <1>2, <2>1, <2>4, PromoteFrame
  <2>6. Sheds(db, r)
    BY <1>4, <2>3, ShedsTwice
  <2> QED BY <2>2, <2>5, <2>6, ShedsSame
<1> QED BY <1>1, <1>5, <1>6

\* Giving a lease back and promoting.
LEMMA YieldSheds ==
  ASSUME NEW s, Inv(s), NEW t \in Task, InFlightSlots(s.leases[t]) = {}, NEW now \in Nat,
         NEW z \in PromoteWaiters(ReleaseAllTaskLeases(s, t), now)
  PROVE  Inv(z) /\ Sheds(s, z) /\ z.leases[t] = NoLease /\ z.tasks = s.tasks
<1> DEFINE r == ReleaseAllTaskLeases(s, t)
<1>1. Inv(r)
  BY NoSlotNoExecuting, ReleaseKeeps
<1>2. Sheds(s, r) /\ r.leases[t] = NoLease /\ r.tasks = s.tasks
  BY ReleaseSheds DEF Inv, TablesOK, ReleaseAllTaskLeases
<1> HIDE DEF r
<1>3. z \in PromoteWaiters(r, now)
  BY DEF r
<1>4. Inv(z) /\ z.leases = r.leases /\ z.tasks = r.tasks
  BY <1>1, <1>3, PromoteKeeps, PromoteFrame
<1> QED BY <1>2, <1>4, ShedsSame

\* Releasing a lease, at once or deferred.
LEMMA LeaseReleaseSheds ==
  ASSUME IInv, NEW t \in Task, LeaseRelease(t) \/ LeaseReleaseDeferred(t)
  PROVE  Sheds(db, db')
<1>1. PICK now, s : /\ now \in Observed /\ s \in AcceptedCommand(now)
                    /\ \/ /\ InFlightSlots(s.leases[t]) = {}
                          /\ db' \in PromoteWaiters(ReleaseAllTaskLeases(s, t), now)
                       \/ db' = Drain(s, t)
  BY DEF LeaseRelease, LeaseReleaseDeferred
<1>2. now \in Nat /\ Inv(s) /\ TablesOK(s) /\ Sheds(db, s)
  BY <1>1, Times, PreambleSheds DEF IInv, Inv
<1>3. Sheds(s, db')
  BY <1>1, <1>2, YieldSheds, DrainSheds
<1> QED BY <1>2, <1>3, ShedsTwice

\* Queueing: the task's own lease goes first.
LEMMA PrepareQueuedSheds ==
  ASSUME IInv, NEW t \in Task, PrepareQueued(t)
  PROVE  Sheds(db, db')
<1>1. PICK now, s, res, e, y :
        /\ now \in Observed /\ s \in AcceptedCommand(now)
        /\ res \in WriteSets /\ e \in Window(now, OfferTtl)
        /\ Active(s, t) /\ InFlightSlots(s.leases[t]) = {}
        /\ y \in Yielded(s, t, now)
        /\ db' \in PromoteWaiters(EnqueueRequest(y, t, UnionResources(s, t, res), e), now)
  BY DEF PrepareQueued
<1>2. now \in Nat /\ e \in Nat /\ Inv(s) /\ Sheds(db, s)
  BY <1>1, Times, PreambleSheds DEF IInv
<1> DEFINE all == UnionResources(s, t, res)
           n == EnqueueRequest(y, t, all, e)
<1>3. all \in SUBSET Resource
  BY <1>1, <1>2, BoundAssumption, UnionInResource DEF Inv
<1>4. db' \in PromoteWaiters(n, now)
  BY <1>1
<1> HIDE DEF all, n
<1>5. Inv(y) /\ Active(y, t) /\ ~Leased(y, t) /\ Sheds(db, y)
  <2>1. CASE Leased(s, t)
    <3>1. Inv(y) /\ Sheds(s, y) /\ y.leases[t] = NoLease /\ y.tasks = s.tasks
      BY SMTT(40), <1>1, <1>2, <2>1, YieldSheds DEF Yielded
    <3> QED BY <1>1, <1>2, <3>1, NoLeaseFacts, ShedsTwice DEF Active, Leased
  <2>2. CASE ~Leased(s, t)
    BY <1>1, <1>2, <2>2 DEF Yielded
  <2> QED BY <2>1, <2>2
<1>6. Inv(n) /\ n.leases = y.leases
  <2>1. Inv(n)
    BY <1>2, <1>3, <1>5, EnqueueKeeps DEF n
  <2>2. n.leases = y.leases
    BY <1>5 DEF n, EnqueueRequest, ClosePending, Inv, TablesOK
  <2> QED BY <2>1, <2>2
<1>7. db'.leases = n.leases
  BY <1>2, <1>4, <1>6, PromoteFrame
<1> QED BY <1>5, <1>6, <1>7, ShedsSame

\* What the result of a write does to the leases.
LEMMA CompletedSheds ==
  ASSUME NEW s, Inv(s), NEW t \in Task, NEW a \in Attempt,
         NEW result \in {"completed", "failed", "uncertain"},
         s.attempts[a].task = t, s.attempts[a].status = "executing"
  PROVE  Inv(Completed(s, t, a, result)) /\ Sheds(s, Completed(s, t, a, result))
<1> DEFINE b == RecordResult(s, a, result)
           y == SettleBatch(b, t, a, result)
           z == FinishDrainingTask(y, t)
<1>1. Inv(y) /\ Inv(z)
  BY BatchKeeps, FinishKeeps
<1>2. Recorded(s, b, a, result)
  BY RecordedFacts DEF Inv
<1>3. y \in {b, Drain(b, t), ReleaseAllTaskLeases(b, t)}
  BY DEF SettleBatch
<1>4. z = y \/ z = [ReleaseAllTaskLeases(y, t) EXCEPT !.tasks[t].status = y.tasks[t].terminal]
  BY DEF FinishDrainingTask
<1>5. Completed(s, t, a, result) = z
  BY DEF Completed
<1> HIDE DEF b, y, z
<1>6. TablesOK(b) /\ Sheds(s, b)
  BY <1>2 DEF Recorded, Sheds, Leased
<1>7. Sheds(s, y)
  BY SMTT(40), <1>3, <1>6, DrainSheds, ReleaseSheds, ShedsTwice
<1>8. Sheds(s, z)
  <2>1. CASE z = y
    BY <1>7, <2>1
  <2>2. CASE z = [ReleaseAllTaskLeases(y, t) EXCEPT !.tasks[t].status = y.tasks[t].terminal]
    <3> DEFINE r == ReleaseAllTaskLeases(y, t)
    <3>1. z.leases = r.leases
      BY <1>1, <2>2 DEF ReleaseAllTaskLeases, Inv, TablesOK
    <3>2. Sheds(y, r)
      BY <1>1, ReleaseSheds DEF Inv
    <3> HIDE DEF r
    <3> QED BY <1>7, <3>1, <3>2, ShedsTwice, ShedsSame
  <2> QED BY <1>4, <2>1, <2>2
<1> QED BY <1>1, <1>5, <1>8

\* Completing a write.
LEMMA WriteCompleteSheds ==
  ASSUME IInv, NEW t \in Task, NEW a \in Attempt, WriteComplete(t, a)
  PROVE  Sheds(db, db')
<1>1. PICK now, s, result :
        /\ now \in Observed /\ s \in AcceptedCommand(now)
        /\ result \in {"completed", "failed", "uncertain"}
        /\ s.attempts[a].task = t /\ s.attempts[a].status = "executing"
        /\ db' \in IF Released(s, t, a, result)
                   THEN PromoteWaiters(Completed(s, t, a, result), now)
                   ELSE {Completed(s, t, a, result)}
  BY DEF WriteComplete
<1>2. now \in Nat /\ Inv(s) /\ Sheds(db, s)
  BY <1>1, Times, PreambleSheds DEF IInv
<1> DEFINE z == Completed(s, t, a, result)
<1>3. Inv(z) /\ Sheds(s, z)
  BY <1>1, <1>2, CompletedSheds
<1>4. db' \in PromoteWaiters(z, now) \/ db' = z
  BY <1>1
<1> HIDE DEF z
<1>5. db'.leases = z.leases
  BY <1>2, <1>3, <1>4, PromoteFrame
<1> QED BY <1>2, <1>3, <1>5, ShedsTwice, ShedsSame

\* A turn of the maintenance loop.
LEMMA MaintainSheds ==
  ASSUME IInv, Maintain
  PROVE  Sheds(db, db')
<1> DEFINE o == ExpireOffers(db, clock)
           x == ExpireTasksAndLeases(o, clock)
           z == DrainOverdue(x, clock)
<1>0. clock \in Nat /\ Inv(db)
  BY DEF IInv
<1>1. Inv(o) /\ o.leases = db.leases
  <2>1. Inv(o)
    BY <1>0, ExpireOffersKeeps
  <2>2. o.leases = db.leases
    BY <1>0 DEF ExpireOffers, Inv, TablesOK
  <2> QED BY <2>1, <2>2
<1>2. db' \in PromoteWaiters(z, clock)
  BY DEF Maintain
<1> HIDE DEF o
<1>3. Inv(x) /\ GivesBack(o, x)
  BY <1>0, <1>1, ExpireKeeps
<1>4. Sheds(o, x)
  <2> HIDE DEF x
  <2>1. \A t \in Task : x.leases[t] \in {o.leases[t], Drained(o.leases[t]), NoLease}
    BY <1>3 DEF GivesBack
  <2> QED BY <1>1, <2>1, RowsShed DEF Inv
<1> HIDE DEF x
<1>5. Inv(z)
  BY <1>0, <1>3, DrainOverdueKeeps
<1>6. \A t \in Task : z.leases[t] \in {x.leases[t], Drained(x.leases[t]), NoLease}
  BY <1>3 DEF DrainOverdue, Inv, TablesOK
<1>7. Sheds(x, z)
  BY <1>3, <1>6, RowsShed DEF Inv
<1> HIDE DEF z
<1>8. db'.leases = z.leases
  BY <1>0, <1>2, <1>5, PromoteFrame
<1>9. Sheds(db, x)
  BY <1>1, <1>4 DEF Sheds, Leased
<1> QED BY <1>7, <1>8, <1>9, ShedsTwice, ShedsSame

\* A step that only sheds grants nothing and keeps what drains.
LEMMA SheddingStep ==
  ASSUME Sheds(db, db')
  PROVE  GrantsInOrder /\ DrainingOnlyEnds
<1>1. \A t \in Task : db'.leases[t].res \ db.leases[t].res = {}
  BY DEF Sheds
<1>2. GrantsInOrder
  BY <1>1 DEF GrantsInOrder, Overlapping
<1>3. DrainingOnlyEnds
  BY DEF DrainingOnlyEnds, Sheds, Leased
<1> QED BY <1>2, <1>3

\* A task that is active after the preamble still has the lease it had draining.
LEMMA DrainingStays ==
  ASSUME IInv, NEW s, GivesBack(db, s), NEW t \in Task, Active(s, t),
         db.leases[t].state = "draining"
  PROVE  s.leases[t].state = "draining"
<1>1. db.leases[t] \in LeaseRow
  BY RowFacts DEF IInv, Inv
<1>2. Drained(db.leases[t]).state = "draining"
  BY <1>1, DrainedFacts
<1> QED BY <1>2 DEF GivesBack

\* A step that grants to t only: for the other tasks it is the preamble.
LEMMA GrantingStep ==
  ASSUME NEW s, Sheds(db, s), NEW t \in Task,
         \A u \in Task \ {t} : db'.leases[u] = s.leases[u],
         db.leases[t].state # "draining",
         \A q \in Queued(db') \cup Offered(db') :
           /\ db'.requests[q].task # t
           /\ Overlapping(db'.leases[t].res \ db.leases[t].res, db'.requests[q].res)
           => \E p \in Offered(db) :
                p < q /\ db.requests[p].task = t /\ db'.requests[p].state = "activated"
  PROVE  GrantsInOrder /\ DrainingOnlyEnds
<1>1. \A u \in Task \ {t} : db'.leases[u].res \ db.leases[u].res = {}
  BY DEF Sheds
<1>2. GrantsInOrder
  <2>0. (Queued(db) \cup Offered(db))' = Queued(db') \cup Offered(db')
    BY DEF Queued, Offered, Requests
  <2> SUFFICES ASSUME NEW u \in Task, NEW q \in Queued(db') \cup Offered(db'),
                      db'.requests[q].task # u,
                      Overlapping(db'.leases[u].res \ db.leases[u].res, db'.requests[q].res)
               PROVE  \E p \in Offered(db) :
                        p < q /\ db.requests[p].task = u /\ db'.requests[p].state = "activated"
    BY <2>0 DEF GrantsInOrder
  <2>1. u = t
    BY <1>1 DEF Overlapping
  <2> QED BY <2>1
<1>3. DrainingOnlyEnds
  BY DEF DrainingOnlyEnds, Sheds, Leased
<1> QED BY <1>2, <1>3

\* Activating an offer overtakes nobody: whoever waits ahead of the offer does
\* not overlap it.
LEMMA ActivateInOrder ==
  ASSUME IInv, NEW t \in Task, LeaseActivate(t)
  PROVE  GrantsInOrder /\ DrainingOnlyEnds
<1>1. PICK now \in Observed :
        \E s \in AcceptedCommand(now), e \in Window(now, LeaseExpiry) : \E p \in Requests(s) :
          /\ Active(s, t)
          /\ MayActivate(s, t, p)
          /\ db' = Activation(s, t, p, e)
          /\ UNCHANGED clock
  BY DEF LeaseActivate, Activation
<1>2. PICK s \in AcceptedCommand(now), e \in Window(now, LeaseExpiry) : \E p \in Requests(s) :
        Active(s, t) /\ MayActivate(s, t, p) /\ db' = Activation(s, t, p, e)
  BY <1>1
<1>3. PICK p \in Requests(s) :
        Active(s, t) /\ MayActivate(s, t, p) /\ db' = Activation(s, t, p, e)
  BY <1>2
<1>4. Inv(s) /\ GivesBack(db, s) /\ Sheds(db, s) /\ e \in Nat
  BY <1>3, Times, PreambleSheds DEF IInv
<1>5. Activated(s, db', t, p)
  BY <1>3, <1>4, ActivatedFacts DEF Inv
<1>6. p \in Offered(s) /\ p \in Offered(db) /\ s.requests[p].task = t /\ ~Leased(s, t)
  BY <1>3 DEF MayActivate, AgentSlotOccupied
<1>7. PendingTaskRequest(s, t) = {p}
  BY <1>4, <1>6 DEF Inv, OnePerTask
<1>8. Grants(s, db', t) /\ Offered(db') = Offered(s) \ {p}
  BY SMTT(40), <1>5, <1>6, <1>7, ActivatedGrants
<1>9. db.leases[t].state # "draining"
  BY <1>3, <1>4, <1>6, DrainingStays DEF Leased
<1>10. \A u \in Task \ {t} : db'.leases[u] = s.leases[u]
  BY <1>5 DEF Activated
<1>11. db.requests[p].task = t /\ db'.requests[p].state = "activated"
  BY <1>4, <1>5, <1>6 DEF GivesBack, Offered, Activated
<1>12. ASSUME NEW q \in Queued(db') \cup Offered(db'),
              Overlapping(db'.leases[t].res \ db.leases[t].res, db'.requests[q].res)
       PROVE  p < q
  <2>1. q \in Queued(s) \cup Offered(s) /\ q # p /\ db'.requests[q] = s.requests[q]
    BY <1>6, <1>8 DEF Grants, Queued, Offered
  <2>2. db'.leases[t].res = s.requests[p].res
    BY <1>5 DEF Activated
  <2>3. Overlapping(s.requests[p].res, s.requests[q].res)
    BY <1>12, <2>1, <2>2 DEF Overlapping
  <2>4. s.requests[p].res \in SUBSET Resource /\ s.requests[q].res \in SUBSET Resource
    BY <1>4, <1>6, <2>1, RowFacts DEF Inv, Queued, Offered, RequestRow
  <2>5. Overlapping(s.requests[q].res, s.requests[p].res)
    BY <2>3, <2>4, OverlapSymmetric
  <2>6. q \notin Offered(s)
    BY <1>4, <1>6, <2>1, <2>3 DEF Inv, Exclusive
  <2>7. ~(q < p)
    BY <1>4, <1>6, <2>1, <2>5, <2>6 DEF Inv, Ordered
  <2>8. p \in Int /\ q \in Int
    BY SMTT(40), <1>6, <2>1 DEF Queued, Offered, Requests
  <2> QED BY SMTT(40), <2>1, <2>7, <2>8
<1> QED BY <1>4, <1>6, <1>9, <1>10, <1>11, <1>12, GrantingStep

\* Acquiring directly overtakes nobody: the write is not contended.
LEMMA PrepareInOrder ==
  ASSUME IInv, NEW t \in Task, NEW a \in Attempt, PrepareReady(t, a)
  PROVE  GrantsInOrder /\ DrainingOnlyEnds
<1>1. PICK now, s, res, e, deadline, all :
        /\ now \in Observed /\ s \in AcceptedCommand(now)
        /\ res \in WriteSets /\ e \in Window(now, LeaseExpiry)
        /\ deadline \in Window(now, AttemptWindow)
        /\ all = UnionResources(s, t, res)
        /\ Active(s, t) /\ ~Contended(s, t, res) /\ MayEnsureLease(s, t, all, now)
        /\ db' = PrepareWriteAttempt(EnsureActiveLease(s, t, all, e), t, a, res, deadline)
  BY SMTT(40) DEF PrepareReady
<1>2. Inv(s) /\ GivesBack(db, s) /\ Sheds(db, s) /\ e \in Nat /\ deadline \in Nat
  BY <1>1, Times, PreambleSheds DEF IInv
<1>3. /\ PendingTaskRequest(s, t) = {}
      /\ ~ConflictingOwners(s, t, all) /\ ~QueuedConflictingOwners(s, t, all)
  BY <1>1 DEF Contended
<1>4. res \in SUBSET Resource
  BY <1>1, BoundAssumption
<1>5. TablesOK(s) /\ all = UnionResources(s, t, res) /\ MayEnsureLease(s, t, all, now)
  BY <1>1, <1>2 DEF Inv
<1>6. Prepared(s, db', t, a, all, res)
  <2>1. all \in SUBSET Resource
    BY <1>4, <1>5, UnionInResource
  <2>2. s.leases[t].res \subseteq all
    BY <1>5 DEF UnionResources
  <2>3. db' = PrepareWriteAttempt(EnsureActiveLease(s, t, all, e), t, a, res, deadline)
    BY <1>1
  <2>4. e \in Nat /\ deadline \in Nat
    BY <1>2
  <2> QED BY <1>4, <1>5, <2>1, <2>2, <2>3, <2>4, PreparedFacts
<1>7. db.leases[t].state # "draining"
  <2>1. s.leases[t].state # "draining"
    BY <1>1 DEF MayEnsureLease, Leased
  <2> QED BY <1>1, <1>2, <2>1, DrainingStays
<1>8. \A u \in Task \ {t} : db'.leases[u] = s.leases[u]
  BY <1>6 DEF Prepared
<1>9. ASSUME NEW q \in Queued(db') \cup Offered(db'), db'.requests[q].task # t
      PROVE  ~Overlapping(db'.leases[t].res \ db.leases[t].res, db'.requests[q].res)
  <2>1. q \in Queued(s) \cup Offered(s) /\ db'.requests[q] = s.requests[q]
    BY <1>6 DEF Prepared, Queued, Offered, Requests
  <2>2. db'.leases[t].res = all
    BY <1>6 DEF Prepared
  <2>3. ~Overlapping(all, s.requests[q].res)
    BY <1>3, <1>9, <2>1 DEF ConflictingOwners, QueuedConflictingOwners
  <2> QED BY <2>1, <2>2, <2>3 DEF Overlapping
<1> QED BY <1>2, <1>7, <1>8, <1>9, GrantingStep

\* Every step grants in order and leaves what drains alone.
LEMMA NextLeases == IInv /\ [Next]_vars => [GrantsInOrder /\ DrainingOnlyEnds]_vars
<1> SUFFICES ASSUME IInv, Next
             PROVE  GrantsInOrder /\ DrainingOnlyEnds
  OBVIOUS
<1>1. CASE Tick
  <2>1. Sheds(db, db')
    BY <1>1 DEF Tick, Sheds
  <2> QED BY <2>1, SheddingStep
<1>2. CASE Maintain
  BY <1>2, MaintainSheds, SheddingStep
<1>3. ASSUME NEW t \in Task,
             \/ TaskStart(t) \/ TaskHeartbeat(t) \/ NoTableChange(t) \/ PrepareRefused(t)
             \/ TaskEnd(t) \/ TaskEndDeferred(t) \/ PrepareQueued(t)
             \/ LeaseRelease(t) \/ LeaseReleaseDeferred(t)
      PROVE  GrantsInOrder /\ DrainingOnlyEnds
  BY <1>3, TaskStepSheds, TaskEndSheds, PrepareQueuedSheds, LeaseReleaseSheds, SheddingStep
<1>4. ASSUME NEW t \in Task, LeaseActivate(t)
      PROVE  GrantsInOrder /\ DrainingOnlyEnds
  BY <1>4, ActivateInOrder
<1>5. ASSUME NEW t \in Task, NEW a \in Attempt, PrepareReady(t, a) \/ WriteComplete(t, a)
      PROVE  GrantsInOrder /\ DrainingOnlyEnds
  BY <1>5, PrepareInOrder, WriteCompleteSheds, SheddingStep
<1> QED BY <1>1, <1>2, <1>3, <1>4, <1>5 DEF Next

-----------------------------------------------------------------------------
(* Theorems *)

\* The inductive invariant holds of every reachable state of the store.
THEOREM Invariance == Spec => []IInv
  BY InitOK, NextOK, PTL DEF Spec

\* The tables keep the shape the schema gives them, whatever the commands.
THEOREM TypeCorrect == Spec => []TypeOK
<1>1. IInv => TypeOK
  BY DEF IInv, Inv, TypeOK
<1> QED BY <1>1, Invariance, PTL

\* No two tasks ever hold, or are promised, overlapping resources
\* (conflicting_owners and the walk of promote_waiters).
THEOREM Exclusion == Spec => []ExclusiveHolders
<1>1. IInv => ExclusiveHolders
  BY DEF IInv, Inv, ExclusiveHolders
<1> QED BY <1>1, Invariance, PTL

\* An agent never has two batches or two offers (agent_slot_occupied).
THEOREM AgentSlot == Spec => []OneBatchPerAgent
<1>1. IInv => OneBatchPerAgent
  BY DEF IInv, Inv, OneBatchPerAgent
<1> QED BY <1>1, Invariance, PTL

\* A task never waits twice, nor beside a lease of its own, nor once it ended
\* (enqueue_request, end_task, expire_tasks_and_leases).
THEOREM SinglePending == Spec => []OnePendingPerTask
<1>1. IInv => OnePendingPerTask
  BY DEF IInv, Inv, OnePendingPerTask
<1> QED BY <1>1, Invariance, PTL

\* An offer never passes an older waiter it overlaps (promote_waiters).
THEOREM QueueOrder == Spec => []WaitersKeepOrder
<1>1. IInv => WaitersKeepOrder
  BY DEF IInv, Inv, WaitersKeepOrder
<1> QED BY <1>1, Invariance, PTL

\* No transaction commits with a waiter it could have offered: each command
\* that gives something back promotes before it commits.
THEOREM Promotion == Spec => []NoMissedPromotion
<1>1. IInv => NoMissedPromotion
  BY DEF IInv, NoMissedPromotion
<1> QED BY <1>1, Invariance, PTL

\* A write in progress is covered by a lease and marked in it, whatever
\* expires, is released or ends meanwhile.
THEOREM WriteCover == Spec => []WritesAreCovered
<1>1. IInv => WritesAreCovered
  BY DEF IInv, Inv, WritesAreCovered
<1> QED BY <1>1, Invariance, PTL

\* Ended tasks hold nothing, and draining tasks and uncertain writes hold
\* draining leases only (end_task, finish_draining_task, write_complete).
THEOREM EndedHoldNothing == Spec => []EndedTasksHoldNothing
<1>1. IInv => EndedTasksHoldNothing
  BY DEF IInv, Inv, EndedTasksHoldNothing
<1> QED BY <1>1, Invariance, PTL

\* A lease never grows over a pending request of another task, unless that
\* request stands behind the offer being activated: write.prepare checks for
\* waiters, and promote_waiters offers in queue order.
THEOREM GrantOrder == Spec => NoOvertaking
<1>1. IInv /\ [Next]_vars => [GrantsInOrder]_vars
  BY NextLeases
<1> QED BY <1>1, InitOK, NextOK, PTL DEF Spec, NoOvertaking, GrantsInOrder

\* A draining lease gains no resource and no attempt and never becomes active
\* again: every command that extends a lease requires it to be active.
THEOREM DrainingIsFinal == Spec => DrainingBatchesOnlyEnd
<1>1. IInv /\ [Next]_vars => [DrainingOnlyEnds]_vars
  BY NextLeases
<1> QED BY <1>1, InitOK, NextOK, PTL DEF Spec, DrainingBatchesOnlyEnd, DrainingOnlyEnds
==============================================================================
