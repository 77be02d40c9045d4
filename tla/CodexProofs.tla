----------------------------- MODULE CodexProofs -----------------------------
(***************************************************************************)
(* Proofs about CodexOwners, for every number of turns, of processes and of *)
(* deliveries: a session has one enabled owner record at most, and the     *)
(* tasks of the turns before it have ended.                                *)
(*                                                                         *)
(* The induction is about the submit hook: what it has not cleaned up yet  *)
(* is on its list or in its hands (Cleaning), no stop hook ends the turn   *)
(* it serves (StopOK), and a task that runs has a record by which the next *)
(* submit hook finds it (RecordsOK).                                       *)
(***************************************************************************)
EXTENDS CodexOwners, FiniteSetTheorems, TLAPS

(* The backend of a step that names none, and the time it may take. *)
USE ZenonT(40)

----------------------------------------------------------------------------
(* The inductive invariant *)

Pc == {"idle", "scan", "deactivate", "persist", "finalize", "cancel", "remove", "record", "start", "spawn"}

\* A hook that is ending the task of one turn, step by step.
Ending == {"deactivate", "persist", "finalize", "cancel", "remove"}

HookRow == [pc : Pc, turn : Nat, of : Nat, own : OwnedTaskOwner \cup {None}, todo : SUBSET Turn]

Running(k) == task[k] \in {"active", "draining"}

Enabled(k) == owner[k] # None /\ owner[k].enabled

TypesOK ==
    /\ codex = [pid |-> codex.pid, turn |-> codex.turn, submits |-> codex.submits,
                stopped |-> codex.stopped]
    /\ codex.pid \in Nat /\ codex.turn \in 0 .. MaxTurn /\ codex.submits \in Nat
    /\ owner \in [Turn -> OwnedTaskOwner \cup {None}]
    /\ hook \in [Hook -> HookRow]
    /\ task \in [Turn -> {"none", "active", "draining", "ended"}]
    /\ receipt \in [Turn -> Nat \cup {None}]

\* The submit hook works for the current turn.  It goes on to its own record
\* when no other is left to look at.
SubmitOK ==
    LET s == hook["submit"]
    IN  s.pc # "idle" =>
          /\ s.turn = codex.turn /\ codex.turn \in Turn
          /\ \A k \in s.todo : k < codex.turn
          /\ s.pc \in Ending => s.of \in 1 .. codex.turn
          /\ s.pc \in {"record", "start", "spawn"} => s.todo = {}
          /\ s.pc \in Ending /\ s.of = s.turn => s.todo = {}
          /\ s.pc \in {"start", "spawn"} => s.own = owner[s.turn] /\ s.own # None

\* The stop hook ends its own turn, which no submit hook serves any more.
StopOK ==
    LET s == hook["stop"]
    IN  s.pc # "idle" =>
          /\ s.pc \in Ending /\ s.of \in 1 .. codex.turn
          /\ s.of = s.turn
          /\ s.of = codex.turn => codex.stopped /\ hook["submit"].pc = "idle"

\* A hook that writes a record back has one, and one that removes a record has
\* ended the task.
InHand ==
    \A h \in Hook :
        /\ hook[h].pc = "persist" => hook[h].own # None
        /\ \A k \in Turn : hook[h].pc = "remove" /\ hook[h].of = k => ~Running(k)

\* Records and tasks.
RecordsOK ==
    \A k \in Turn :
        /\ owner[k] # None => k <= codex.turn
        /\ Running(k) => owner[k] # None
        /\ receipt[k] = None => task[k] = "none"

\* What the submit hook has not dealt with yet is on its list, or in its hands.
Cleaning ==
    LET s == hook["submit"]
    IN  s.pc # "idle" =>
          \A k \in Turn \ {codex.turn} :
            /\ Running(k) => \/ k \in s.todo
                             \/ k = s.of /\ s.pc \in {"deactivate", "persist", "finalize", "cancel"}
            /\ Enabled(k) => \/ k \in s.todo
                             \/ k = s.of /\ s.pc \in {"deactivate", "persist"}

\* One record is enabled, and the tasks of the turns before it have ended.
OneEnabled ==
    \A k \in Turn : Enabled(k) =>
        /\ \A j \in Turn : Enabled(j) => j = k
        /\ \A j \in Turn : j < k => ~Running(j)

CInv ==
    /\ TypesOK /\ SubmitOK /\ StopOK /\ InHand /\ RecordsOK /\ Cleaning /\ OneEnabled

----------------------------------------------------------------------------
(* Steps of a hook *)

\* Hook h goes to pc with what it has in hand.
Goes(h, pc, of, own, todo) ==
    /\ hook' \in [Hook -> HookRow]
    /\ \A g \in Hook \ {h} : hook'[g] = hook[g]
    /\ hook'[h].pc = pc /\ hook'[h].turn = hook[h].turn
    /\ hook'[h].of = of /\ hook'[h].own = own /\ hook'[h].todo = todo

\* Hook h is gone.
Gone(h) ==
    /\ hook' \in [Hook -> HookRow]
    /\ \A g \in Hook \ {h} : hook'[g] = hook[g]
    /\ hook'[h].pc = "idle"

\* A hook is a record of five fields.
LEMMA RowFields ==
  ASSUME TypesOK, NEW h \in Hook
  PROVE  /\ hook[h] \in HookRow
         /\ hook[h].pc \in Pc /\ hook[h].turn \in Nat /\ hook[h].of \in Nat
         /\ hook[h].own \in OwnedTaskOwner \cup {None} /\ hook[h].todo \in SUBSET Turn
  BY DEF TypesOK, HookRow

\* A hook goes to another label.
LEMMA GotoFacts ==
  ASSUME TypesOK, NEW h \in Hook, NEW pc \in Pc, Goto(h, pc)
  PROVE  Goes(h, pc, hook[h].of, hook[h].own, hook[h].todo)
<1>1. hook[h] \in HookRow
  BY RowFields
<1> DEFINE row == [hook[h] EXCEPT !.pc = pc]
<1>2. /\ row \in HookRow /\ row.pc = pc /\ row.turn = hook[h].turn
      /\ row.of = hook[h].of /\ row.own = hook[h].own /\ row.todo = hook[h].todo
  BY <1>1 DEF HookRow
<1>3. hook' = [hook EXCEPT ![h] = row]
  BY DEF Goto
<1> HIDE DEF row
<1> QED BY <1>2, <1>3 DEF TypesOK, Goes

\* The empty row of a hook that is not running.
LEMMA NoHookFacts == NoHook \in HookRow /\ NoHook.pc = "idle"
  BY DEF NoHook, HookRow, Pc

\* A hook returns.
LEMMA ReturnFacts ==
  ASSUME TypesOK, NEW h \in Hook, Return(h)
  PROVE  Gone(h)
  BY NoHookFacts DEF Return, TypesOK, Gone

----------------------------------------------------------------------------
(* Tasks that end, hooks that are gone *)

\* Tasks only end: none starts, and none without a receipt changes.
TasksOnlyEnd ==
    /\ task' \in [Turn -> {"none", "active", "draining", "ended"}]
    /\ \A k \in Turn : /\ Running(k)' => Running(k)
                       /\ task[k] = "none" => task'[k] = "none"

\* The session stays with its turn.
SameTurn ==
    /\ codex' = [pid |-> codex'.pid, turn |-> codex'.turn, submits |-> codex'.submits,
                 stopped |-> codex'.stopped]
    /\ codex'.pid \in Nat /\ codex'.turn = codex.turn /\ codex'.submits \in Nat
    /\ codex.stopped => codex'.stopped

\* Whatever ends a task, whoever posts, and hooks that are gone, keep the invariant.
LEMMA Leaving ==
  ASSUME CInv, SameTurn, UNCHANGED <<owner, receipt>>, TasksOnlyEnd,
         hook' = hook \/ \E h \in Hook : Gone(h)
  PROVE  CInv'
<1>1. /\ hook' \in [Hook -> HookRow]
      /\ \A h \in Hook : hook'[h] = hook[h] \/ hook'[h].pc = "idle"
  BY DEF CInv, TypesOK, Gone
<1>2. TypesOK'
  BY <1>1 DEF CInv, TypesOK, SameTurn, TasksOnlyEnd
<1>3. \A k \in Turn : (Running(k)' => Running(k)) /\ (Enabled(k)' <=> Enabled(k))
  BY DEF TasksOnlyEnd, Enabled
<1>4. RecordsOK' /\ OneEnabled'
  <2>1. RecordsOK'
    BY <1>3 DEF CInv, RecordsOK, SameTurn, TasksOnlyEnd
  <2>2. OneEnabled'
    BY <1>3 DEF CInv, OneEnabled
  <2> QED BY <2>1, <2>2
<1>5. "submit" \in Hook /\ "stop" \in Hook
  BY DEF Hook
<1>6. SubmitOK' /\ Cleaning'
  <2>1. CASE hook'["submit"].pc = "idle"
    BY <2>1 DEF SubmitOK, Cleaning
  <2>2. CASE hook'["submit"] = hook["submit"]
    <3>1. SubmitOK'
      BY <2>2 DEF CInv, SubmitOK, SameTurn
    <3>2. Cleaning'
      BY <1>3, <2>2 DEF CInv, Cleaning, SameTurn
    <3> QED BY <3>1, <3>2
  <2> QED BY <1>1, <1>5, <2>1, <2>2
<1>7. StopOK'
  BY <1>1, <1>5 DEF CInv, StopOK, SameTurn
<1>8. InHand'
  BY <1>1, <1>3 DEF CInv, InHand
<1> QED BY <1>2, <1>4, <1>6, <1>7, <1>8 DEF CInv

----------------------------------------------------------------------------
(* The session *)

\* Codex submits a prompt, for a new turn or once more.
LEMMA SubmitStep ==
  ASSUME CInv, Submit
  PROVE  CInv'
<1> DEFINE todo == {k \in Turn \ {codex'.turn} : owner[k] # None}
           row == [NoHook EXCEPT !.pc = "scan", !.turn = codex'.turn, !.todo = todo]
<1>1. hook["submit"].pc = "idle" /\ UNCHANGED <<owner, task, receipt>>
  BY DEF Submit, Submitting, Idle, files, server
<1>2. /\ codex' = [pid |-> codex'.pid, turn |-> codex'.turn, submits |-> codex'.submits,
                   stopped |-> codex'.stopped]
      /\ codex'.pid \in Nat /\ codex'.turn \in Turn /\ codex'.submits \in Nat
      /\ \/ codex'.turn = codex.turn /\ ~codex.stopped
         \/ codex'.turn = codex.turn + 1
  <2>1. /\ codex = [pid |-> codex.pid, turn |-> codex.turn, submits |-> codex.submits,
                    stopped |-> codex.stopped]
        /\ codex.pid \in Nat /\ codex.turn \in 0 .. MaxTurn /\ codex.submits \in Nat
    BY DEF CInv, TypesOK
  <2>2. CASE codex.turn < MaxTurn /\ codex' = [codex EXCEPT !.turn = @ + 1, !.submits = 1, !.stopped = FALSE]
    <3>1. codex' = [pid |-> codex.pid, turn |-> codex.turn + 1, submits |-> 1, stopped |-> FALSE]
      BY <2>1, <2>2
    <3>2. codex'.pid = codex.pid /\ codex'.turn = codex.turn + 1 /\ codex'.submits = 1 /\ ~codex'.stopped
      BY <3>1
    <3>3. codex' = [pid |-> codex'.pid, turn |-> codex'.turn, submits |-> codex'.submits,
                    stopped |-> codex'.stopped]
      BY <3>1
    <3> QED BY SMTT(40), <2>1, <2>2, <3>2, <3>3, BoundAssumption DEF Turn
  <2>3. CASE codex.turn > 0 /\ ~codex.stopped /\ codex' = [codex EXCEPT !.submits = @ + 1]
    <3>1. codex' = [pid |-> codex.pid, turn |-> codex.turn, submits |-> codex.submits + 1,
                    stopped |-> codex.stopped]
      BY <2>1, <2>3
    <3> QED BY SMTT(40), <2>1, <2>3, <3>1, BoundAssumption DEF Turn
  <2> QED BY <2>2, <2>3 DEF Submit
<1>3. hook' = [hook EXCEPT !["submit"] = row]
  BY DEF Submit
<1>4. todo \in SUBSET Turn /\ \A k \in Turn \ {codex'.turn} : owner[k] # None <=> k \in todo
  OBVIOUS
<1>5. codex'.turn \in Nat
  BY SMTT(40), <1>2, BoundAssumption DEF Turn
<1> HIDE DEF todo
<1>6. row \in HookRow /\ row.pc = "scan" /\ row.turn = codex'.turn /\ row.todo = todo
  BY <1>4, <1>5, NoHookFacts DEF HookRow, Pc
<1> HIDE DEF row
<1>7. /\ hook' \in [Hook -> HookRow] /\ hook'["stop"] = hook["stop"]
      /\ hook'["submit"].pc = "scan" /\ hook'["submit"].turn = codex'.turn
      /\ hook'["submit"].todo = todo
  BY <1>3, <1>6 DEF CInv, TypesOK, Hook
<1>8. TypesOK'
  BY SMTT(40), <1>1, <1>2, <1>7, BoundAssumption DEF CInv, TypesOK, Turn
<1>9. codex.turn \in Nat /\ codex.turn <= codex'.turn /\ codex'.turn \in Nat
  BY SMTT(40), <1>2, BoundAssumption DEF CInv, TypesOK, Turn
<1>10. RecordsOK' /\ OneEnabled'
  BY SMTT(40), <1>1, <1>9 DEF CInv, RecordsOK, OneEnabled, Running, Enabled, Turn
<1>11. SubmitOK'
  <2>1. \A k \in todo : k < codex'.turn
    BY SMTT(40), <1>9 DEF CInv, RecordsOK, todo, Turn
  <2> QED BY <1>2, <1>7, <2>1 DEF SubmitOK, Ending
<1>12. StopOK'
  BY SMTT(40), <1>2, <1>7, <1>9 DEF CInv, StopOK
<1>13. InHand'
  BY <1>1, <1>7 DEF CInv, InHand, Hook, Running
<1>14. Cleaning'
  BY <1>1, <1>4, <1>7 DEF CInv, RecordsOK, Cleaning, Running, Enabled
<1> QED BY <1>8, <1>10, <1>11, <1>12, <1>13, <1>14 DEF CInv

\* Codex stops the turn.
LEMMA StopStep ==
  ASSUME CInv, Stop
  PROVE  CInv'
<1> DEFINE row == [NoHook EXCEPT !.pc = "deactivate", !.turn = codex.turn, !.of = codex.turn]
<1>1. /\ hook["submit"].pc = "idle" /\ UNCHANGED <<owner, task, receipt>>
      /\ codex.turn > 0
  BY DEF Stop, Submitting, Idle, files, server
<1>2. codex.pid \in Nat /\ codex.turn \in Nat /\ codex.turn \in Turn /\ codex.submits \in Nat
  BY SMTT(40), <1>1, BoundAssumption DEF CInv, TypesOK, Turn
<1>3. codex' = [pid |-> codex.pid, turn |-> codex.turn, submits |-> codex.submits, stopped |-> TRUE]
  BY DEF Stop, CInv, TypesOK
<1>4. hook' = [hook EXCEPT !["stop"] = row]
  BY DEF Stop
<1>5. row \in HookRow /\ row.pc = "deactivate" /\ row.turn = codex.turn /\ row.of = codex.turn
  BY <1>2, NoHookFacts DEF HookRow, Pc
<1> HIDE DEF row
<1>6. /\ hook' \in [Hook -> HookRow] /\ hook'["submit"] = hook["submit"]
      /\ hook'["stop"].pc = "deactivate" /\ hook'["stop"].turn = codex.turn
      /\ hook'["stop"].of = codex.turn
  BY <1>4, <1>5 DEF CInv, TypesOK, Hook
<1>7. /\ codex'.turn = codex.turn /\ codex'.stopped = TRUE /\ codex'.pid = codex.pid
      /\ codex'.submits = codex.submits
      /\ codex' = [pid |-> codex'.pid, turn |-> codex'.turn, submits |-> codex'.submits,
                   stopped |-> codex'.stopped]
  BY <1>3
<1>8. TypesOK'
  BY <1>1, <1>6, <1>7 DEF CInv, TypesOK
<1>9. RecordsOK' /\ OneEnabled'
  BY <1>1, <1>7 DEF CInv, RecordsOK, OneEnabled, Running, Enabled
<1>10. SubmitOK' /\ Cleaning'
  BY <1>1, <1>6 DEF SubmitOK, Cleaning
<1>11. StopOK'
  BY SMTT(40), <1>1, <1>2, <1>6, <1>7 DEF StopOK, Ending
<1>12. InHand'
  BY <1>1, <1>6 DEF CInv, InHand, Hook, Running
<1> QED BY <1>8, <1>9, <1>10, <1>11, <1>12 DEF CInv

\* The process ends, and a hook is killed.
LEMMA RestartKillStep ==
  ASSUME CInv, Restart \/ \E h \in Hook : Kill(h)
  PROVE  CInv'
<1>1. UNCHANGED <<owner, task, receipt>> /\ TasksOnlyEnd
  BY DEF Restart, Kill, files, server, CInv, TypesOK, TasksOnlyEnd, Running
<1>2. SameTurn
  <2>1. CASE Restart
    <3>1. codex' = [pid |-> codex.pid + 1, turn |-> codex.turn, submits |-> codex.submits, stopped |-> TRUE]
      BY <2>1 DEF Restart, CInv, TypesOK
    <3> QED BY SMTT(40), <3>1 DEF CInv, TypesOK, SameTurn
  <2>2. CASE \E h \in Hook : Kill(h)
    BY <2>2 DEF Kill, CInv, TypesOK, SameTurn
  <2> QED BY <2>1, <2>2
<1>3. \E h \in Hook : Gone(h)
  BY SMTT(40), NoHookFacts DEF Restart, Kill, Gone, CInv, TypesOK, Hook
<1> QED BY <1>1, <1>2, <1>3, Leaving

----------------------------------------------------------------------------
(* Hook steps *)

\* The submit hook and the stop hook are the only ones, and end known turns.
LEMMA HookFacts ==
  ASSUME CInv, NEW h \in Hook, hook[h].pc # "idle"
  PROVE  /\ TypesOK /\ codex.turn \in Nat /\ codex.turn <= MaxTurn
         /\ h = "submit" \/ h = "stop"
         /\ h = "stop" => hook[h].pc \in Ending
         /\ hook[h].pc \in Ending => hook[h].of \in Turn /\ hook[h].of <= codex.turn
         /\ h = "submit" => hook[h].turn = codex.turn /\ codex.turn \in Turn
<1>1. TypesOK /\ codex.turn \in Nat /\ codex.turn <= MaxTurn /\ (h = "submit" \/ h = "stop")
  BY SMTT(40), BoundAssumption DEF CInv, TypesOK, Hook
<1>2. CASE h = "submit"
  BY SMTT(40), <1>1, <1>2, BoundAssumption DEF CInv, SubmitOK, Turn
<1>3. CASE h = "stop"
  BY SMTT(40), <1>1, <1>3, BoundAssumption DEF CInv, StopOK, Turn
<1> QED BY <1>1, <1>2, <1>3

\* Tables that stay as they are stay in order.
LEMMA SameTables ==
  ASSUME CInv, UNCHANGED <<codex, owner, task, receipt>>, hook' \in [Hook -> HookRow]
  PROVE  /\ TypesOK' /\ RecordsOK' /\ OneEnabled'
         /\ \A k \in Turn : Running(k)' = Running(k) /\ Enabled(k)' = Enabled(k)
<1>1. TypesOK'
  BY DEF CInv, TypesOK
<1>2. \A k \in Turn : Running(k)' = Running(k) /\ Enabled(k)' = Enabled(k)
  BY DEF Running, Enabled
<1>3. RecordsOK'
  BY DEF CInv, RecordsOK, Running
<1>4. OneEnabled'
  BY DEF CInv, OneEnabled, Running, Enabled
<1> QED BY <1>1, <1>2, <1>3, <1>4

\* A hook that returns and changes nothing.
LEMMA JustReturns ==
  ASSUME CInv, NEW h \in Hook, Return(h), UNCHANGED <<codex, owner, task, receipt>>
  PROVE  CInv'
<1>1. Gone(h)
  BY ReturnFacts DEF CInv
<1>2. SameTurn /\ TasksOnlyEnd
  BY DEF CInv, TypesOK, SameTurn, TasksOnlyEnd, Running
<1> QED BY <1>1, <1>2, Leaving

\* The next record of another turn.
LEMMA ScanStep ==
  ASSUME CInv, NEW h \in Hook, Scan(h)
  PROVE  CInv'
<1>1. hook[h].pc = "scan" /\ UNCHANGED <<codex, owner, task, receipt>>
  BY DEF Scan, files, server
<1>2. /\ TypesOK /\ h = "submit" /\ hook[h].turn = codex.turn
      /\ codex.turn \in Turn /\ codex.turn \in Nat
  BY <1>1, HookFacts DEF Ending
<1>3. CASE hook[h].todo = {} /\ Goto(h, "record")
  <2>1. Goes(h, "record", hook[h].of, hook[h].own, hook[h].todo)
    BY <1>2, <1>3, GotoFacts DEF Pc
  <2>2. /\ hook' \in [Hook -> HookRow] /\ hook'["stop"] = hook["stop"]
        /\ hook'["submit"].pc = "record" /\ hook'["submit"].turn = hook["submit"].turn
        /\ hook'["submit"].todo = {}
    BY <1>2, <1>3, <2>1 DEF Goes, Hook
  <2>3. TypesOK' /\ RecordsOK' /\ OneEnabled'
        /\ \A k \in Turn : Running(k)' = Running(k) /\ Enabled(k)' = Enabled(k)
    BY <1>1, <2>2, SameTables
  <2>4. SubmitOK'
    BY <1>1, <1>2, <2>2 DEF SubmitOK, Ending
  <2>5. StopOK'
    BY <1>1, <1>2, <2>2 DEF CInv, StopOK
  <2>6. InHand'
    BY <2>2, <2>3 DEF CInv, InHand, Hook
  <2>7. Cleaning'
    BY <1>1, <1>2, <1>3, <2>2, <2>3 DEF CInv, Cleaning
  <2> QED BY <2>3, <2>4, <2>5, <2>6, <2>7 DEF CInv
<1>4. CASE \E k \in hook[h].todo : owner[k] = None /\ Return(h)
  BY <1>1, <1>4, JustReturns
<1>5. ASSUME NEW k \in hook[h].todo, owner[k] # None,
             hook' = [hook EXCEPT ![h].pc = "deactivate", ![h].of = k, ![h].todo = @ \ {k}]
      PROVE  CInv'
  <2>1. k \in Turn /\ k \in 1 .. codex.turn /\ k \in Nat /\ hook[h] \in HookRow
    BY SMTT(40), <1>1, <1>2, RowFields, BoundAssumption DEF CInv, SubmitOK, Turn
  <2> DEFINE row == [hook[h] EXCEPT !.pc = "deactivate", !.of = k, !.todo = @ \ {k}]
  <2>2. /\ row \in HookRow /\ row.pc = "deactivate" /\ row.turn = hook[h].turn
        /\ row.of = k /\ row.todo = hook[h].todo \ {k}
    BY <2>1 DEF HookRow, Pc
  <2>3. hook' = [hook EXCEPT ![h] = row]
    BY <1>5
  <2> HIDE DEF row
  <2>4. /\ hook' \in [Hook -> HookRow] /\ hook'["stop"] = hook["stop"]
        /\ hook'["submit"].pc = "deactivate" /\ hook'["submit"].turn = hook["submit"].turn
        /\ hook'["submit"].of = k /\ hook'["submit"].todo = hook["submit"].todo \ {k}
    BY <1>2, <2>2, <2>3 DEF TypesOK, Hook
  <2>5. TypesOK' /\ RecordsOK' /\ OneEnabled'
        /\ \A j \in Turn : Running(j)' = Running(j) /\ Enabled(j)' = Enabled(j)
    BY <1>1, <2>4, SameTables
  <2>6. k # codex.turn
    BY SMTT(40), <1>1, <1>2, <2>1 DEF CInv, SubmitOK
  <2>7. SubmitOK'
    BY <1>1, <1>2, <2>1, <2>4, <2>6 DEF CInv, SubmitOK, Ending
  <2>8. StopOK'
    BY <1>1, <1>2, <2>4 DEF CInv, StopOK
  <2>9. InHand'
    BY <2>4, <2>5 DEF CInv, InHand, Hook
  <2>10. Cleaning'
    BY <1>1, <1>2, <2>4, <2>5 DEF CInv, Cleaning
  <2> QED BY <2>5, <2>7, <2>8, <2>9, <2>10 DEF CInv
<1> QED BY <1>3, <1>4, <1>5 DEF Scan

\* Where a hook goes on without a record to disable.
LEMMA AfterDeactivateFacts ==
  /\ AfterDeactivate("stop") = "finalize"
  /\ hook["submit"].of # hook["submit"].turn => AfterDeactivate("submit") = "scan"
  /\ hook["submit"].of = hook["submit"].turn => AfterDeactivate("submit") = "cancel"
<1>1. AfterDeactivate("stop") = "finalize"
  BY DEF AfterDeactivate
<1>2. ASSUME hook["submit"].of # hook["submit"].turn
      PROVE  AfterDeactivate("submit") = "scan"
  BY <1>2 DEF AfterDeactivate
<1>3. ASSUME hook["submit"].of = hook["submit"].turn
      PROVE  AfterDeactivate("submit") = "cancel"
  BY <1>3 DEF AfterDeactivate
<1> QED BY <1>1, <1>2, <1>3

\* A hook reads the record it is going to disable.
LEMMA DeactivateStep ==
  ASSUME CInv, NEW h \in Hook, Deactivate(h)
  PROVE  CInv'
<1> DEFINE k == hook[h].of
<1>1. hook[h].pc = "deactivate" /\ UNCHANGED <<codex, owner, task, receipt>>
  BY DEF Deactivate, files, server
<1>2. /\ TypesOK /\ (h = "submit" \/ h = "stop")
      /\ k \in Turn /\ k <= codex.turn
      /\ h = "submit" => hook[h].turn = codex.turn /\ codex.turn \in Turn
  BY <1>1, HookFacts DEF Ending
<1>3. CASE owner[k] = None /\ Goto(h, AfterDeactivate(h))
  <2> DEFINE pc == AfterDeactivate(h)
  <2>1. \/ h = "stop" /\ pc = "finalize"
        \/ h = "submit" /\ k # hook[h].turn /\ pc = "scan"
        \/ h = "submit" /\ k = hook[h].turn /\ pc = "cancel"
    BY <1>2, AfterDeactivateFacts
  <2>2. pc \in Pc
    BY <2>1 DEF Pc
  <2> HIDE DEF pc
  <2>3. Goes(h, pc, hook[h].of, hook[h].own, hook[h].todo)
    BY <1>2, <1>3, <2>2, GotoFacts DEF pc
  <2>4. /\ hook' \in [Hook -> HookRow] /\ \A g \in Hook \ {h} : hook'[g] = hook[g]
        /\ hook'[h].pc = pc /\ hook'[h].turn = hook[h].turn /\ hook'[h].of = hook[h].of
        /\ hook'[h].own = hook[h].own /\ hook'[h].todo = hook[h].todo
    BY <2>3 DEF Goes
  <2>5. TypesOK' /\ RecordsOK' /\ OneEnabled'
        /\ \A j \in Turn : Running(j)' = Running(j) /\ Enabled(j)' = Enabled(j)
    BY <1>1, <2>4, SameTables
  <2>6. InHand'
    BY <2>1, <2>4, <2>5 DEF CInv, InHand
  <2>7. CASE h = "submit"
    <3>1. hook'["stop"] = hook["stop"]
      BY <2>4, <2>7 DEF Hook
    <3>2. SubmitOK'
      BY <1>1, <1>2, <2>1, <2>4, <2>7 DEF CInv, SubmitOK, Ending
    <3>3. StopOK'
      BY <1>1, <2>1, <2>4, <2>7, <3>1 DEF CInv, StopOK
    <3>4. ~Running(k) /\ ~Enabled(k)
      BY <1>2, <1>3 DEF CInv, RecordsOK, Enabled
    <3>5. Cleaning'
      BY <1>1, <1>2, <2>1, <2>4, <2>5, <2>7, <3>4 DEF CInv, Cleaning
    <3> QED BY <2>5, <2>6, <3>2, <3>3, <3>5 DEF CInv
  <2>8. CASE h = "stop"
    <3>1. hook'["submit"] = hook["submit"]
      BY <2>4, <2>8 DEF Hook
    <3>2. SubmitOK'
      BY <1>1, <3>1 DEF CInv, SubmitOK
    <3>3. StopOK'
      BY <1>1, <2>1, <2>4, <2>8, <3>1 DEF CInv, StopOK, Ending
    <3>4. Cleaning'
      BY <1>1, <2>5, <3>1 DEF CInv, Cleaning
    <3> QED BY <2>5, <2>6, <3>2, <3>3, <3>4 DEF CInv
  <2> QED BY <1>2, <2>7, <2>8
<1>4. CASE owner[k] # None /\ hook' = [hook EXCEPT ![h].pc = "persist", ![h].own = owner[k]]
  <2> DEFINE row == [hook[h] EXCEPT !.pc = "persist", !.own = owner[k]]
  <2>1. owner[k] \in OwnedTaskOwner \cup {None} /\ hook[h] \in HookRow
    BY <1>2, RowFields DEF TypesOK
  <2>2. /\ row \in HookRow /\ row.pc = "persist" /\ row.turn = hook[h].turn
        /\ row.of = hook[h].of /\ row.own = owner[k] /\ row.todo = hook[h].todo
    BY <2>1 DEF HookRow, Pc
  <2>3. hook' = [hook EXCEPT ![h] = row]
    BY <1>4
  <2> HIDE DEF row
  <2>4. /\ hook' \in [Hook -> HookRow] /\ \A g \in Hook \ {h} : hook'[g] = hook[g]
        /\ hook'[h].pc = "persist" /\ hook'[h].turn = hook[h].turn /\ hook'[h].of = hook[h].of
        /\ hook'[h].own # None /\ hook'[h].todo = hook[h].todo
    BY <1>2, <1>4, <2>2, <2>3 DEF TypesOK
  <2>5. TypesOK' /\ RecordsOK' /\ OneEnabled'
        /\ \A j \in Turn : Running(j)' = Running(j) /\ Enabled(j)' = Enabled(j)
    BY <1>1, <2>4, SameTables
  <2>6. InHand'
    BY <2>4, <2>5 DEF CInv, InHand
  <2>7. CASE h = "submit"
    <3>1. hook'["stop"] = hook["stop"]
      BY <2>4, <2>7 DEF Hook
    <3>2. SubmitOK' /\ StopOK'
      BY <1>1, <1>2, <2>4, <2>7, <3>1 DEF CInv, SubmitOK, StopOK, Ending
    <3>3. Cleaning'
      BY <1>1, <1>2, <2>4, <2>5, <2>7 DEF CInv, Cleaning
    <3> QED BY <2>5, <2>6, <3>2, <3>3 DEF CInv
  <2>8. CASE h = "stop"
    <3>1. hook'["submit"] = hook["submit"]
      BY <2>4, <2>8 DEF Hook
    <3>2. SubmitOK' /\ StopOK'
      BY <1>1, <2>4, <2>8, <3>1 DEF CInv, SubmitOK, StopOK, Ending
    <3>3. Cleaning'
      BY <1>1, <2>5, <3>1 DEF CInv, Cleaning
    <3> QED BY <2>5, <2>6, <3>2, <3>3 DEF CInv
  <2> QED BY <1>2, <2>7, <2>8
<1> QED BY <1>3, <1>4 DEF Deactivate

\* A hook writes the disabled record over whatever is there.
LEMMA PersistStep ==
  ASSUME CInv, NEW h \in Hook, Persist(h)
  PROVE  CInv'
<1> DEFINE k == hook[h].of
           p == IF k # hook[h].turn THEN "finalize" ELSE AfterDeactivate(h)
           rec == [hook[h].own EXCEPT !.enabled = FALSE]
           row == [hook[h] EXCEPT !.pc = p, !.own = None]
<1>1. /\ hook[h].pc = "persist" /\ UNCHANGED <<codex, task, receipt>>
      /\ owner' = [owner EXCEPT ![k] = rec] /\ hook' = [hook EXCEPT ![h] = row]
  BY DEF Persist, server
<1>2. /\ TypesOK /\ (h = "submit" \/ h = "stop")
      /\ k \in Turn /\ k <= codex.turn /\ codex.turn \in Nat
      /\ h = "submit" => hook[h].turn = codex.turn /\ codex.turn \in Turn
      /\ h = "stop" => k = hook[h].turn
  BY <1>1, HookFacts DEF Ending, CInv, StopOK
<1>3. /\ p \in {"finalize", "cancel"}
      /\ h = "submit" /\ k # hook[h].turn => p = "finalize"
  BY SMTT(40), <1>2, AfterDeactivateFacts
<1>4. hook[h].own \in OwnedTaskOwner
  BY <1>1, <1>2, RowFields DEF CInv, InHand
<1>5. rec \in OwnedTaskOwner /\ rec # None /\ rec.enabled = FALSE
  BY <1>4, NoneAssumption DEF OwnedTaskOwner
<1> HIDE DEF p, rec
<1>6. /\ row \in HookRow /\ row.pc = p /\ row.turn = hook[h].turn
      /\ row.of = hook[h].of /\ row.todo = hook[h].todo
  BY <1>2, <1>3, RowFields DEF HookRow, Pc
<1> HIDE DEF row
<1>7. /\ hook' \in [Hook -> HookRow] /\ \A g \in Hook \ {h} : hook'[g] = hook[g]
      /\ hook'[h].pc = p /\ hook'[h].turn = hook[h].turn
      /\ hook'[h].of = k /\ hook'[h].todo = hook[h].todo
  BY <1>1, <1>2, <1>6 DEF TypesOK
<1>8. /\ owner' \in [Turn -> OwnedTaskOwner \cup {None}]
      /\ owner'[k] = rec /\ \A j \in Turn \ {k} : owner'[j] = owner[j]
  BY <1>1, <1>2, <1>5 DEF TypesOK
<1>9. TypesOK'
  BY <1>1, <1>2, <1>7, <1>8 DEF TypesOK
<1>10. \A j \in Turn : /\ Running(j)' = Running(j) /\ (Enabled(j)' => Enabled(j) /\ j # k)
  BY <1>1, <1>5, <1>8 DEF Running, Enabled
<1>11. RecordsOK'
  BY <1>1, <1>2, <1>5, <1>8, <1>10 DEF CInv, RecordsOK
<1>12. OneEnabled'
  BY <1>10 DEF CInv, OneEnabled
<1>13. InHand'
  BY <1>3, <1>7, <1>10 DEF CInv, InHand
<1>14. CASE h = "submit"
  <2>1. hook'["stop"] = hook["stop"]
    BY <1>7, <1>14 DEF Hook
  <2>2. SubmitOK'
    BY <1>1, <1>2, <1>3, <1>7, <1>14 DEF CInv, SubmitOK, Ending
  <2>3. StopOK'
    BY <1>1, <1>3, <1>7, <1>14, <2>1 DEF CInv, StopOK
  <2>4. Cleaning'
    BY <1>1, <1>2, <1>3, <1>7, <1>10, <1>14 DEF CInv, Cleaning
  <2> QED BY <1>9, <1>11, <1>12, <1>13, <2>2, <2>3, <2>4 DEF CInv
<1>15. CASE h = "stop"
  <2>1. hook'["submit"] = hook["submit"]
    BY <1>7, <1>15 DEF Hook
  <2>2. hook["submit"].pc # "idle" => k # codex.turn
    BY <1>1, <1>15 DEF CInv, StopOK
  <2>3. SubmitOK'
    BY SMTT(40), <1>1, <1>8, <2>1, <2>2 DEF CInv, SubmitOK
  <2>4. StopOK'
    BY <1>1, <1>3, <1>7, <1>15, <2>1 DEF CInv, StopOK, Ending
  <2>5. Cleaning'
    BY <1>1, <1>10, <2>1 DEF CInv, Cleaning
  <2> QED BY <1>9, <1>11, <1>12, <1>13, <2>3, <2>4, <2>5 DEF CInv
<1> QED BY <1>2, <1>14, <1>15

\* A hook ends the task of the turn in hand.
LEMMA EndTaskStep ==
  ASSUME CInv, NEW h \in Hook, EndTask(h)
  PROVE  CInv'
<1> DEFINE k == hook[h].of
<1>1. /\ hook[h].pc \in {"finalize", "cancel"} /\ UNCHANGED <<codex, owner, receipt>>
      /\ task' = [task EXCEPT ![k] = Ended(k)] \/ task' = task
  BY DEF EndTask, files
<1>2. /\ TypesOK /\ (h = "submit" \/ h = "stop") /\ k \in Turn /\ k <= codex.turn
      /\ h = "submit" => hook[h].turn = codex.turn /\ codex.turn \in Turn
  BY <1>1, HookFacts DEF Ending
<1>3. task[k] \in {"none", "active", "draining", "ended"}
  BY <1>2 DEF TypesOK
<1>4. /\ Ended(k) \in {"none", "draining", "ended"}
      /\ Ended(k) = "draining" => Running(k)
      /\ task[k] = "none" => Ended(k) = "none"
  BY <1>3 DEF Ended, Running
<1>5. TasksOnlyEnd
  BY <1>1, <1>2, <1>4 DEF TypesOK, TasksOnlyEnd, Running
<1>6. SameTurn
  BY <1>1, <1>2 DEF TypesOK, SameTurn
<1>7. CASE Return(h)
  BY <1>1, <1>2, <1>5, <1>6, <1>7, ReturnFacts, Leaving
<1>8. ASSUME NEW p \in {"cancel", "remove"}, Goto(h, p), p = "remove" => task'[k] \notin {"active", "draining"}
      PROVE  CInv'
  <2>1. Goes(h, p, hook[h].of, hook[h].own, hook[h].todo)
    BY <1>2, <1>8, GotoFacts DEF Pc
  <2>2. /\ hook' \in [Hook -> HookRow] /\ \A g \in Hook \ {h} : hook'[g] = hook[g]
        /\ hook'[h].pc = p /\ hook'[h].turn = hook[h].turn
        /\ hook'[h].of = k /\ hook'[h].todo = hook[h].todo
    BY <2>1 DEF Goes
  <2>3. TypesOK'
    BY <1>1, <1>2, <1>5, <2>2 DEF TypesOK, TasksOnlyEnd
  <2>4. \A j \in Turn : (Running(j)' => Running(j)) /\ (Enabled(j)' = Enabled(j))
    BY <1>1, <1>5 DEF TasksOnlyEnd, Enabled
  <2>5. RecordsOK'
    BY <1>1, <1>5, <2>4 DEF CInv, RecordsOK, TasksOnlyEnd
  <2>6. OneEnabled'
    BY <2>4 DEF CInv, OneEnabled
  <2>7. InHand'
    BY SMTT(40), <1>8, <2>2, <2>4 DEF CInv, InHand, Running
  <2>8. CASE h = "submit"
    <3>1. hook'["stop"] = hook["stop"]
      BY <2>2, <2>8 DEF Hook
    <3>2. SubmitOK'
      BY <1>1, <1>2, <2>2, <2>8 DEF CInv, SubmitOK, Ending
    <3>3. StopOK'
      BY <1>1, <2>2, <2>8, <3>1 DEF CInv, StopOK
    <3>4. Cleaning'
      BY <1>1, <1>2, <1>8, <2>2, <2>4, <2>8 DEF CInv, Cleaning, Running
    <3> QED BY <2>3, <2>5, <2>6, <2>7, <3>2, <3>3, <3>4 DEF CInv
  <2>9. CASE h = "stop"
    <3>1. hook'["submit"] = hook["submit"]
      BY <2>2, <2>9 DEF Hook
    <3>2. SubmitOK'
      BY <1>1, <3>1 DEF CInv, SubmitOK
    <3>3. StopOK'
      BY <1>1, <2>2, <2>9, <3>1 DEF CInv, StopOK, Ending
    <3>4. Cleaning'
      BY <1>1, <2>4, <3>1 DEF CInv, Cleaning
    <3> QED BY <2>3, <2>5, <2>6, <2>7, <3>2, <3>3, <3>4 DEF CInv
  <2> QED BY <1>2, <2>8, <2>9
<1>9. CASE task' = [task EXCEPT ![k] = Ended(k)] /\ FinishCodexOwner(h, k)
  <2>1. task'[k] = Ended(k)
    BY <1>2, <1>9 DEF TypesOK
  <2>2. Return(h) \/ (Goto(h, "remove") /\ task'[k] \notin {"active", "draining"})
    BY <1>4, <1>9, <2>1 DEF FinishCodexOwner
  <2> QED BY <1>7, <1>8, <2>2
<1>10. CASE Goto(h, "cancel")
  BY <1>8, <1>10
<1> QED BY <1>7, <1>9, <1>10 DEF EndTask

\* A hook removes the record of a task that has ended.
LEMMA RemoveOwnerStep ==
  ASSUME CInv, NEW h \in Hook, RemoveOwner(h)
  PROVE  CInv'
<1> DEFINE k == hook[h].of
<1>1. /\ hook[h].pc = "remove" /\ UNCHANGED <<codex, task, receipt>>
      /\ owner' = [owner EXCEPT ![k] = None]
  BY DEF RemoveOwner, server
<1>2. /\ TypesOK /\ (h = "submit" \/ h = "stop") /\ k \in Turn /\ k <= codex.turn
      /\ h = "submit" => hook[h].turn = codex.turn /\ codex.turn \in Turn
  BY <1>1, HookFacts DEF Ending
<1>3. /\ hook' \in [Hook -> HookRow] /\ \A g \in Hook \ {h} : hook'[g] = hook[g]
      /\ \/ hook'[h].pc = "idle"
         \/ /\ h = "submit" /\ k # hook[h].turn
            /\ hook'[h].pc = "scan" /\ hook'[h].turn = hook[h].turn /\ hook'[h].todo = hook[h].todo
  <2>1. CASE Return(h)
    BY <1>2, <2>1, ReturnFacts DEF Gone
  <2>2. CASE h = "submit" /\ k # hook[h].turn /\ hook' = [hook EXCEPT ![h].pc = "scan", ![h].of = 0]
    <3> DEFINE row == [hook[h] EXCEPT !.pc = "scan", !.of = 0]
    <3>1. /\ row \in HookRow /\ row.pc = "scan" /\ row.turn = hook[h].turn /\ row.todo = hook[h].todo
      BY <1>2, RowFields DEF HookRow, Pc
    <3>2. hook' = [hook EXCEPT ![h] = row]
      BY <2>2
    <3> HIDE DEF row
    <3>3. /\ hook' \in [Hook -> HookRow] /\ hook'[h] = row
          /\ \A g \in Hook \ {h} : hook'[g] = hook[g]
      BY <1>2, <3>1, <3>2 DEF TypesOK
    <3> QED BY <2>2, <3>1, <3>3
  <2> QED BY <2>1, <2>2 DEF RemoveOwner
<1>4. /\ owner' \in [Turn -> OwnedTaskOwner \cup {None}]
      /\ owner'[k] = None /\ \A j \in Turn \ {k} : owner'[j] = owner[j]
  BY <1>1, <1>2 DEF TypesOK
<1>5. TypesOK'
  BY <1>1, <1>2, <1>3, <1>4 DEF TypesOK
<1>6. ~Running(k)
  BY <1>1, <1>2 DEF CInv, InHand
<1>7. \A j \in Turn : /\ Running(j)' = Running(j) /\ (Running(j) => j # k)
                      /\ Enabled(j)' => Enabled(j) /\ j # k
  BY <1>1, <1>4, <1>6 DEF Running, Enabled
<1>8. RecordsOK'
  BY <1>1, <1>4, <1>7 DEF CInv, RecordsOK
<1>9. OneEnabled'
  BY <1>7 DEF CInv, OneEnabled
<1>10. InHand'
  BY <1>3, <1>7 DEF CInv, InHand
<1>11. CASE h = "submit"
  <2>1. hook'["stop"] = hook["stop"]
    BY <1>3, <1>11 DEF Hook
  <2>2. SubmitOK'
    BY <1>1, <1>2, <1>3, <1>11 DEF CInv, SubmitOK, Ending
  <2>3. StopOK'
    BY <1>1, <1>3, <1>11, <2>1 DEF CInv, StopOK
  <2>4. Cleaning'
    BY <1>1, <1>2, <1>3, <1>7, <1>11 DEF CInv, Cleaning
  <2> QED BY <1>5, <1>8, <1>9, <1>10, <2>2, <2>3, <2>4 DEF CInv
<1>12. CASE h = "stop"
  <2>1. hook'["submit"] = hook["submit"] /\ hook'["stop"].pc = "idle"
    BY <1>3, <1>12 DEF Hook
  <2>2. hook["submit"].pc # "idle" => k # codex.turn
    BY <1>1, <1>12 DEF CInv, StopOK
  <2>3. SubmitOK'
    BY SMTT(40), <1>1, <1>4, <2>1, <2>2 DEF CInv, SubmitOK
  <2>4. StopOK'
    BY <2>1 DEF StopOK
  <2>5. Cleaning'
    BY <1>1, <1>7, <2>1 DEF CInv, Cleaning
  <2> QED BY <1>5, <1>8, <1>9, <1>10, <2>3, <2>4, <2>5 DEF CInv
<1> QED BY <1>2, <1>11, <1>12

\* A submit hook past its cleanup: no other turn has a task or an enabled record.
LEMMA CleanedUp ==
  ASSUME CInv, NEW h \in Hook, hook[h].pc \in {"record", "start", "spawn"}
  PROVE  /\ h = "submit" /\ hook[h].turn = codex.turn /\ hook[h].todo = {}
         /\ codex.turn \in Turn /\ codex.turn \in Nat
         /\ \A j \in Turn \ {codex.turn} : ~Running(j) /\ ~Enabled(j)
         /\ hook["stop"].pc # "idle" => hook["stop"].of # codex.turn
         /\ hook[h].pc \in {"start", "spawn"} =>
              /\ hook[h].own = owner[codex.turn] /\ owner[codex.turn] # None
              /\ hook[h].own \in OwnedTaskOwner
<1>1. /\ h = "submit" /\ hook[h].turn = codex.turn /\ codex.turn \in Turn /\ codex.turn \in Nat
      /\ TypesOK
  BY HookFacts DEF Ending
<1>2. hook[h].todo = {}
  BY <1>1 DEF CInv, SubmitOK
<1>3. \A j \in Turn \ {codex.turn} : ~Running(j) /\ ~Enabled(j)
  BY <1>1, <1>2 DEF CInv, Cleaning
<1>4. hook["stop"].pc # "idle" => hook["stop"].of # codex.turn
  BY <1>1 DEF CInv, StopOK
<1>5. hook[h].pc \in {"start", "spawn"} => hook[h].own = owner[codex.turn] /\ owner[codex.turn] # None
  BY <1>1 DEF CInv, SubmitOK
<1> QED BY <1>1, <1>2, <1>3, <1>4, <1>5, RowFields

\* What remains to be shown of a step of the submit hook past its cleanup.
LEMMA SubmitGoesOn ==
  ASSUME CInv, hook["submit"].pc \in {"record", "start", "spawn"}, codex' = codex,
         hook' \in [Hook -> HookRow], hook'["stop"] = hook["stop"],
         TypesOK', RecordsOK', OneEnabled', SubmitOK',
         \A j \in Turn \ {codex.turn} : ~Running(j)' /\ ~Enabled(j)',
         hook'["submit"].pc \in {"idle", "start", "spawn", "deactivate", "remove"},
         hook'["submit"].pc = "remove" => task'[codex.turn] = "none" /\ hook'["submit"].of = codex.turn
  PROVE  CInv'
<1>1. "submit" \in Hook /\ "stop" \in Hook
  BY DEF Hook
<1>2. hook["stop"].pc # "idle" => hook["stop"].of # codex.turn
  BY <1>1, CleanedUp
<1>3. StopOK'
  BY <1>2 DEF CInv, StopOK
<1>4. Cleaning'
  BY DEF Cleaning
<1>5. InHand'
  BY <1>1, <1>2 DEF CInv, InHand, Hook, Running
<1> QED BY <1>3, <1>4, <1>5 DEF CInv

\* The submit hook creates the record of its turn, or finds its own.
LEMMA RecordOwnerStep ==
  ASSUME CInv, NEW h \in Hook, RecordOwner(h)
  PROVE  CInv'
<1> DEFINE m == codex.turn
<1>1. hook[h].pc = "record" /\ UNCHANGED <<codex, task, receipt>>
  BY DEF RecordOwner, server
<1>2. /\ h = "submit" /\ hook[h].turn = m /\ hook[h].todo = {} /\ m \in Turn /\ m \in Nat
      /\ \A j \in Turn \ {m} : ~Running(j) /\ ~Enabled(j)
  BY <1>1, CleanedUp
<1>3. TypesOK /\ hook[h] \in HookRow
  BY RowFields DEF CInv
<1>4. ASSUME NEW own \in OwnedTaskOwner, own # None, owner' = [owner EXCEPT ![m] = own],
             hook' = [hook EXCEPT ![h].pc = "start", ![h].own = own]
      PROVE  CInv'
  <2> DEFINE row == [hook[h] EXCEPT !.pc = "start", !.own = own]
  <2>1. /\ row \in HookRow /\ row.pc = "start" /\ row.turn = hook[h].turn
        /\ row.own = own /\ row.todo = hook[h].todo
    BY <1>3 DEF HookRow, Pc
  <2>2. hook' = [hook EXCEPT ![h] = row]
    BY <1>4
  <2> HIDE DEF row
  <2>3. /\ hook' \in [Hook -> HookRow] /\ hook'["stop"] = hook["stop"]
        /\ hook'["submit"] = row
    BY <1>2, <1>3, <2>1, <2>2 DEF TypesOK, Hook
  <2>4. /\ owner' \in [Turn -> OwnedTaskOwner \cup {None}] /\ owner'[m] = own
        /\ \A j \in Turn \ {m} : owner'[j] = owner[j]
    BY <1>2, <1>3, <1>4 DEF TypesOK
  <2>5. TypesOK'
    BY <1>1, <1>3, <2>3, <2>4 DEF TypesOK
  <2>6. \A j \in Turn \ {m} : ~Running(j)' /\ ~Enabled(j)'
    BY <1>1, <1>2, <2>4 DEF Running, Enabled
  <2>7. RecordsOK'
    BY SMTT(40), <1>1, <1>2, <1>4, <2>4, <2>6 DEF CInv, RecordsOK, Running
  <2>8. OneEnabled'
    BY SMTT(40), <1>2, <2>6 DEF OneEnabled, Turn
  <2>9. SubmitOK'
    BY SMTT(40), <1>1, <1>2, <1>4, <2>1, <2>3, <2>4 DEF SubmitOK, Ending
  <2> QED BY <1>1, <1>2, <2>1, <2>3, <2>5, <2>6, <2>7, <2>8, <2>9, SubmitGoesOn
<1>5. CASE owner[m] = None
  <2>1. PICK v \in BOOLEAN :
          LET new == [pid |-> codex.pid, enabled |-> TRUE, start |-> codex.submits, valid |-> v]
          IN  /\ owner' = [owner EXCEPT ![m] = new]
              /\ hook' = [hook EXCEPT ![h].pc = "start", ![h].own = new]
    BY <1>2, <1>5 DEF RecordOwner
  <2> DEFINE new == [pid |-> codex.pid, enabled |-> TRUE, start |-> codex.submits, valid |-> v]
  <2>2. new \in OwnedTaskOwner /\ new # None
    <3>1. codex.pid \in Nat /\ codex.submits \in Nat
      BY <1>3 DEF TypesOK
    <3>2. new \in OwnedTaskOwner
      BY <3>1 DEF OwnedTaskOwner
    <3> QED BY <3>2, NoneAssumption
  <2>3. owner' = [owner EXCEPT ![m] = new] /\ hook' = [hook EXCEPT ![h].pc = "start", ![h].own = new]
    BY <2>1
  <2> HIDE DEF new
  <2> QED BY <1>4, <2>2, <2>3
<1>6. CASE owner[m] # None /\ owner' = owner /\ hook' = [hook EXCEPT ![h].pc = "start", ![h].own = owner[m]]
  <2>1. owner[m] \in OwnedTaskOwner /\ owner' = [owner EXCEPT ![m] = owner[m]]
    BY <1>2, <1>3, <1>6 DEF TypesOK
  <2> QED BY <1>4, <1>6, <2>1
<1>7. CASE owner' = owner /\ Return(h)
  BY <1>1, <1>7, JustReturns
<1> QED BY <1>2, <1>5, <1>6, <1>7 DEF RecordOwner

\* The submit hook starts the task of its turn, or finds that it cannot.
LEMMA StartTaskStep ==
  ASSUME CInv, NEW h \in Hook, StartTask(h)
  PROVE  CInv'
<1> DEFINE m == codex.turn
<1>1. hook[h].pc = "start" /\ UNCHANGED <<codex, owner>>
  BY DEF StartTask, files
<1>2. /\ h = "submit" /\ hook[h].turn = m /\ hook[h].todo = {} /\ m \in Turn /\ m \in Nat
      /\ \A j \in Turn \ {m} : ~Running(j) /\ ~Enabled(j)
      /\ hook[h].own = owner[m] /\ owner[m] # None /\ hook[h].own \in OwnedTaskOwner
  BY <1>1, CleanedUp
<1>3. TypesOK /\ hook[h] \in HookRow
  BY RowFields DEF CInv
<1>4. CASE /\ receipt' = [receipt EXCEPT ![m] = hook[h].own.start]
           /\ task' = [task EXCEPT ![m] = IF @ = "none" THEN "active" ELSE @]
           /\ Goto(h, "spawn") \/ Return(h)
  <2>1. /\ hook' \in [Hook -> HookRow] /\ hook'["stop"] = hook["stop"]
        /\ \/ hook'["submit"].pc = "idle"
           \/ /\ hook'["submit"].pc = "spawn" /\ hook'["submit"].turn = m
              /\ hook'["submit"].own = hook["submit"].own /\ hook'["submit"].todo = {}
    <3>1. CASE Goto(h, "spawn")
      <4>1. Goes(h, "spawn", hook[h].of, hook[h].own, hook[h].todo)
        BY <1>3, <3>1, GotoFacts DEF Pc
      <4> QED BY <1>2, <4>1 DEF Goes, Hook
    <3>2. CASE Return(h)
      BY <1>2, <1>3, <3>2, ReturnFacts DEF Gone, Hook
    <3> QED BY <1>4, <3>1, <3>2
  <2>2. hook[h].own.start \in Nat /\ hook[h].own.start # None
    BY <1>2, NoneAssumption DEF OwnedTaskOwner
  <2>3. /\ receipt' \in [Turn -> Nat \cup {None}] /\ receipt'[m] # None
        /\ task' \in [Turn -> {"none", "active", "draining", "ended"}]
        /\ \A j \in Turn \ {m} : receipt'[j] = receipt[j] /\ task'[j] = task[j]
    BY <1>2, <1>3, <1>4, <2>2 DEF TypesOK
  <2>4. TypesOK'
    BY <1>1, <1>3, <2>1, <2>3 DEF TypesOK
  <2>5. \A j \in Turn \ {m} : ~Running(j)' /\ ~Enabled(j)'
    BY <1>1, <1>2, <2>3 DEF Running, Enabled
  <2>6. RecordsOK'
    BY <1>1, <1>2, <2>3, <2>5 DEF CInv, RecordsOK
  <2>7. OneEnabled'
    BY SMTT(40), <1>2, <2>5 DEF OneEnabled, Turn
  <2>8. SubmitOK'
    BY <1>1, <1>2, <2>1 DEF SubmitOK, Ending
  <2> QED BY <1>1, <1>2, <2>1, <2>4, <2>5, <2>6, <2>7, <2>8, SubmitGoesOn
<1>5. CASE Return(h) /\ UNCHANGED <<task, receipt>>
  BY <1>1, <1>5, JustReturns
<1>6. CASE /\ receipt[m] = None /\ hook' = [hook EXCEPT ![h].pc = "remove", ![h].of = m]
           /\ UNCHANGED <<task, receipt>>
  <2> DEFINE row == [hook[h] EXCEPT !.pc = "remove", !.of = m]
  <2>1. /\ row \in HookRow /\ row.pc = "remove" /\ row.turn = hook[h].turn
        /\ row.of = m /\ row.todo = hook[h].todo
    BY <1>2, <1>3 DEF HookRow, Pc
  <2>2. hook' = [hook EXCEPT ![h] = row]
    BY <1>6
  <2> HIDE DEF row
  <2>3. /\ hook' \in [Hook -> HookRow] /\ hook'["stop"] = hook["stop"]
        /\ hook'["submit"] = row
    BY <1>2, <1>3, <2>1, <2>2 DEF TypesOK, Hook
  <2>4. TypesOK' /\ RecordsOK' /\ OneEnabled'
        /\ \A j \in Turn : Running(j)' = Running(j) /\ Enabled(j)' = Enabled(j)
    BY <1>1, <1>6, <2>3, SameTables
  <2>5. task'[m] = "none"
    BY <1>2, <1>6 DEF CInv, RecordsOK
  <2>6. SubmitOK'
    <3>1. m \in 1 .. m
      BY SMTT(40), <1>2 DEF Turn
    <3> QED BY <1>1, <1>2, <2>1, <2>3, <3>1 DEF SubmitOK, Ending
  <2> QED BY <1>1, <1>2, <2>1, <2>3, <2>4, <2>5, <2>6, SubmitGoesOn
<1> QED BY <1>2, <1>4, <1>5, <1>6 DEF StartTask

\* The submit hook leaves a heartbeat helper behind, or undoes what it did.
LEMMA SpawnStep ==
  ASSUME CInv, NEW h \in Hook, Spawn(h)
  PROVE  CInv'
<1> DEFINE m == codex.turn
<1>1. hook[h].pc = "spawn" /\ UNCHANGED <<codex, owner, task, receipt>>
  BY DEF Spawn, server
<1>2. /\ h = "submit" /\ hook[h].turn = m /\ hook[h].todo = {} /\ m \in Turn /\ m \in Nat
      /\ \A j \in Turn \ {m} : ~Running(j) /\ ~Enabled(j)
  BY <1>1, CleanedUp
<1>3. TypesOK /\ hook[h] \in HookRow
  BY RowFields DEF CInv
<1>4. CASE Return(h)
  BY <1>1, <1>4, JustReturns
<1>5. CASE hook' = [hook EXCEPT ![h].pc = "deactivate", ![h].of = m]
  <2> DEFINE row == [hook[h] EXCEPT !.pc = "deactivate", !.of = m]
  <2>1. /\ row \in HookRow /\ row.pc = "deactivate" /\ row.turn = hook[h].turn
        /\ row.of = m /\ row.todo = hook[h].todo
    BY <1>2, <1>3 DEF HookRow, Pc
  <2>2. hook' = [hook EXCEPT ![h] = row]
    BY <1>5
  <2> HIDE DEF row
  <2>3. /\ hook' \in [Hook -> HookRow] /\ hook'["stop"] = hook["stop"]
        /\ hook'["submit"] = row
    BY <1>2, <1>3, <2>1, <2>2 DEF TypesOK, Hook
  <2>4. TypesOK' /\ RecordsOK' /\ OneEnabled'
        /\ \A j \in Turn : Running(j)' = Running(j) /\ Enabled(j)' = Enabled(j)
    BY <1>1, <2>3, SameTables
  <2>5. SubmitOK'
    <3>1. m \in 1 .. m
      BY SMTT(40), <1>2 DEF Turn
    <3> QED BY <1>1, <1>2, <2>1, <2>3, <3>1 DEF SubmitOK, Ending
  <2> QED BY <1>1, <1>2, <2>1, <2>3, <2>4, <2>5, SubmitGoesOn
<1> QED BY <1>2, <1>4, <1>5 DEF Spawn

----------------------------------------------------------------------------
(* The induction *)

\* Helpers, wrappers and time end tasks at most.
LEMMA SurroundingsStep ==
  ASSUME CInv,
         \/ \E x \in helper : HelperCheck(x) \/ HelperPost(x)
         \/ \E k \in Turn : WrapperWrites(k) \/ WriteEnds(k) \/ Lapse(k)
         \/ UNCHANGED vars
  PROVE  CInv'
<1>1. UNCHANGED <<codex, owner, hook, receipt>>
  BY DEF HelperCheck, HelperPost, WrapperWrites, WriteEnds, Lapse, vars, files, server
<1>2. task' = task \/ \E k \in Turn : /\ task' = [task EXCEPT ![k] = "ended"] \/ task' = [task EXCEPT ![k] = "draining"]
                                      /\ Running(k)
  <2>1. CASE \E x \in helper : HelperCheck(x) \/ HelperPost(x)
    BY <2>1 DEF HelperCheck, HelperPost, server
  <2>2. ASSUME NEW k \in Turn, WrapperWrites(k)
        PROVE  task' = task
    BY <2>2 DEF WrapperWrites
  <2>3. ASSUME NEW k \in Turn, WriteEnds(k)
        PROVE  task' = task \/ (task' = [task EXCEPT ![k] = "ended"] /\ Running(k))
    BY <2>3 DEF WriteEnds, Running, CInv, TypesOK
  <2>4. ASSUME NEW k \in Turn, Lapse(k)
        PROVE  task' = task \/ (/\ task' = [task EXCEPT ![k] = "ended"] \/ task' = [task EXCEPT ![k] = "draining"]
                                /\ Running(k))
    BY <2>4 DEF Lapse, Ended, Running
  <2> QED BY <2>1, <2>2, <2>3, <2>4 DEF vars
<1>3. TasksOnlyEnd
  BY <1>2 DEF CInv, TypesOK, TasksOnlyEnd, Running
<1>4. SameTurn
  BY <1>1 DEF CInv, TypesOK, SameTurn
<1> QED BY <1>1, <1>3, <1>4, Leaving

\* The invariant holds initially.
LEMMA CInitOK == Init => CInv
<1> SUFFICES ASSUME Init PROVE CInv
  OBVIOUS
<1>1. /\ codex = [pid |-> 1, turn |-> 0, submits |-> 0, stopped |-> FALSE]
      /\ owner = [k \in Turn |-> None] /\ hook = [h \in Hook |-> NoHook]
      /\ task = [k \in Turn |-> "none"] /\ receipt = [k \in Turn |-> None]
  BY DEF Init
<1>2. \A h \in Hook : hook[h].pc = "idle"
  BY <1>1, NoHookFacts
<1>3. hook["submit"].pc = "idle" /\ hook["stop"].pc = "idle"
  BY <1>2 DEF Hook
<1>4. TypesOK
  BY SMTT(40), <1>1, NoHookFacts, BoundAssumption DEF TypesOK
<1>5. RecordsOK /\ OneEnabled
  BY <1>1 DEF RecordsOK, OneEnabled, Running, Enabled
<1>6. SubmitOK /\ StopOK /\ InHand /\ Cleaning
  BY <1>2, <1>3 DEF SubmitOK, StopOK, InHand, Cleaning
<1> QED BY <1>4, <1>5, <1>6 DEF CInv

\* Every step keeps it.
LEMMA CNextOK == CInv /\ [Next]_vars => CInv'
  BY SubmitStep, StopStep, RestartKillStep, ScanStep, DeactivateStep, PersistStep, EndTaskStep,
     RemoveOwnerStep, RecordOwnerStep, StartTaskStep, SpawnStep, SurroundingsStep
     DEF Next, HookStep

\* A wrapper can act for a turn only when no earlier turn of the session has a
\* task that is still active or draining: cleanup_missed_codex_owners ends a turn
\* whose stop was missed, or refuses the new one.
THEOREM TurnsAreSerial == FairSpec => []SerialTurns
<1>1. CInv => SerialTurns
  BY SMTT(40), BoundAssumption DEF CInv, OneEnabled, Enabled, Running, SerialTurns, LiveOwners, Turn
<1> QED BY <1>1, CInitOK, CNextOK, PTL DEF FairSpec

\* resolve_owned_wrapper_task never meets two live records of one session: a stop
\* hook that comes late writes back a record it has disabled.
THEOREM OwnersAreUnique == FairSpec => []OneLiveOwner
<1>1. CInv => OneLiveOwner
  <2> SUFFICES ASSUME CInv PROVE OneLiveOwner
    OBVIOUS
  <2>1. \A j, k \in LiveOwners : j = k
    BY DEF CInv, OneEnabled, Enabled, LiveOwners
  <2>2. LiveOwners = {} \/ \E k : LiveOwners = {k}
    BY SMTT(40), <2>1
  <2>3. Cardinality(LiveOwners) = 0 \/ Cardinality(LiveOwners) = 1
    BY <2>2, FS_EmptySet, FS_Singleton
  <2> QED BY SMTT(40), <2>3 DEF OneLiveOwner
<1> QED BY <1>1, CInitOK, CNextOK, PTL DEF FairSpec

============================================================================
