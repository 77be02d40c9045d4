----------------------------- MODULE CodexOwners -----------------------------
(***************************************************************************)
(* The Codex hooks of one session (stateful-cli/src/hook.rs): the owner    *)
(* record each turn keeps in the repository, the hook processes that       *)
(* create, disable and remove it, and the heartbeat helpers that keep a    *)
(* turn's task alive while its record stays as they were given it.         *)
(*                                                                         *)
(* Codex submits a prompt, or stops a turn, only when no submit hook is at *)
(* work any more; it may deliver a submit twice and may not wait for a     *)
(* stop hook. A hook may be killed between any two steps. Reading a record *)
(* and writing it back are separate steps; creating one is a single hard   *)
(* link.                                                                   *)
(***************************************************************************)
EXTENDS Naturals, FiniteSets

CONSTANTS
    MaxTurn,    \* bounds on prompts,
    MaxPid,     \*   on processes of the session (it can be resumed)
    MaxSubmit,  \*   and on deliveries of one submit
    None

ASSUME BoundAssumption == MaxTurn \in Nat /\ MaxPid \in Nat /\ MaxSubmit \in Nat

\* OwnedTaskOwner: the process, whether the record is enabled, and the task.start it
\* keeps, which the server finds valid or not.
OwnedTaskOwner == [pid : Nat, enabled : BOOLEAN, start : Nat, valid : BOOLEAN]

ASSUME NoneAssumption == None \notin OwnedTaskOwner /\ None \notin Nat

VARIABLES
    codex,      \* [pid, turn, submits, stopped]: the session's process and turn
    owner,      \* the owner record of each turn
    hook,       \* the hook processes
    helper,     \* the heartbeat helpers: [turn, own, pc]
    task,       \* the coordinator's view of each turn's task
    receipt,    \* the payload of the accepted task.start of each turn
    beat,       \* turns with a heartbeat since the last sweep
    busy        \* turns with a write in flight

files == <<owner, helper>>
server == <<task, receipt, beat, busy>>
vars == <<codex, owner, hook, helper, task, receipt, beat, busy>>

Turn == 1 .. MaxTurn

\* At most one submit hook and one stop hook run at a time.
Hook == {"submit", "stop"}

\* of is the turn whose record is being ended, own the record in hand, todo the
\* records still to be looked at.
NoHook == [pc |-> "idle", turn |-> 0, of |-> 0, own |-> None, todo |-> {}]

Init ==
    /\ codex = [pid |-> 1, turn |-> 0, submits |-> 0, stopped |-> FALSE]
    /\ owner = [k \in Turn |-> None]
    /\ hook = [h \in Hook |-> NoHook]
    /\ helper = {}
    /\ task = [k \in Turn |-> "none"]
    /\ receipt = [k \in Turn |-> None]
    /\ beat = {}
    /\ busy = {}

----------------------------------------------------------------------------
(* The session *)

Idle(h) == hook[h].pc = "idle"

Submitting == ~Idle("submit")

\* A new prompt, or the same submit delivered again before the turn's stop.
Submit ==
    /\ ~Submitting
    /\ \/ /\ codex.turn < MaxTurn
          /\ codex' = [codex EXCEPT !.turn = @ + 1, !.submits = 1, !.stopped = FALSE]
       \/ /\ codex.turn > 0 /\ codex.submits < MaxSubmit /\ ~codex.stopped
          /\ codex' = [codex EXCEPT !.submits = @ + 1]
    /\ hook' = [hook EXCEPT !["submit"] =
         [NoHook EXCEPT !.pc = "scan", !.turn = codex'.turn,
                        !.todo = {k \in Turn \ {codex'.turn} : owner[k] # None}]]
    /\ UNCHANGED <<files, server>>

Stop ==
    /\ Idle("stop")
    /\ codex.turn > 0 /\ ~codex.stopped /\ ~Submitting
    /\ codex' = [codex EXCEPT !.stopped = TRUE]
    /\ hook' = [hook EXCEPT !["stop"] =
         [NoHook EXCEPT !.pc = "deactivate", !.turn = codex.turn, !.of = codex.turn]]
    /\ UNCHANGED <<files, server>>

\* The Codex process ends, and the session is resumed in another.  A stop hook
\* may outlive it.
Restart ==
    /\ codex.pid < MaxPid
    /\ codex' = [codex EXCEPT !.pid = @ + 1, !.stopped = TRUE]
    /\ hook' = [hook EXCEPT !["submit"] = NoHook]
    /\ UNCHANGED <<files, server>>

Kill(h) ==
    /\ ~Idle(h)
    /\ hook' = [hook EXCEPT ![h] = NoHook]
    /\ UNCHANGED <<codex, files, server>>

----------------------------------------------------------------------------
(* Hook steps *)

Goto(h, l) == hook' = [hook EXCEPT ![h].pc = l]

\* The hook is done, or gives up with an error.
Return(h) == hook' = [hook EXCEPT ![h] = NoHook]

\* cleanup_missed_codex_owners: the next record of another turn; one that is
\* gone since the directory was listed fails the submit.
Scan(h) ==
    /\ hook[h].pc = "scan"
    /\ \/ hook[h].todo = {} /\ Goto(h, "record")
       \/ \E k \in hook[h].todo :
            IF owner[k] = None
            THEN Return(h)
            ELSE hook' = [hook EXCEPT ![h].pc = "deactivate", ![h].of = k,
                                      ![h].todo = @ \ {k}]
    /\ UNCHANGED <<codex, files, server>>

\* Where a hook goes when there is no record to disable.
AfterDeactivate(h) ==
    CASE h = "stop" -> "finalize"
      [] h = "submit" /\ hook[h].of # hook[h].turn -> "scan"
      [] OTHER -> "cancel"

\* deactivate_owner reads the record ...
Deactivate(h) ==
    LET k == hook[h].of
    IN  /\ hook[h].pc = "deactivate"
        /\ IF owner[k] = None
           THEN Goto(h, AfterDeactivate(h))
           ELSE hook' = [hook EXCEPT ![h].pc = "persist", ![h].own = owner[k]]
        /\ UNCHANGED <<codex, files, server>>

\* Mutant: the record is written back as it was read.
PersistUnchanged(h) ==
    LET k == hook[h].of
    IN  /\ hook[h].pc = "persist"
        /\ owner' = [owner EXCEPT ![k] = hook[h].own]
        /\ hook' = [hook EXCEPT
             ![h].pc = IF k # hook[h].turn THEN "finalize" ELSE AfterDeactivate(h),
             ![h].own = None]
        /\ UNCHANGED <<codex, helper, server>>

\* ... and renames the disabled record over whatever is there by now.
Persist(h) ==
    LET k == hook[h].of
    IN  /\ hook[h].pc = "persist"
        /\ owner' = [owner EXCEPT ![k] = [hook[h].own EXCEPT !.enabled = FALSE]]
        /\ hook' = [hook EXCEPT
             ![h].pc = IF k # hook[h].turn THEN "finalize" ELSE AfterDeactivate(h),
             ![h].own = None]
        /\ UNCHANGED <<codex, helper, server>>

\* end_task in the store: a task with a write in flight drains.
Ended(k) ==
    IF task[k] = "active" THEN IF k \in busy THEN "draining" ELSE "ended" ELSE task[k]

\* Mutant: a draining task counts as stopped.
FinishCareless(h, k) == Goto(h, "remove")

\* finish_codex_owner_result: a terminal task's record goes; a draining one
\* keeps it, which also refuses the new turn.
FinishCodexOwner(h, k) ==
    IF task'[k] = "draining" THEN Return(h) ELSE Goto(h, "remove")

\* finish_codex_owner: finalize, and cancel when that fails; not_found counts as
\* finished.  A request can fail on its way to the server or on its way back.
EndTask(h) ==
    LET k == hook[h].of
    IN  /\ hook[h].pc \in {"finalize", "cancel"}
        /\ \/ /\ task' = [task EXCEPT ![k] = Ended(k)]
              /\ \/ FinishCodexOwner(h, k)
                 \/ IF hook[h].pc = "finalize" THEN Goto(h, "cancel") ELSE Return(h)
           \/ /\ IF hook[h].pc = "finalize" THEN Goto(h, "cancel") ELSE Return(h)
              /\ UNCHANGED task
        /\ UNCHANGED <<codex, files, receipt, beat, busy>>

\* remove_owner; a cleanup goes on with the next record.
RemoveOwner(h) ==
    /\ hook[h].pc = "remove"
    /\ owner' = [owner EXCEPT ![hook[h].of] = None]
    /\ IF h = "submit" /\ hook[h].of # hook[h].turn
       THEN hook' = [hook EXCEPT ![h].pc = "scan", ![h].of = 0] ELSE Return(h)
    /\ UNCHANGED <<codex, helper, server>>

\* record_owner, create_owner, matching_owner: the first submit creates the
\* record, with the task.start payload in it, which the server may accept or
\* reject; a later one must find its own.
RecordOwner(h) ==
    LET k == hook[h].turn
        new(v) == [pid |-> codex.pid, enabled |-> TRUE, start |-> codex.submits, valid |-> v]
    IN  /\ hook[h].pc = "record"
        /\ IF owner[k] = None
           THEN \E valid \in BOOLEAN :
                /\ owner' = [owner EXCEPT ![k] = new(valid)]
                /\ hook' = [hook EXCEPT ![h].pc = "start", ![h].own = new(valid)]
           ELSE /\ IF owner[k].pid = codex.pid
                   THEN hook' = [hook EXCEPT ![h].pc = "start", ![h].own = owner[k]]
                   ELSE Return(h)
                /\ UNCHANGED owner
        /\ UNCHANGED <<codex, helper, server>>

\* POST /v2/tasks/start under the turn's request id: accepted, replayed or
\* refused as a conflict; rejected as invalid_input; or lost either way.
StartTask(h) ==
    LET k == hook[h].turn
    IN  /\ hook[h].pc = "start"
        /\ \/ /\ hook[h].own.valid /\ receipt[k] \in {None, hook[h].own.start}
              /\ receipt' = [receipt EXCEPT ![k] = hook[h].own.start]
              /\ task' = [task EXCEPT ![k] = IF @ = "none" THEN "active" ELSE @]
              /\ beat' = IF task[k] = "none" THEN beat \cup {k} ELSE beat
              /\ \/ IF hook[h].own.enabled THEN Goto(h, "spawn") ELSE Return(h)
                 \/ Return(h)
           \/ /\ Return(h)
              /\ UNCHANGED <<task, receipt, beat>>
           \/ /\ ~hook[h].own.valid /\ receipt[k] = None
              /\ hook' = [hook EXCEPT ![h].pc = "remove", ![h].of = k]
              /\ UNCHANGED <<task, receipt, beat>>
        /\ UNCHANGED <<codex, files, busy>>

\* spawn_codex_heartbeat; when it fails, the record is disabled and the task
\* cancelled.
Spawn(h) ==
    LET k == hook[h].turn
    IN  /\ hook[h].pc = "spawn"
        /\ \/ /\ helper' = helper \cup {[turn |-> k, own |-> hook[h].own, pc |-> "check"]}
              /\ Return(h)
           \/ /\ hook' = [hook EXCEPT ![h].pc = "deactivate", ![h].of = k]
              /\ UNCHANGED helper
        /\ UNCHANGED <<codex, owner, server>>

HookStep(h) ==
    \/ Scan(h) \/ Deactivate(h) \/ Persist(h) \/ EndTask(h) \/ RemoveOwner(h)
    \/ RecordOwner(h) \/ StartTask(h) \/ Spawn(h)

----------------------------------------------------------------------------
(* Heartbeat helpers *)

\* Mutant: the helper goes on while there is a record of its turn.
LiveIfPresent(x) == owner[x.turn] # None /\ x.own.pid = codex.pid

\* owned_task_is_live: the record is the very one the helper was given, and the
\* process it names is running.
OwnedTaskIsLive(x) == owner[x.turn] = x.own /\ x.own.pid = codex.pid

HelperCheck(x) ==
    /\ x.pc = "check"
    /\ helper' = (helper \ {x}) \cup
                 IF OwnedTaskIsLive(x) THEN {[x EXCEPT !.pc = "post"]} ELSE {}
    /\ UNCHANGED <<codex, owner, hook, server>>

\* heartbeat_codex_once; its failure is ignored until the next interval.
HelperPost(x) ==
    /\ x.pc = "post"
    /\ helper' = (helper \ {x}) \cup {[x EXCEPT !.pc = "check"]}
    /\ \/ task[x.turn] = "active" /\ beat' = beat \cup {x.turn}
       \/ UNCHANGED beat
    /\ UNCHANGED <<codex, owner, hook, task, receipt, busy>>

----------------------------------------------------------------------------
(* The coordinator, and the wrappers *)

\* resolve_owned_wrapper_task: exactly one live record
LiveOwners == {k \in Turn : owner[k] # None /\ owner[k].enabled /\ owner[k].pid = codex.pid}

WrapperWrites(k) ==
    /\ LiveOwners = {k}
    /\ task[k] = "active" /\ k \notin busy
    /\ busy' = busy \cup {k}
    /\ UNCHANGED <<codex, files, hook, task, receipt, beat>>

\* The write is completed, which ends a draining task.
WriteEnds(k) ==
    /\ k \in busy
    /\ busy' = busy \ {k}
    /\ task' = [task EXCEPT ![k] = IF @ = "draining" THEN "ended" ELSE @]
    /\ UNCHANGED <<codex, files, hook, receipt, beat>>

\* Time passes without a heartbeat; maintain fails a task that had none for its
\* inactivity timeout.
Lapse(k) ==
    /\ task[k] = "active"
    /\ IF k \in beat
       THEN beat' = beat \ {k} /\ UNCHANGED task
       ELSE task' = [task EXCEPT ![k] = Ended(k)] /\ UNCHANGED beat
    /\ UNCHANGED <<codex, files, hook, receipt, busy>>

Next ==
    \/ Submit \/ Stop \/ Restart
    \/ \E h \in Hook : Kill(h) \/ HookStep(h)
    \/ \E x \in helper : HelperCheck(x) \/ HelperPost(x)
    \/ \E k \in Turn : WrapperWrites(k) \/ WriteEnds(k) \/ Lapse(k)

\* Helpers loop and time passes; nothing is assumed of Codex, of its hooks, or of
\* a wrapper that has a write in flight.
Fairness ==
    /\ \A k \in Turn :
         /\ WF_vars(Lapse(k))
         /\ WF_vars(\E x \in helper : x.turn = k /\ HelperCheck(x))
         /\ WF_vars(\E x \in helper : x.turn = k /\ HelperPost(x))

FairSpec == Init /\ [][Next]_vars /\ Fairness

----------------------------------------------------------------------------

\* A wrapper can act for a turn only when no earlier turn of the session has a
\* task that is still active or draining: cleanup_missed_codex_owners ends a turn
\* whose stop was missed, or refuses the new one.
SerialTurns ==
    \A k \in LiveOwners : \A j \in 1 .. k - 1 : task[j] \notin {"active", "draining"}

\* resolve_owned_wrapper_task never meets two live records of one session, even
\* when a late stop hook writes back a record that the next turn has removed.
OneLiveOwner == Cardinality(LiveOwners) <= 1

\* Once the record of a turn is disabled or gone, or its process is, the turn's
\* task ends, or drains for a write that nobody completes, whatever became of the
\* hook that should have ended it: its helpers notice, and the inactivity timeout
\* does the rest.
TasksEnd ==
    \A k \in Turn :
        (k \notin LiveOwners /\ task[k] # "none") ~>
            (task[k] = "ended" \/ (task[k] = "draining" /\ k \in busy) \/ k \in LiveOwners)
==============================================================================
