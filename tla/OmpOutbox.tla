------------------------------ MODULE OmpOutbox ------------------------------
(***************************************************************************)
(* The OMP extension (assets/stateful-omp-extension.js), the hook process  *)
(* it spawns for every event (hook.rs) and the part of the server the hook *)
(* talks to, for one leaf agent that edits one file.                       *)
(*                                                                         *)
(* spawnSync blocks the extension, so a handler runs to its end before the *)
(* next event; it is a loop over outbox records (todo) with an optional    *)
(* last call (last).  Every hook call may be answered, may be executed     *)
(* with its answer lost (the five-second read timeout, a killed hook), or  *)
(* may never reach the server.  The extension may die at any moment; the   *)
(* outbox directory and the server's database survive.                     *)
(*                                                                         *)
(* post-tool-use computes what it reports (complete_write) from the file   *)
(* as it is when the hook runs, under a request id that only depends on    *)
(* the tool call.                                                          *)
(***************************************************************************)
EXTENDS Naturals, FiniteSets

CONSTANTS
  Call,   \* write tool calls of the agent; also the content each one writes
  None    \* the file as it was before, no receipt

VARIABLES
  up,             \* the extension is running
  tasks,          \* tasks has an entry for the leaf agent
  timer,          \* heartbeatTimer is set
  writeAttempts,  \* tool calls with a permit and no result yet
  pending,        \* pendingTerminals
  todo,           \* records the running handler has still to send
  last,           \* what the running handler does after that
  outbox,         \* durable: the terminal records on disk
  call,           \* each tool call: where it is, and whether it failed
  file,           \* durable: the content of the file
  server          \* durable: the task, its attempts, their receipts

ext == <<up, tasks, timer, writeAttempts, pending, todo, last>>
vars == <<ext, outbox, call, file, server>>

NoAttempt == [status |-> "none", start |-> None, post |-> None]

Init ==
  /\ up = TRUE /\ tasks = FALSE /\ timer = FALSE
  /\ writeAttempts = {} /\ pending = {} /\ todo = {} /\ last = "none"
  /\ outbox = {}
  /\ call = [c \in Call |-> [pc |-> "idle", error |-> FALSE, left |-> None]]
  /\ file = None
  /\ server = [task |-> "absent",
               attempts |-> [c \in Call |-> NoAttempt],
               receipts |-> [c \in Call |-> [terminal |-> "none", post |-> None]]]

\* What becomes of one hook call.
Fate == {"answered", "answer lost", "not sent"}

\* The extension waits for an event.
Listening == up /\ todo = {} /\ last = "none"

-----------------------------------------------------------------------------
(* The server: one transaction per command *)

InFlight(s) == \E c \in Call : s.attempts[c].status \in {"executing", "uncertain"}

\* task.start
ServerStart(s) == [s EXCEPT !.task = "active"]

\* Mutant: an open write attempt does not stand in the way of the next one.
MayPrepareAnyway(s) == s.task = "active"

\* write.prepare may answer Ready: nothing of the task is in flight on the
\* file, and no uncertain write keeps its lease draining.
MayPrepare(s) == s.task = "active" /\ ~InFlight(s)

ServerPrepare(s, c) ==
  [s EXCEPT !.attempts[c] = [status |-> "executing", start |-> file, post |-> None]]

\* finish_draining_task
Finished(s) == IF s.task = "draining" /\ ~InFlight(s) THEN [s EXCEPT !.task = "ended"] ELSE s

\* write_complete's verdict on what is reported.
ResultOf(attempt, payload) ==
  CASE payload.terminal = "success" /\ payload.post # attempt.start -> "completed"
    [] payload.terminal = "failed_known" /\ payload.post = attempt.start -> "failed"
    [] OTHER -> "uncertain"

NoReceipt(s, c) == s.receipts[c].terminal = "none"

\* accepted_command with write_complete: the database after it.
ServerComplete(s, c, payload) ==
  IF NoReceipt(s, c) /\ s.attempts[c].status = "executing"
  THEN Finished([s EXCEPT
         !.attempts[c] = [status |-> ResultOf(@, payload), start |-> @.start, post |-> payload.post],
         !.receipts[c] = payload])
  ELSE s

\* ... and whether it is answered without an error: executed now, or replayed
\* because the payload is the recorded one.
ServerAccepts(s, c, payload) ==
  IF NoReceipt(s, c) THEN s.attempts[c].status = "executing" ELSE s.receipts[c] = payload

\* task.finalize, task.cancel, and the expiry of a task without heartbeats.
ServerEnd(s) ==
  IF s.task # "active" THEN s
  ELSE [s EXCEPT !.task = IF InFlight(s) THEN "draining" ELSE "ended"]

-----------------------------------------------------------------------------
(* The handlers *)

AgentStart ==
  /\ Listening
  /\ server.task = "absent"
  /\ \E fate \in Fate :
       /\ server' = IF fate = "not sent" THEN server ELSE ServerStart(server)
       /\ tasks' = (fate = "answered")
       /\ timer' = (timer \/ fate = "answered")
  /\ UNCHANGED <<up, writeAttempts, pending, todo, last, outbox, call, file>>

\* tool_call: blocked unless the hook says allow; queued, reread_required and
\* denied block as well, and change nothing here.
ToolCall(c) ==
  /\ Listening
  /\ call[c].pc = "idle"
  /\ \E fate \in Fate :
       /\ tasks \/ fate = "not sent"
       /\ fate # "not sent" => MayPrepare(server)
       /\ server' = IF fate = "not sent" THEN server ELSE ServerPrepare(server, c)
       /\ writeAttempts' = IF fate = "answered" THEN writeAttempts \cup {c} ELSE writeAttempts
       /\ call' = [call EXCEPT ![c].pc = IF fate = "answered" THEN "allowed" ELSE "blocked"]
  /\ UNCHANGED <<up, tasks, timer, pending, todo, last, outbox, file>>

\* OMP runs the tool, which may fail before or after it changed the file.
ToolRuns(c) ==
  /\ up
  /\ call[c].pc = "allowed"
  /\ \E changed, error \in BOOLEAN :
       /\ file' = IF changed THEN c ELSE file
       /\ call' = [call EXCEPT ![c] = [pc |-> "ran", error |-> error, left |-> file']]
  /\ UNCHANGED <<ext, outbox, server>>

\* persistTerminal: the record is on disk before anything is sent.
PersistTerminal(c) ==
  /\ outbox' = outbox \cup {c}
  /\ pending' = pending \cup {c}

\* tool_result of a write: persistTerminal, then the first attempt to send.
ToolResult(c) ==
  /\ Listening
  /\ call[c].pc = "ran"
  /\ c \in writeAttempts
  /\ PersistTerminal(c)
  /\ writeAttempts' = writeAttempts \ {c}
  /\ todo' = {c}
  /\ call' = [call EXCEPT ![c].pc = "reported"]
  /\ UNCHANGED <<up, tasks, timer, last, file, server>>

\* What complete_write reports of the file as it is now, or of a file it
\* cannot observe.  A success that OMP reports of another path is uncertain.
Payloads(c) ==
  IF call[c].error THEN [terminal : {"failed_known"}, post : {file, "unseen"}]
  ELSE {[terminal |-> "success", post |-> file]}
         \cup [terminal : {"uncertain"}, post : {file, "unseen"}]

\* stopHeartbeatWhenIdle
Keeps(running, known, records) == running /\ (known \/ records # {})

\* Mutant: any answer will do.
TurnCareless(c, fate) ==
  /\ up
  /\ c \in todo
  /\ \E payload \in Payloads(c) :
       server' = IF fate = "not sent" THEN server ELSE ServerComplete(server, c, payload)
  /\ pending' = pending \ {c}
  /\ outbox' = outbox \ {c}
  /\ timer' = Keeps(timer, tasks, pending')
  /\ todo' = todo \ {c}
  /\ UNCHANGED <<up, tasks, writeAttempts, last, call, file>>

\* One turn of retryPendingTerminals: only "allow" removes the record.
Turn(c, fate) ==
  /\ up
  /\ c \in todo
  /\ \E payload \in Payloads(c) :
       LET gone == IF fate = "answered" /\ ServerAccepts(server, c, payload) THEN {c} ELSE {} IN
       /\ server' = IF fate = "not sent" THEN server ELSE ServerComplete(server, c, payload)
       /\ pending' = pending \ gone
       /\ outbox' = outbox \ gone
       /\ timer' = IF gone = {} THEN timer ELSE Keeps(timer, tasks, pending')
  /\ todo' = todo \ {c}
  /\ UNCHANGED <<up, tasks, writeAttempts, last, call, file>>

\* The heartbeat interval: every record is retried (and every task sends a
\* heartbeat, which keeps Lapse away).
TimerFires ==
  /\ Listening
  /\ timer
  /\ pending # {}
  /\ todo' = pending
  /\ UNCHANGED <<up, tasks, timer, writeAttempts, pending, last, outbox, call, file, server>>

\* agent_end and session_shutdown: retry first, then stop the task once.
AgentEnd ==
  /\ Listening
  /\ tasks \/ pending # {}
  /\ todo' = pending
  /\ last' = "stop"
  /\ UNCHANGED <<up, tasks, timer, writeAttempts, pending, outbox, call, file, server>>

Stop ==
  /\ up /\ todo = {}
  /\ last = "stop"
  /\ \E fate \in Fate :
       server' = IF fate = "not sent" \/ ~tasks THEN server ELSE ServerEnd(server)
  /\ last' = "none"
  /\ tasks' = FALSE
  /\ timer' = Keeps(timer, FALSE, pending)
  /\ UNCHANGED <<up, writeAttempts, pending, todo, outbox, call, file>>

\* The process dies; tool calls without a durable record are lost with it.
Crash ==
  /\ up
  /\ up' = FALSE /\ tasks' = FALSE /\ timer' = FALSE
  /\ writeAttempts' = {} /\ pending' = {} /\ todo' = {} /\ last' = "none"
  /\ call' = [c \in Call |->
       IF call[c].pc \in {"idle", "allowed", "ran"} THEN [call[c] EXCEPT !.pc = "lost"] ELSE call[c]]
  /\ UNCHANGED <<outbox, file, server>>

\* Mutant: the outbox is not looked at again.
StartupBlank ==
  /\ ~up
  /\ up' = TRUE /\ todo' = {} /\ last' = "loaded"
  /\ UNCHANGED <<tasks, timer, writeAttempts, pending, outbox, call, file, server>>

\* The extension is loaded again: loadPendingTerminals, retry, then the timer.
Startup ==
  /\ ~up
  /\ up' = TRUE /\ pending' = outbox /\ todo' = outbox /\ last' = "loaded"
  /\ UNCHANGED <<tasks, timer, writeAttempts, outbox, call, file, server>>

Loaded ==
  /\ up /\ todo = {}
  /\ last = "loaded"
  /\ last' = "none"
  /\ timer' = (pending # {})
  /\ UNCHANGED <<up, tasks, writeAttempts, pending, todo, outbox, call, file, server>>

\* The server expires the task: its heartbeats did not arrive.
Lapse ==
  /\ server.task = "active"
  /\ server' = ServerEnd(server)
  /\ UNCHANGED <<ext, outbox, call, file>>

Next ==
  \/ AgentStart \/ AgentEnd \/ Stop \/ TimerFires \/ Crash \/ Startup \/ Loaded \/ Lapse
  \/ \E c \in Call :
       \/ ToolCall(c) \/ ToolRuns(c) \/ ToolResult(c)
       \/ \E fate \in Fate : Turn(c, fate)

(***************************************************************************)
(* A running extension finishes its handlers and its interval keeps        *)
(* firing; OMP is started again after a crash; and a server that is asked  *)
(* again and again answers some time.                                      *)
(***************************************************************************)
Fairness ==
  /\ WF_vars(Startup) /\ WF_vars(Loaded) /\ WF_vars(Stop) /\ WF_vars(TimerFires)
  /\ \A c \in Call :
       /\ WF_vars(\E fate \in Fate : Turn(c, fate))
       /\ SF_vars(Turn(c, "answered"))

FairSpec == Init /\ [][Next]_vars /\ Fairness

-----------------------------------------------------------------------------
(* Properties *)

Settled(c) == server.attempts[c].status \in {"completed", "failed", "uncertain"}

\* Once tool_result has stored a terminal payload, the server gets to know
\* the outcome: through the handler's own attempts, the timer's retries, or
\* the next startup, whatever is lost and whenever the extension dies.  The
\* exception is an extension that stays up with its timer stopped, when
\* agent_end came before the tool result (stopHeartbeatWhenIdle does not
\* count open write attempts); then it waits for the next startup.
TerminalsAreDelivered ==
  \A c \in Call : c \in outbox ~> (Settled(c) \/ (Listening /\ ~timer))

\* The record of a reported write stays in the outbox for as long as the
\* server has the attempt in flight: neither a lost answer, nor a refusal,
\* nor a crash between sending and unlinking drops it.
KeptUntilSettled ==
  \A c \in Call :
    call[c].pc = "reported" /\ server.attempts[c].status = "executing" => c \in outbox

\* What the server records as the outcome of a tool call is the file as that
\* call left it, although the hook observes the file anew at every retry: the
\* open attempt keeps every later write of the task away until then.
OutcomeIsTheCallsOwn ==
  \A c \in Call : Settled(c) => server.attempts[c].post \in {call[c].left, "unseen"}
=============================================================================
