--------------------------- MODULE OmpOutboxProofs ---------------------------
(***************************************************************************)
(* For any set of tool calls, any number of crashes and any fate of every  *)
(* hook call: the record of a write stays until the server has settled it, *)
(* and what the server settles is what the call left behind.               *)
(***************************************************************************)
EXTENDS OmpOutbox, TLAPS

(* The backend of a step that names none, and the time it may take. *)
USE ZenonT(40)

Value == Call \cup {None, "unseen"}

AttemptRow ==
  [status : {"none", "executing", "completed", "failed", "uncertain"}, start : Value, post : Value]

PayloadRow == [terminal : {"none", "success", "failed_known", "uncertain"}, post : Value]

CallRow ==
  [pc : {"idle", "blocked", "allowed", "ran", "reported", "lost"}, error : BOOLEAN, left : Value]

Typed ==
  /\ call \in [Call -> CallRow]
  /\ file \in Value
  /\ server \in [task : {"absent", "active", "draining", "ended"},
                 attempts : [Call -> AttemptRow],
                 receipts : [Call -> PayloadRow]]

\* The handlers only ever send records of calls that have been reported.
Records == \A c \in Call : c \in outbox \cup pending \cup todo => call[c].pc = "reported"

\* A call that has not been made has no attempt and no receipt; between permit
\* and report its attempt executes; a receipt is the end of an attempt.
Stages ==
  \A c \in Call :
    /\ call[c].pc = "idle" => server.attempts[c].status = "none" /\ NoReceipt(server, c)
    /\ call[c].pc \in {"allowed", "ran"} => server.attempts[c].status = "executing"
    /\ server.attempts[c].status = "executing" => NoReceipt(server, c)

Busy(s, c) == s.attempts[c].status \in {"executing", "uncertain"}

\* The server keeps a second write away from the first.
OneInFlight ==
  \A c, d \in Call : Busy(server, c) /\ Busy(server, d) => c = d

\* So the file is still as the call left it while its outcome is not known.
FileIsTheCallsOwn ==
  \A c \in Call :
    call[c].pc \in {"ran", "reported"} /\ server.attempts[c].status = "executing" =>
      file = call[c].left

OInv ==
  /\ Typed /\ Records /\ Stages /\ OneInFlight /\ FileIsTheCallsOwn
  /\ KeptUntilSettled /\ OutcomeIsTheCallsOwn

-----------------------------------------------------------------------------

\* Before anything happened there is nothing to keep.
LEMMA InitInv == Init => OInv
BY SMTT(40) DEF Init, OInv, Typed, Records, Stages, OneInFlight, FileIsTheCallsOwn, KeptUntilSettled,
       OutcomeIsTheCallsOwn, Settled, NoReceipt, NoAttempt, Value, AttemptRow, PayloadRow, CallRow,
       Busy

\* The handlers that send nothing about a write only move records about, and
\* change at most the status of the task (AgentStart, Stop, Lapse).
LEMMA QuietStep ==
  ASSUME OInv,
         server'.attempts = server.attempts, server'.receipts = server.receipts,
         server'.task \in {"absent", "active", "draining", "ended"},
         server' = [server EXCEPT !.task = server'.task],
         UNCHANGED <<outbox, call, file>>,
         pending' \subseteq pending \cup outbox, todo' \subseteq pending \cup outbox \cup todo
  PROVE  OInv'
<1>1. Typed' /\ Records'
  BY DEF OInv, Typed, Records
<1>2. Stages' /\ OneInFlight' /\ FileIsTheCallsOwn' /\ KeptUntilSettled' /\ OutcomeIsTheCallsOwn'
  BY SMTT(40) DEF OInv, Stages, OneInFlight, FileIsTheCallsOwn, KeptUntilSettled, OutcomeIsTheCallsOwn,
         Settled, NoReceipt, Busy
<1>. QED BY <1>1, <1>2 DEF OInv

\* An extension that dies forgets calls without a record.
LEMMA CrashStep == OInv /\ Crash => OInv'
<1>. SUFFICES ASSUME OInv, Crash PROVE OInv'
  OBVIOUS
<1>1. \A c \in Call : /\ call'[c] \in CallRow
                      /\ call'[c].left = call[c].left
                      /\ call'[c].pc = call[c].pc \/ call'[c].pc = "lost"
                      /\ call[c].pc = "reported" => call'[c] = call[c]
                      /\ call'[c].pc # "idle"
  BY DEF OInv, Typed, CallRow, Crash
<1>2. call' \in [Call -> CallRow]
  BY <1>1 DEF Crash
<1>3. Typed' /\ Records'
  BY <1>1, <1>2 DEF OInv, Typed, Records, Crash
<1>4. Stages' /\ OneInFlight' /\ FileIsTheCallsOwn' /\ KeptUntilSettled' /\ OutcomeIsTheCallsOwn'
  BY SMTT(40), <1>1 DEF OInv, Stages, OneInFlight, FileIsTheCallsOwn, KeptUntilSettled, OutcomeIsTheCallsOwn,
              Settled, NoReceipt, Busy, Crash
<1>. QED BY <1>3, <1>4 DEF OInv

\* A permit opens an attempt only when no other is in flight (MayPrepare).
LEMMA ToolCallStep == ASSUME NEW c \in Call PROVE OInv /\ ToolCall(c) => OInv'
<1>. SUFFICES ASSUME OInv, ToolCall(c) PROVE OInv'
  OBVIOUS
<1>0. PICK fate \in Fate :
       /\ fate # "not sent" => MayPrepare(server)
       /\ server' = IF fate = "not sent" THEN server ELSE ServerPrepare(server, c)
       /\ call' = [call EXCEPT ![c].pc = IF fate = "answered" THEN "allowed" ELSE "blocked"]
  BY DEF ToolCall
<1>1. call' \in [Call -> CallRow]
  BY <1>0 DEF OInv, Typed, CallRow
<1>2. /\ call[c].pc = "idle"
      /\ call'[c].pc \in {"allowed", "blocked"}
      /\ call'[c].pc = "allowed" => fate # "not sent"
      /\ \A d \in Call : d # c => call'[d] = call[d]
      /\ call'[c].left = call[c].left
  BY <1>0 DEF OInv, Typed, CallRow, ToolCall
<1>3. server' \in [task : {"absent", "active", "draining", "ended"},
                   attempts : [Call -> AttemptRow], receipts : [Call -> PayloadRow]]
  BY <1>0 DEF OInv, Typed, ServerPrepare, AttemptRow, Value
<1>4. /\ server'.receipts = server.receipts
      /\ \A d \in Call : d # c => server'.attempts[d] = server.attempts[d]
      /\ \/ server'.attempts[c] = server.attempts[c] /\ fate = "not sent"
         \/ server'.attempts[c].status = "executing" /\ \A d \in Call : ~Busy(server, d)
  <2>1. CASE fate = "not sent"
    <3>1. server' = server
      BY <1>0, <2>1
    <3>. QED BY <2>1, <3>1
  <2>2. CASE fate # "not sent"
    <3>1. \A d \in Call : ~Busy(server, d)
      BY <1>0, <2>2 DEF MayPrepare, InFlight, Busy
    <3>. QED BY <1>0, <2>2, <3>1 DEF OInv, Typed, ServerPrepare, AttemptRow
  <2>. QED BY <2>1, <2>2
<1>5. UNCHANGED <<outbox, pending, todo, file>>
  BY DEF ToolCall
<1>6. Typed'
  BY <1>1, <1>3, <1>5 DEF OInv, Typed
<1>7. Records'
  BY <1>2, <1>5 DEF OInv, Records
<1>8. Stages'
  BY <1>2, <1>4 DEF OInv, Stages, NoReceipt
<1>9. OneInFlight'
  BY <1>4 DEF OInv, OneInFlight, Busy
<1>10. FileIsTheCallsOwn' /\ KeptUntilSettled'
  BY <1>2, <1>4, <1>5 DEF OInv, FileIsTheCallsOwn, KeptUntilSettled
<1>11. OutcomeIsTheCallsOwn'
  BY <1>2, <1>4 DEF OInv, OutcomeIsTheCallsOwn, Settled
<1>. QED BY <1>6, <1>7, <1>8, <1>9, <1>10, <1>11 DEF OInv

\* The tool that changes the file is the only one with an attempt in flight.
LEMMA ToolRunsStep == ASSUME NEW c \in Call PROVE OInv /\ ToolRuns(c) => OInv'
<1>. SUFFICES ASSUME OInv, ToolRuns(c) PROVE OInv'
  OBVIOUS
<1>. PICK changed \in BOOLEAN, error \in BOOLEAN :
       /\ file' = IF changed THEN c ELSE file
       /\ call' = [call EXCEPT ![c] = [pc |-> "ran", error |-> error, left |-> file']]
  BY DEF ToolRuns
<1>1. /\ file' \in Value
      /\ call' \in [Call -> CallRow]
      /\ call[c].pc = "allowed"
      /\ call'[c].pc = "ran" /\ call'[c].left = file'
      /\ \A d \in Call : d # c => call'[d] = call[d]
  BY DEF OInv, Typed, CallRow, Value, ToolRuns
<1>2. UNCHANGED <<outbox, pending, todo, server>>
  BY DEF ToolRuns, ext
<1>3. /\ server.attempts[c].status = "executing"
      /\ \A d \in Call : d # c => server.attempts[d].status # "executing"
  BY <1>1 DEF OInv, Stages, OneInFlight, Busy
<1>4. Typed' /\ Records' /\ OneInFlight'
  BY <1>1, <1>2 DEF OInv, Typed, Records, OneInFlight, Busy
<1>5. Stages'
  BY <1>1, <1>2, <1>3 DEF OInv, Stages, NoReceipt
<1>6. FileIsTheCallsOwn' /\ KeptUntilSettled' /\ OutcomeIsTheCallsOwn'
  BY <1>1, <1>2, <1>3 DEF OInv, FileIsTheCallsOwn, KeptUntilSettled, OutcomeIsTheCallsOwn, Settled
<1>. QED BY <1>4, <1>5, <1>6 DEF OInv

\* The record is stored before anything is sent (persistTerminal).
LEMMA ToolResultStep == ASSUME NEW c \in Call PROVE OInv /\ ToolResult(c) => OInv'
<1>. SUFFICES ASSUME OInv, ToolResult(c) PROVE OInv'
  OBVIOUS
<1>1. /\ call' \in [Call -> CallRow]
      /\ call[c].pc = "ran"
      /\ call'[c].pc = "reported" /\ call'[c].left = call[c].left
      /\ \A d \in Call : d # c => call'[d] = call[d]
  BY DEF OInv, Typed, CallRow, ToolResult, PersistTerminal
<1>2. /\ UNCHANGED <<file, server>>
      /\ outbox' = outbox \cup {c} /\ pending' = pending \cup {c} /\ todo' = {c}
  BY DEF ToolResult, PersistTerminal
<1>3. Typed' /\ Records' /\ OneInFlight' /\ Stages'
  BY SMTT(40), <1>1, <1>2 DEF OInv, Typed, Records, OneInFlight, Busy, Stages, NoReceipt
<1>4. FileIsTheCallsOwn' /\ KeptUntilSettled' /\ OutcomeIsTheCallsOwn'
  BY <1>1, <1>2 DEF OInv, FileIsTheCallsOwn, KeptUntilSettled, OutcomeIsTheCallsOwn, Settled
<1>. QED BY <1>3, <1>4 DEF OInv

\* What executing a report does to the database: nothing, or it settles the one
\* attempt with what was reported.
LEMMA ServerCompleteFacts ==
  ASSUME Typed, NEW c \in Call, NEW payload \in PayloadRow, payload.terminal # "none",
         NEW s, s = ServerComplete(server, c, payload)
  PROVE  \/ s = server /\ ~(NoReceipt(server, c) /\ server.attempts[c].status = "executing")
         \/ /\ NoReceipt(server, c) /\ server.attempts[c].status = "executing"
            /\ s \in [task : {"absent", "active", "draining", "ended"},
                      attempts : [Call -> AttemptRow], receipts : [Call -> PayloadRow]]
            /\ s.attempts[c].status \in {"completed", "failed", "uncertain"}
            /\ s.attempts[c].post = payload.post
            /\ \A d \in Call : d # c => /\ s.attempts[d] = server.attempts[d]
                                        /\ s.receipts[d] = server.receipts[d]
<1>. DEFINE row == [status |-> ResultOf(server.attempts[c], payload),
                    start |-> server.attempts[c].start, post |-> payload.post]
            u == [server EXCEPT !.attempts[c] = row, !.receipts[c] = payload]
<1>1. CASE ~(NoReceipt(server, c) /\ server.attempts[c].status = "executing")
  BY <1>1 DEF ServerComplete
<1>2. CASE NoReceipt(server, c) /\ server.attempts[c].status = "executing"
  <2>1. ResultOf(server.attempts[c], payload) \in {"completed", "failed", "uncertain"}
    BY DEF ResultOf
  <2>2. /\ row \in AttemptRow
        /\ row.status \in {"completed", "failed", "uncertain"}
        /\ row.post = payload.post
    BY <2>1 DEF Typed, AttemptRow, PayloadRow
  <2>3. s = Finished(u)
    BY <1>2 DEF ServerComplete
  <2>4. s = u \/ s = [u EXCEPT !.task = "ended"]
    BY <2>3 DEF Finished
  <2>. HIDE DEF row
  <2>5. /\ u \in [task : {"absent", "active", "draining", "ended"},
                  attempts : [Call -> AttemptRow], receipts : [Call -> PayloadRow]]
        /\ u.attempts[c] = row
        /\ \A d \in Call : d # c => /\ u.attempts[d] = server.attempts[d]
                                    /\ u.receipts[d] = server.receipts[d]
    BY <2>2 DEF Typed
  <2>. HIDE DEF u
  <2>. QED BY <1>2, <2>2, <2>4, <2>5
<1>. QED BY <1>1, <1>2

\* A turn settles the attempt with what the call left, or leaves the server as
\* it was; it removes the record only if the attempt is settled by then.
LEMMA TurnStep == ASSUME NEW c \in Call, NEW fate \in Fate PROVE OInv /\ Turn(c, fate) => OInv'
<1>. SUFFICES ASSUME OInv, Turn(c, fate) PROVE OInv'
  OBVIOUS
<1>0. PICK payload \in Payloads(c) :
        LET gone == IF fate = "answered" /\ ServerAccepts(server, c, payload) THEN {c} ELSE {} IN
        /\ server' = IF fate = "not sent" THEN server ELSE ServerComplete(server, c, payload)
        /\ pending' = pending \ gone
        /\ outbox' = outbox \ gone
  BY DEF Turn
<1>1. /\ payload \in PayloadRow
      /\ payload.terminal # "none"
      /\ payload.post \in {file, "unseen"}
  BY SMTT(40) DEF OInv, Typed, Payloads, PayloadRow, Value
<1>2. UNCHANGED <<call, file>> /\ todo' = todo \ {c} /\ c \in todo
  BY DEF Turn
<1>3. call[c].pc = "reported"
  BY <1>2 DEF OInv, Records
<1>4. /\ pending' \subseteq pending
      /\ outbox' \subseteq outbox
      /\ \A d \in Call : d # c /\ d \in outbox => d \in outbox'
      /\ c \in outbox => \/ c \in outbox'
                         \/ fate = "answered" /\ ServerAccepts(server, c, payload)
  BY <1>0
<1>5. Records'
  BY <1>2, <1>4 DEF OInv, Records
<1>6. \/ /\ server' = server
         /\ server.attempts[c].status = "executing" /\ c \in outbox => c \in outbox'
      \/ /\ server.attempts[c].status = "executing"
         /\ server' \in [task : {"absent", "active", "draining", "ended"},
                         attempts : [Call -> AttemptRow], receipts : [Call -> PayloadRow]]
         /\ server'.attempts[c].status \in {"completed", "failed", "uncertain"}
         /\ server'.attempts[c].post = payload.post
         /\ \A d \in Call : d # c => /\ server'.attempts[d] = server.attempts[d]
                                     /\ server'.receipts[d] = server.receipts[d]
  <2>1. CASE fate = "not sent"
    BY <1>0, <1>4, <2>1
  <2>2. CASE fate # "not sent"
    <3>1. server' = ServerComplete(server, c, payload)
      BY <1>0, <2>2
    <3>2. server.attempts[c].status = "executing" => NoReceipt(server, c)
      BY DEF OInv, Stages
    <3>. QED BY SMTT(40), <1>1, <3>1, <3>2, ServerCompleteFacts DEF OInv
  <2>. QED BY <2>1, <2>2
<1>7. CASE /\ server' = server
           /\ server.attempts[c].status = "executing" /\ c \in outbox => c \in outbox'
  <2>1. Typed' /\ Stages' /\ OneInFlight' /\ FileIsTheCallsOwn' /\ OutcomeIsTheCallsOwn'
    BY <1>2, <1>7 DEF OInv, Typed, Stages, OneInFlight, FileIsTheCallsOwn, OutcomeIsTheCallsOwn,
                      Settled, NoReceipt, Busy
  <2>2. KeptUntilSettled'
    BY <1>2, <1>4, <1>7 DEF OInv, KeptUntilSettled
  <2>. QED BY <1>5, <2>1, <2>2 DEF OInv
<1>8. CASE /\ server.attempts[c].status = "executing"
           /\ server' \in [task : {"absent", "active", "draining", "ended"},
                           attempts : [Call -> AttemptRow], receipts : [Call -> PayloadRow]]
           /\ server'.attempts[c].status \in {"completed", "failed", "uncertain"}
           /\ server'.attempts[c].post = payload.post
           /\ \A d \in Call : d # c => /\ server'.attempts[d] = server.attempts[d]
                                       /\ server'.receipts[d] = server.receipts[d]
  <2>1. Typed'
    BY <1>2, <1>8 DEF OInv, Typed
  <2>2. Stages'
    BY SMTT(40), <1>2, <1>3, <1>8 DEF OInv, Stages, NoReceipt
  <2>3. OneInFlight'
    BY <1>8 DEF OInv, OneInFlight, Busy
  <2>4. FileIsTheCallsOwn' /\ KeptUntilSettled'
    BY <1>2, <1>4, <1>8 DEF OInv, FileIsTheCallsOwn, KeptUntilSettled
  <2>5. file = call[c].left
    BY <1>3, <1>8 DEF OInv, FileIsTheCallsOwn
  <2>6. OutcomeIsTheCallsOwn'
    BY <1>1, <1>2, <1>8, <2>5 DEF OInv, OutcomeIsTheCallsOwn, Settled
  <2>. QED BY <1>5, <2>1, <2>2, <2>3, <2>4, <2>6 DEF OInv
<1>. QED BY <1>6, <1>7, <1>8

\* Every step of the system keeps the invariant.
LEMMA NextStep == OInv /\ [Next]_vars => OInv'
<1>. SUFFICES ASSUME OInv, [Next]_vars PROVE OInv'
  OBVIOUS
<1>1. server \in [task : {"absent", "active", "draining", "ended"},
                  attempts : [Call -> AttemptRow], receipts : [Call -> PayloadRow]]
  BY DEF OInv, Typed
<1>2. CASE AgentStart
  BY <1>1, <1>2, QuietStep DEF AgentStart, ServerStart
<1>3. CASE Stop
  BY <1>1, <1>3, QuietStep DEF Stop, ServerEnd
<1>4. CASE Lapse
  BY <1>1, <1>4, QuietStep DEF Lapse, ServerEnd, ext
<1>5. CASE AgentEnd \/ TimerFires \/ Startup \/ Loaded
  BY <1>1, <1>5, QuietStep DEF AgentEnd, TimerFires, Startup, Loaded
<1>6. CASE Crash
  BY <1>6, CrashStep
<1>7. CASE \E c \in Call : \/ ToolCall(c) \/ ToolRuns(c) \/ ToolResult(c)
                           \/ \E fate \in Fate : Turn(c, fate)
  BY <1>7, ToolCallStep, ToolRunsStep, ToolResultStep, TurnStep
<1>8. CASE UNCHANGED vars
  BY <1>1, <1>8, QuietStep DEF vars, ext
<1>. QED BY <1>2, <1>3, <1>4, <1>5, <1>6, <1>7, <1>8 DEF Next

-----------------------------------------------------------------------------

\* persistTerminal and retryPendingTerminals: whatever is lost on the way and
\* whenever the extension dies, the record of a reported write stays in the
\* outbox for as long as the server has its attempt in flight.
THEOREM RecordsAreKept == FairSpec => []KeptUntilSettled
<1>1. OInv => KeptUntilSettled
  BY DEF OInv
<1>. QED BY InitInv, NextStep, <1>1, PTL DEF FairSpec

\* complete_write observes the file again at every retry; the outcome that
\* write_complete records is nevertheless the file as the call itself left it,
\* or one the hook could not observe.
THEOREM OutcomesAreTheCallsOwn == FairSpec => []OutcomeIsTheCallsOwn
<1>1. OInv => OutcomeIsTheCallsOwn
  BY DEF OInv
<1>. QED BY InitInv, NextStep, <1>1, PTL DEF FairSpec
=============================================================================
