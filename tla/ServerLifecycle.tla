-------------------------- MODULE ServerLifecycle --------------------------
(***************************************************************************)
(* How the local server is started, found and stopped                      *)
(* (stateful-cli/src/server_lifecycle.rs and run_server of its lib.rs).    *)
(*                                                                         *)
(* Commands (Cmd) and server processes (Pid) share three things: the       *)
(* discovery file server.json, the start lock server.lock, and the TCP     *)
(* ports.  The lock is a file made with create_new; whoever finds one      *)
(* older than 30 s removes it, so a lock left by a crashed process does    *)
(* not block for ever.  Three pairs of steps are not protected by it:      *)
(*   - a stale lock is examined and then unlinked by path;                 *)
(*   - a launcher polls its child and then writes server.json again;       *)
(*   - `server stop` kills the server and then unlinks server.json.        *)
(* The model takes these pairs apart.  The history variable raced records  *)
(* that another process came between one of them, or that a server took    *)
(* the discovery file over from one that lives but did not answer, and     *)
(* that nothing finds any more.                                            *)
(*                                                                         *)
(* Live processes do not hold the lock for 30 s, so a lock ages only when  *)
(* its holder crashed; a server that does not answer a probe within 5 s is *)
(* a fault (Hang).                                                         *)
(***************************************************************************)
EXTENDS Naturals, FiniteSets

CONSTANTS
    Cmd,        \* invocations of `stateful server start`, `restart` and `stop`
    Pid,        \* server processes; a process identity is pid and start time
    Other,      \* those of another executable, which nobody here started
    Port,       \* listening addresses an invocation may ask for
    PortOf,     \* the address each server process is started with
    None,
    MaxDisturbances     \* bound on crashes, hangs, stops and foreground starts

ASSUME PortAssumption == PortOf \in [Pid -> Port]

ASSUME OtherAssumption == Other \subseteq Pid

\* A command is not a server, and neither is what the lock holds beside them.
ASSUME ProcAssumption ==
    /\ Cmd \cap Pid = {}
    /\ (Cmd \cup Pid) \cap {None, "left", "stale"} = {}
    /\ None \notin {"left", "stale"}

VARIABLES
    pc,         \* where each command and each server process stands
    saw,        \* the runtime a command acts on: the one it read, or its child
    runtime,    \* the process server.json names
    lock,       \* who created server.lock; "left" and "stale" after a crash
    disturbances,
    raced

vars == <<pc, saw, runtime, lock, disturbances, raced>>

Proc == Cmd \cup Pid

Init ==
    /\ pc = [x \in Proc |-> IF x \in Cmd THEN "idle" ELSE "dead"]
    /\ saw = [c \in Cmd |-> None]
    /\ runtime = None
    /\ lock = None
    /\ disturbances = 0
    /\ raced = FALSE

----------------------------------------------------------------------------
(* Processes and what the others see of them *)

\* validate_runtime_process_identity: the process that wrote the file lives.
Alive(p) == p \in Pid /\ pc[p] # "dead"

\* runtime_is_healthy: the process lives and answers /health and /v2/status.
Healthy(p) == p \in Pid /\ pc[p] = "serving"

\* pid_matches_current_exe, of a process that lives.
Ours(p) == p \notin Other

\* A probe of a process that listens and does not serve yet waits for it.
Resolved(p) == p \in Pid => pc[p] # "registered"

HoldsPort(p) ==
    pc[p] \in {"bound", "stale", "locked", "written", "registered", "serving", "hung"}

\* A process identity nobody remembers: pids are reused, start times are not.
FreshPid(p) == pc[p] = "dead" /\ runtime # p /\ \A c \in Cmd : saw[c] # p

\* What a process that dies with the lock leaves behind.
LockAfterDeath(x) == IF lock = x THEN "left" ELSE lock

\* Crashes, hangs, stops and foreground starts, which nothing else bounds.
Disturbance == disturbances < MaxDisturbances /\ disturbances' = disturbances + 1

Go(x, l) == pc' = [pc EXCEPT ![x] = l]

----------------------------------------------------------------------------
(* acquire_start_lock, for a command at "lock" and a server at "bound" *)

AtLock(x) == pc[x] \in {"lock", "bound"}

TryLock(x) ==
    /\ AtLock(x)
    /\ lock = None
    /\ lock' = x
    /\ Go(x, "locked")
    /\ UNCHANGED <<saw, runtime, disturbances, raced>>

\* remove_stale_lock: fs::metadata, and an age of START_LOCK_STALE_AFTER.
ExamineStale(x) ==
    /\ AtLock(x)
    /\ lock = "stale"
    /\ Go(x, "stale")
    /\ UNCHANGED <<saw, runtime, lock, disturbances, raced>>

\* remove_stale_lock: fs::remove_file removes whatever has the path by now.
UnlinkStale(x) ==
    /\ pc[x] = "stale"
    /\ raced' = (raced \/ lock \notin {None, "stale"})
    /\ lock' = None
    /\ Go(x, IF x \in Cmd THEN "lock" ELSE "bound")
    /\ UNCHANGED <<saw, runtime, disturbances>>

\* START_LOCK_TIMEOUT passes: the command fails, the server process exits.  A
\* live holder has the lock that long only while it probes a hung server.
LockTimeout(x) ==
    /\ AtLock(x)
    /\ lock = "left" \/ (lock \in Proc /\ runtime \in Pid /\ pc[runtime] = "hung")
    /\ Go(x, IF x \in Cmd THEN "idle" ELSE "dead")
    /\ UNCHANGED <<saw, runtime, lock, disturbances, raced>>

\* Thirty seconds after its holder crashed a lock counts as stale.
LockAges ==
    /\ lock = "left"
    /\ lock' = "stale"
    /\ UNCHANGED <<pc, saw, runtime, disturbances, raced>>

----------------------------------------------------------------------------
(* ensure_server, ensure_server_with_options *)

Ensure(c) ==
    /\ pc[c] = "idle"
    /\ Go(c, "look")
    /\ UNCHANGED <<saw, runtime, lock, disturbances, raced>>

\* The first look, without the lock: a healthy server is returned, or refused
\* by ensure_runtime_matches_options; both end the call.
Look(c) ==
    /\ pc[c] = "look"
    /\ Resolved(runtime)
    /\ Go(c, IF Healthy(runtime) THEN "idle" ELSE "lock")
    /\ UNCHANGED <<saw, runtime, lock, disturbances, raced>>

\* The second look, with the lock.
LockedLook(c) ==
    /\ pc[c] = "locked"
    /\ Resolved(runtime)
    /\ IF Healthy(runtime)
       THEN Go(c, "idle") /\ lock' = None /\ UNCHANGED saw
       ELSE /\ saw' = [saw EXCEPT ![c] = runtime]
            /\ Go(c, IF runtime = None THEN "unlock" ELSE "retire")
            /\ UNCHANGED lock
    /\ UNCHANGED <<runtime, disturbances, raced>>

\* The call ends with an error inside the lock: the file stays.
Bail(c) ==
    /\ Go(c, "idle")
    /\ lock' = None
    /\ saw' = [saw EXCEPT ![c] = None]
    /\ UNCHANGED runtime

\* Mutant: a server that lives and does not answer is left alone.
RetireSpares(c) ==
    /\ pc[c] = "retire"
    /\ \/ /\ ~Alive(saw[c])
          /\ runtime' = None
          /\ Go(c, "unlock")
          /\ UNCHANGED <<saw, lock>>
       \/ Alive(saw[c]) /\ Bail(c)
    /\ UNCHANGED <<disturbances, raced>>

\* retire_incompatible_runtime: kills a server that lives and does not answer,
\* unless it is of another executable.
Retire(c) ==
    /\ pc[c] = "retire"
    /\ \/ /\ ~Alive(saw[c])
          /\ runtime' = None
          /\ Go(c, "unlock")
          /\ UNCHANGED <<saw, lock>>
       \/ Alive(saw[c]) /\ ~Ours(saw[c]) /\ Bail(c)
       \/ /\ Alive(saw[c]) /\ Ours(saw[c])
          /\ pc' = [pc EXCEPT ![c] = "removefile", ![saw[c]] = "dead"]
          /\ lock' = LockAfterDeath(saw[c])
          /\ UNCHANGED <<saw, runtime>>
    /\ UNCHANGED <<disturbances, raced>>

\* terminate_runtime fails: the process died since it was looked at, `kill`
\* fails, or the server still answers a second later.
RetireFails(c) ==
    /\ pc[c] = "retire"
    /\ Disturbance
    /\ Bail(c)
    /\ UNCHANGED raced

\* The end of terminate_runtime, with the lock (retire) or without it (stop).
RemoveFile(c) ==
    /\ pc[c] \in {"removefile", "stopfile", "restartfile"}
    /\ raced' = (raced \/ runtime \notin {None, saw[c]})
    /\ runtime' = None
    /\ saw' = [saw EXCEPT ![c] = None]
    /\ Go(c, CASE pc[c] = "removefile" -> "unlock"
               [] pc[c] = "stopfile" -> "idle"
               [] pc[c] = "restartfile" -> "look")
    /\ UNCHANGED <<lock, disturbances>>

\* StartLock::drop removes the path, whoever made the file.
Unlock(c) ==
    /\ pc[c] = "unlock"
    /\ lock' = None
    /\ saw' = [saw EXCEPT ![c] = None]
    /\ Go(c, "spawn")
    /\ UNCHANGED <<runtime, disturbances, raced>>

\* start_detached_server, after the lock is released.  The address the command
\* asks for is chosen here, where it first makes a difference.
Spawn(c) ==
    /\ pc[c] = "spawn"
    /\ \E p \in Pid :
         /\ FreshPid(p) /\ Ours(p)
         /\ pc' = [pc EXCEPT ![c] = "wait", ![p] = "starting"]
         /\ saw' = [saw EXCEPT ![c] = p]
    /\ UNCHANGED <<runtime, lock, disturbances, raced>>

\* wait_for_detached_server_health: the file names the child and it answers.
ChildHealthy(c) ==
    /\ pc[c] = "wait"
    /\ runtime = saw[c] /\ Healthy(saw[c])
    /\ Go(c, "rewrite")
    /\ UNCHANGED <<saw, runtime, lock, disturbances, raced>>

\* wait_for_detached_server_health: the child exited, or STARTUP_HEALTH_TIMEOUT
\* passed; the child is left to itself.
ChildFails(c) ==
    /\ pc[c] = "wait"
    /\ ~Healthy(saw[c])
    /\ Go(c, "idle")
    /\ saw' = [saw EXCEPT ![c] = None]
    /\ UNCHANGED <<runtime, lock, disturbances, raced>>

\* write_global_runtime_file in the launcher, without the lock.
Rewrite(c) ==
    /\ pc[c] = "rewrite"
    /\ raced' = (raced \/ runtime # saw[c])
    /\ runtime' = saw[c]
    /\ Go(c, "idle")
    /\ saw' = [saw EXCEPT ![c] = None]
    /\ UNCHANGED <<lock, disturbances>>

----------------------------------------------------------------------------
(* stop_server and restart_server *)

\* Kills the process the file names, after its identity was verified.
Stop(c, next) ==
    /\ pc[c] = "idle"
    /\ Alive(runtime) /\ Ours(runtime)
    /\ Disturbance
    /\ pc' = [pc EXCEPT ![c] = next, ![runtime] = "dead"]
    /\ lock' = LockAfterDeath(runtime)
    /\ saw' = [saw EXCEPT ![c] = runtime]
    /\ UNCHANGED <<runtime, raced>>

----------------------------------------------------------------------------
(* run_server: a detached child, or `server start --foreground` *)

Foreground(p) ==
    /\ FreshPid(p)
    /\ Disturbance
    /\ Go(p, "starting")
    /\ UNCHANGED <<saw, runtime, lock, raced>>

\* TcpListener::bind fails while another process has the address.
Bind(p) ==
    /\ pc[p] = "starting"
    /\ Go(p, IF \E q \in Pid : PortOf[q] = PortOf[p] /\ HoldsPort(q)
             THEN "dead" ELSE "bound")
    /\ UNCHANGED <<saw, runtime, lock, disturbances, raced>>

\* Mutant: the server takes over the file without asking who is there.
RegisterBlind(p) ==
    /\ pc[p] = "locked"
    /\ Go(p, "written") /\ runtime' = p
    /\ UNCHANGED <<saw, lock, disturbances, raced>>

\* register_foreground_runtime: bails out when the file names a live server
\* that answers, and otherwise takes the file over.
Register(p) ==
    /\ pc[p] = "locked"
    /\ Resolved(runtime)
    /\ IF Healthy(runtime)
       THEN Go(p, "dead") /\ lock' = None /\ UNCHANGED runtime
       ELSE Go(p, "written") /\ runtime' = p /\ UNCHANGED lock
    /\ raced' = (raced \/ (Alive(runtime) /\ ~Healthy(runtime)))
    /\ UNCHANGED <<saw, disturbances>>

\* The end of register_foreground_runtime drops the lock.
Registered(p) ==
    /\ pc[p] = "written"
    /\ lock' = None
    /\ Go(p, "registered")
    /\ UNCHANGED <<saw, runtime, disturbances, raced>>

\* serve_listener begins to accept.
Serve(p) ==
    /\ pc[p] = "registered"
    /\ Go(p, "serving")
    /\ UNCHANGED <<saw, runtime, lock, disturbances, raced>>

----------------------------------------------------------------------------
(* Faults *)

\* A server process dies, or a command dies while it has the lock.
Crash(x) ==
    /\ Disturbance
    /\ IF x \in Pid THEN pc[x] # "dead" ELSE lock = x
    /\ Go(x, IF x \in Pid THEN "dead" ELSE "idle")
    /\ lock' = LockAfterDeath(x)
    /\ saw' = IF x \in Cmd THEN [saw EXCEPT ![x] = None] ELSE saw
    /\ UNCHANGED <<runtime, raced>>

\* A server stops answering within the client's five seconds ...
Hang(p) ==
    /\ Disturbance
    /\ pc[p] = "serving"
    /\ Go(p, "hung")
    /\ UNCHANGED <<saw, runtime, lock, raced>>

\* ... and may come back, perhaps after it was given up.
Unhang(p) ==
    /\ pc[p] = "hung"
    /\ Go(p, "serving")
    /\ UNCHANGED <<saw, runtime, lock, disturbances, raced>>

----------------------------------------------------------------------------

CmdStep(c) ==
    \/ Look(c) \/ LockedLook(c) \/ Retire(c) \/ RemoveFile(c) \/ Unlock(c)
    \/ Spawn(c) \/ ChildHealthy(c) \/ ChildFails(c) \/ Rewrite(c)

ServerStep(p) == Bind(p) \/ Register(p) \/ Registered(p) \/ Serve(p)

LockStep(x) == TryLock(x) \/ ExamineStale(x) \/ UnlinkStale(x)

Next ==
    \/ \E c \in Cmd :
         \/ Ensure(c) \/ CmdStep(c) \/ RetireFails(c)
         \/ Stop(c, "stopfile") \/ Stop(c, "restartfile")
    \/ \E p \in Pid : Foreground(p) \/ ServerStep(p) \/ Hang(p) \/ Unhang(p)
    \/ \E x \in Proc : LockStep(x) \/ LockTimeout(x) \/ Crash(x)
    \/ LockAges

\* Every process makes progress, a lock that is free again and again is taken,
\* and time passes.  Nothing makes anybody ask for a server: hooks and wrappers
\* only look for one.
Fairness ==
    /\ \A c \in Cmd : WF_vars(CmdStep(c))
    /\ \A p \in Pid : WF_vars(ServerStep(p))
    /\ \A x \in Proc : SF_vars(LockStep(x))
    /\ WF_vars(LockAges)

FairSpec == Init /\ [][Next]_vars /\ Fairness

----------------------------------------------------------------------------

\* Unless another process came between one of the unprotected pairs of steps, or
\* a live server that did not answer was overwritten in the file, a server that
\* serves is the one server.json names: no start, stop, restart or takeover, and
\* no crash of a server or of a holder of the start lock, leaves a server
\* running that later commands cannot find and that keeps the port and the
\* database open.  There is then never a second one.
Discoverable == \A p \in Pid : Healthy(p) /\ ~raced => runtime = p

\* While no such race happens and `server start` is tried again and again, the
\* system recovers from every crash, hang, stop and failed attempt: an abandoned
\* lock, a file that names a dead process and a server that does not answer are
\* all cleared, and a server serves again for good.  A server of another
\* executable that does not answer is left to the user.
ComesUp ==
    []~raced /\ []<>(\E c \in Cmd : pc[c] = "look") =>
      <>[](\E p \in Pid :
             runtime = p /\ (Healthy(p) \/ (~Ours(p) /\ pc[p] = "hung")))
=============================================================================
