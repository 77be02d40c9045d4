---------------------------- MODULE ServerProofs ----------------------------
(***************************************************************************)
(* For any number of commands, server processes, addresses and             *)
(* disturbances: a server that serves is the one the discovery file names, *)
(* as long as no other process comes between one of the pairs of steps     *)
(* that ServerLifecycle takes apart.                                       *)
(*                                                                         *)
(* Discoverable is not inductive.  The file names a server from the moment *)
(* it registers, and not only once it serves (Named); only the holder of   *)
(* the start lock registers or retires a server (Exclusive), so what the   *)
(* holder has found in the file is still there when it acts on it (Found); *)
(* and whoever removes the file has killed the server it saw there         *)
(* (Killed), whose identity is not given to another process.               *)
(***************************************************************************)
EXTENDS ServerLifecycle, TLAPS

(* The backend of a step that names none, and the time it may take. *)
USE ZenonT(40)

CmdAt ==
    {"idle", "look", "lock", "stale", "locked", "retire", "removefile", "unlock", "spawn", "wait",
     "rewrite", "stopfile", "restartfile"}

PidAt ==
    {"dead", "starting", "bound", "stale", "locked", "written", "registered", "serving", "hung"}

Types ==
    /\ pc \in [Proc -> CmdAt \cup PidAt]
    /\ \A c \in Cmd : pc[c] \in CmdAt
    /\ \A p \in Pid : pc[p] \in PidAt
    /\ saw \in [Cmd -> Pid \cup {None}]
    /\ runtime \in Pid \cup {None}
    /\ lock \in Proc \cup {None, "left", "stale"}
    /\ raced \in BOOLEAN

\* A process between its acquire_start_lock and the drop of its StartLock has
\* the lock file: there is one such process at most.
InLock == {"locked", "retire", "removefile", "unlock", "written"}

Exclusive == \A x \in Proc : pc[x] \in InLock => lock = x

\* A server is in the file once it has registered.
Registering == {"written", "registered", "serving", "hung"}

Named == \A p \in Pid : pc[p] \in Registering => runtime = p

\* The server a command retires is the one in the file, if there is a file.
Found == \A c \in Cmd : pc[c] = "retire" => runtime \in {saw[c], None}

\* Whoever is about to remove the file has killed the server it saw there.
Removing == {"removefile", "stopfile", "restartfile"}

Killed == \A c \in Cmd : pc[c] \in Removing => saw[c] \in Pid /\ pc[saw[c]] = "dead"

SInv == Types /\ Killed /\ (~raced => Exclusive /\ Named /\ Found)

-----------------------------------------------------------------------------

LEMMA ServerInit == Init => SInv
<1>. SUFFICES ASSUME Init PROVE SInv
  OBVIOUS
<1>1. \A c \in Cmd : pc[c] = "idle"
  BY DEF Init, Proc
<1>2. \A p \in Pid : pc[p] = "dead"
  BY ProcAssumption DEF Init, Proc
<1>3. pc \in [Proc -> CmdAt \cup PidAt]
  BY DEF Init, CmdAt, PidAt
<1>4. Types
  BY <1>1, <1>2, <1>3 DEF Init, Types, CmdAt, PidAt
<1>. QED BY <1>1, <1>2, <1>4 DEF SInv, Killed, Exclusive, Named, Found, Proc,
                                             InLock, Registering, Removing

-----------------------------------------------------------------------------
(* One process moves *)

\* The labels of a process.
Label(x, l) == (x \in Cmd => l \in CmdAt) /\ (x \in Pid => l \in PidAt)

LEMMA GoFacts ==
    ASSUME Types, NEW x \in Proc, NEW l, Label(x, l), Go(x, l)
    PROVE  /\ pc'[x] = l
           /\ \A y \in Proc : y # x => pc'[y] = pc[y]
           /\ pc' \in [Proc -> CmdAt \cup PidAt]
           /\ \A c \in Cmd : pc'[c] \in CmdAt
           /\ \A p \in Pid : pc'[p] \in PidAt
<1>1. l \in CmdAt \cup PidAt
  BY DEF Label, Proc
<1>2. pc' = [pc EXCEPT ![x] = l] /\ pc \in [Proc -> CmdAt \cup PidAt]
  BY DEF Go, Types
<1>3. pc'[x] = l /\ \A y \in Proc : y # x => pc'[y] = pc[y]
  BY <1>2
<1>4. pc' \in [Proc -> CmdAt \cup PidAt]
  BY <1>1, <1>2
<1>. QED BY <1>3, <1>4 DEF Types, Label, Proc

\* The lock file stays and x does not come by it; or x creates it; or it is x's
\* or nobody's, and x is without it afterwards.
LockMoves(x, l) ==
    \/ lock' = lock /\ (l \in InLock => pc[x] \in InLock)
    \/ lock = None /\ lock' = x
    \/ lock \in {x, None, "left", "stale"} /\ l \notin InLock

\* The file stays, or is removed with nobody to find there.
FileMoves == runtime' = runtime \/ (runtime' = None /\ ~Alive(runtime))

\* Steps of one process that neither register a server nor kill one.
LEMMA MoveStep ==
    ASSUME SInv, NEW x \in Proc, NEW l, Label(x, l), Go(x, l),
           l \notin Removing \cup {"retire"},
           l \in Registering => pc[x] \in Registering,
           pc[x] = "dead" => l = "dead" \/ FreshPid(x),
           saw' \in [Cmd -> Pid \cup {None}],
           \A c \in Cmd : c # x => saw'[c] = saw[c],
           lock' \in Proc \cup {None, "left", "stale"},
           runtime' \in Pid \cup {None},
           raced' \in BOOLEAN,
           ~raced' => ~raced /\ FileMoves /\ LockMoves(x, l)
    PROVE  SInv'
<1>1. /\ pc'[x] = l
      /\ \A y \in Proc : y # x => pc'[y] = pc[y]
      /\ pc' \in [Proc -> CmdAt \cup PidAt]
      /\ \A c \in Cmd : pc'[c] \in CmdAt
      /\ \A p \in Pid : pc'[p] \in PidAt
  BY GoFacts DEF SInv
<1>2. Types'
  BY <1>1 DEF Types
<1>3. Killed'
  <2>. SUFFICES ASSUME NEW c \in Cmd, pc'[c] \in Removing
                PROVE  saw'[c] \in Pid /\ pc'[saw'[c]] = "dead"
    BY DEF Killed
  <2>1. c # x /\ c \in Proc
    BY <1>1 DEF Proc
  <2>2. pc[c] \in Removing /\ saw'[c] = saw[c]
    BY <1>1, <2>1
  <2>3. saw[c] \in Pid /\ pc[saw[c]] = "dead" /\ saw[c] \in Proc
    BY <2>2 DEF SInv, Killed, Proc
  <2>4. CASE saw[c] = x
    BY <1>1, <2>2, <2>3, <2>4 DEF FreshPid
  <2>5. CASE saw[c] # x
    BY <1>1, <2>2, <2>3, <2>5
  <2>. QED BY <2>4, <2>5
<1>4. ASSUME ~raced' PROVE Exclusive' /\ Named' /\ Found'
  <2>1. ~raced /\ FileMoves /\ LockMoves(x, l)
    BY <1>4
  <2>2. Exclusive /\ Named /\ Found
    BY <2>1 DEF SInv
  <2>3. Exclusive'
    <3>. SUFFICES ASSUME NEW y \in Proc, pc'[y] \in InLock PROVE lock' = y
      BY DEF Exclusive
    <3>1. y \notin {None, "left", "stale"}
      BY ProcAssumption DEF Proc
    <3>2. CASE y = x
      BY <1>1, <2>1, <2>2, <3>2 DEF LockMoves, Exclusive
    <3>3. CASE y # x
      BY <1>1, <2>1, <2>2, <3>1, <3>3 DEF LockMoves, Exclusive
    <3>. QED BY <3>2, <3>3
  <2>4. Named'
    <3>. SUFFICES ASSUME NEW p \in Pid, pc'[p] \in Registering PROVE runtime' = p
      BY DEF Named
    <3>1. pc[p] \in Registering
      BY <1>1 DEF Proc
    <3>2. Alive(p) /\ runtime = p
      BY <2>2, <3>1 DEF Alive, Registering, Named
    <3>. QED BY <2>1, <3>2 DEF FileMoves
  <2>5. Found'
    BY <1>1, <2>1, <2>2 DEF Found, FileMoves, Proc
  <2>. QED BY <2>3, <2>4, <2>5
<1>. QED BY <1>2, <1>3, <1>4 DEF SInv

\* acquire_start_lock and remove_stale_lock, of a command or of a server.
LEMMA LockSteps ==
    ASSUME SInv, NEW x \in Proc, LockStep(x) \/ LockTimeout(x)
    PROVE  SInv'
<1>. USE DEF Removing, Registering
<1>0. Types /\ lock \in Proc \cup {None, "left", "stale"}
  BY DEF SInv, Types
<1>1. CASE TryLock(x)
  <2>1. Label(x, "locked")
    BY DEF Label, CmdAt, PidAt
  <2>2. pc[x] # "dead"
    BY <1>1 DEF TryLock, AtLock
  <2>3. UNCHANGED <<saw, runtime, raced>> /\ Go(x, "locked") /\ LockMoves(x, "locked")
        /\ lock' = x
    BY <1>1 DEF TryLock, LockMoves
  <2>. QED BY <1>0, <2>1, <2>2, <2>3, MoveStep DEF Types, FileMoves
<1>2. CASE ExamineStale(x)
  <2>1. Label(x, "stale")
    BY DEF Label, CmdAt, PidAt
  <2>2. pc[x] # "dead"
    BY <1>2 DEF ExamineStale, AtLock
  <2>3. UNCHANGED <<saw, runtime, raced, lock>> /\ Go(x, "stale") /\ LockMoves(x, "stale")
    BY <1>2 DEF ExamineStale, LockMoves, InLock
  <2>. QED BY <1>0, <2>1, <2>2, <2>3, MoveStep DEF Types, FileMoves
<1>3. CASE UnlinkStale(x)
  <2>. DEFINE l == IF x \in Cmd THEN "lock" ELSE "bound"
  <2>1. Label(x, l) /\ l \notin Removing \cup {"retire"} \cup Registering
    BY ProcAssumption DEF Label, CmdAt, PidAt
  <2>2. pc[x] # "dead"
    BY <1>3 DEF UnlinkStale
  <2>3. /\ UNCHANGED <<saw, runtime>> /\ Go(x, l)
        /\ raced' \in BOOLEAN
        /\ lock' \in Proc \cup {None, "left", "stale"}
        /\ ~raced' => ~raced /\ LockMoves(x, l)
    BY <1>3 DEF UnlinkStale, LockMoves, InLock
  <2>. HIDE DEF l
  <2>. QED BY <1>0, <2>1, <2>2, <2>3, MoveStep DEF Types, FileMoves
<1>4. CASE LockTimeout(x)
  <2>. DEFINE l == IF x \in Cmd THEN "idle" ELSE "dead"
  <2>1. Label(x, l) /\ l \notin Removing \cup {"retire"} \cup Registering
    BY ProcAssumption DEF Label, CmdAt, PidAt
  <2>2. pc[x] # "dead"
    BY <1>4 DEF LockTimeout, AtLock
  <2>3. UNCHANGED <<saw, runtime, raced, lock>> /\ Go(x, l) /\ LockMoves(x, l)
    BY <1>4 DEF LockTimeout, LockMoves, InLock
  <2>. HIDE DEF l
  <2>. QED BY <1>0, <2>1, <2>2, <2>3, MoveStep DEF Types, FileMoves
<1>. QED BY <1>1, <1>2, <1>3, <1>4 DEF LockStep

\* The steps of a command that look and wait.
LEMMA CommandSteps ==
    ASSUME SInv, NEW c \in Cmd,
           Ensure(c) \/ Look(c) \/ Unlock(c) \/ ChildHealthy(c) \/ ChildFails(c) \/ Rewrite(c)
    PROVE  SInv'
<1>. USE DEF Removing, Registering
<1>0. /\ Types /\ saw \in [Cmd -> Pid \cup {None}] /\ lock \in Proc \cup {None, "left", "stale"}
      /\ c \in Proc /\ c \notin Pid
  BY ProcAssumption DEF SInv, Types, Proc
<1>1. /\ [saw EXCEPT ![c] = None] \in [Cmd -> Pid \cup {None}]
      /\ \A d \in Cmd : d # c => [saw EXCEPT ![c] = None][d] = saw[d]
  BY <1>0
<1>2. \A l \in {"idle", "look", "lock", "spawn", "rewrite"} : Label(c, l)
  BY <1>0 DEF Label, CmdAt
<1>3. pc[c] # "dead"
  BY DEF SInv, Types, CmdAt
<1>4. CASE Ensure(c) \/ Look(c) \/ ChildHealthy(c)
  <2>1. PICK l \in {"idle", "look", "lock", "rewrite"} : Go(c, l)
    BY <1>4 DEF Ensure, Look, ChildHealthy
  <2>2. UNCHANGED <<saw, runtime, lock, raced>>
    BY <1>4 DEF Ensure, Look, ChildHealthy
  <2>3. LockMoves(c, l)
    BY <2>2 DEF LockMoves, InLock
  <2>. QED BY <1>0, <1>2, <1>3, <2>1, <2>2, <2>3, MoveStep DEF Types, FileMoves
<1>5. CASE ChildFails(c)
  <2>1. /\ UNCHANGED <<runtime, lock, raced>> /\ Go(c, "idle")
        /\ saw' = [saw EXCEPT ![c] = None]
    BY <1>5 DEF ChildFails
  <2>2. LockMoves(c, "idle")
    BY <2>1 DEF LockMoves, InLock
  <2>. QED BY <1>0, <1>1, <1>2, <1>3, <2>1, <2>2, MoveStep DEF Types, FileMoves
<1>6. CASE Unlock(c)
  <2>1. /\ UNCHANGED <<runtime, raced>> /\ Go(c, "spawn") /\ lock' = None
        /\ saw' = [saw EXCEPT ![c] = None]
        /\ pc[c] \in InLock
    BY <1>6 DEF Unlock, InLock
  <2>2. ~raced => LockMoves(c, "spawn")
    BY <1>0, <2>1 DEF LockMoves, InLock, SInv, Exclusive
  <2>. QED BY <1>0, <1>1, <1>2, <1>3, <2>1, <2>2, MoveStep DEF Types, FileMoves
<1>7. CASE Rewrite(c)
  <2>1. /\ UNCHANGED lock /\ Go(c, "idle")
        /\ saw' = [saw EXCEPT ![c] = None]
        /\ runtime' = saw[c]
        /\ raced' \in BOOLEAN
        /\ ~raced' => ~raced /\ runtime' = runtime
    BY <1>7 DEF Rewrite
  <2>2. LockMoves(c, "idle") /\ runtime' \in Pid \cup {None}
    BY <1>0, <2>1 DEF LockMoves, InLock
  <2>. QED BY <1>0, <1>1, <1>2, <1>3, <2>1, <2>2, MoveStep DEF FileMoves
<1>. QED BY <1>4, <1>5, <1>6, <1>7

\* The steps of a server, up to register_foreground_runtime and from there on.
LEMMA ServerSteps ==
    ASSUME SInv, NEW p \in Pid,
           Foreground(p) \/ Bind(p) \/ Registered(p) \/ Serve(p) \/ Hang(p) \/ Unhang(p)
    PROVE  SInv'
<1>. USE DEF Removing
<1>0. Types /\ lock \in Proc \cup {None, "left", "stale"} /\ p \in Proc /\ p \notin Cmd
  BY ProcAssumption DEF SInv, Types, Proc
<1>1. \A l \in PidAt : Label(p, l)
  BY <1>0 DEF Label
<1>2. UNCHANGED <<saw, runtime, raced>>
  BY DEF Foreground, Bind, Registered, Serve, Hang, Unhang
<1>3. CASE Foreground(p) \/ Bind(p)
  <2>1. PICK l \in {"starting", "dead", "bound"} : Go(p, l)
    BY <1>3 DEF Foreground, Bind
  <2>2. UNCHANGED lock /\ (pc[p] = "dead" => FreshPid(p))
    BY <1>3 DEF Foreground, Bind
  <2>3. Label(p, l) /\ LockMoves(p, l) /\ l \notin Registering
    BY <1>1, <2>2 DEF PidAt, LockMoves, InLock, Registering
  <2>. QED BY <1>0, <1>2, <2>1, <2>2, <2>3, MoveStep DEF Types, FileMoves
<1>4. CASE Serve(p) \/ Hang(p) \/ Unhang(p)
  <2>1. PICK l \in {"serving", "hung"} : Go(p, l)
    BY <1>4 DEF Serve, Hang, Unhang
  <2>2. UNCHANGED lock /\ pc[p] \in Registering /\ pc[p] # "dead"
    BY <1>4 DEF Serve, Hang, Unhang, Registering
  <2>3. Label(p, l) /\ LockMoves(p, l)
    BY <1>1, <2>2 DEF PidAt, LockMoves, InLock
  <2>. QED BY <1>0, <1>2, <2>1, <2>2, <2>3, MoveStep DEF Types, FileMoves
<1>5. CASE Registered(p)
  <2>1. /\ Go(p, "registered") /\ lock' = None
        /\ pc[p] \in Registering /\ pc[p] # "dead" /\ pc[p] \in InLock
    BY <1>5 DEF Registered, Registering, InLock
  <2>2. Label(p, "registered") /\ (~raced => LockMoves(p, "registered"))
    BY <1>0, <1>1, <2>1 DEF PidAt, LockMoves, InLock, SInv, Exclusive
  <2>. QED BY <1>0, <1>2, <2>1, <2>2, MoveStep DEF Types, FileMoves
<1>. QED BY <1>3, <1>4, <1>5

\* A process dies, and the lock it had is left.
LEMMA CrashStep ==
    ASSUME SInv, NEW x \in Proc, Crash(x)
    PROVE  SInv'
<1>. DEFINE l == IF x \in Pid THEN "dead" ELSE "idle"
<1>0. Types /\ lock \in Proc \cup {None, "left", "stale"} /\ saw \in [Cmd -> Pid \cup {None}]
  BY DEF SInv, Types
<1>1. Label(x, l) /\ l \notin Removing \cup {"retire"} \cup Registering \cup InLock
  BY ProcAssumption DEF Label, CmdAt, PidAt, Removing, Registering, InLock
<1>2. Go(x, l) /\ UNCHANGED <<runtime, raced>> /\ lock' = LockAfterDeath(x)
  BY DEF Crash
<1>3. pc[x] = "dead" => l = "dead"
  BY DEF SInv, Types, Proc, CmdAt
<1>4. LockMoves(x, l) /\ lock' \in Proc \cup {None, "left", "stale"}
  BY <1>0, <1>1, <1>2 DEF LockMoves, LockAfterDeath
<1>5. saw' \in [Cmd -> Pid \cup {None}] /\ \A c \in Cmd : c # x => saw'[c] = saw[c]
  BY <1>0 DEF Crash
<1>. HIDE DEF l
<1>. QED BY <1>0, <1>1, <1>2, <1>3, <1>4, <1>5, MoveStep DEF Types, FileMoves

LEMMA AgeStep == SInv /\ LockAges => SInv'
<1>. SUFFICES ASSUME SInv, LockAges PROVE SInv'
  OBVIOUS
<1>1. UNCHANGED <<pc, saw, runtime, raced>> /\ lock = "left" /\ lock' = "stale"
  BY DEF LockAges
<1>2. Types' /\ Killed' /\ Named' = Named /\ Found' = Found
  BY <1>1 DEF SInv, Types, Killed, Named, Found
<1>3. Exclusive => Exclusive'
  BY <1>1, ProcAssumption DEF Exclusive, Proc
<1>. QED BY <1>1, <1>2, <1>3 DEF SInv

-----------------------------------------------------------------------------
(* A server is found, killed, removed from the file, started and registered *)

\* The second look of ensure_server: what is retired is what the file names.
LEMMA LockedLookStep ==
    ASSUME SInv, NEW c \in Cmd, LockedLook(c)
    PROVE  SInv'
<1>0. /\ Types /\ saw \in [Cmd -> Pid \cup {None}] /\ runtime \in Pid \cup {None}
      /\ lock \in Proc \cup {None, "left", "stale"}
      /\ c \in Proc /\ c \notin Pid
  BY ProcAssumption DEF SInv, Types, Proc
<1>1. pc[c] = "locked" /\ pc[c] \in InLock /\ pc[c] # "dead" /\ UNCHANGED <<runtime, raced>>
  BY DEF LockedLook, InLock
<1>2. \A l \in CmdAt : Label(c, l)
  BY <1>0 DEF Label
<1>3. CASE Healthy(runtime)
  <2>1. Go(c, "idle") /\ lock' = None /\ UNCHANGED saw
    BY <1>3 DEF LockedLook
  <2>2. Label(c, "idle") /\ "idle" \notin Removing \cup {"retire"} \cup Registering
    BY <1>2 DEF CmdAt, Removing, Registering
  <2>3. ~raced => LockMoves(c, "idle")
    BY <1>0, <1>1 DEF LockMoves, InLock, SInv, Exclusive
  <2>. QED BY <1>0, <1>1, <2>1, <2>2, <2>3, MoveStep DEF Types, FileMoves
<1>4. CASE ~Healthy(runtime)
  <2>1. /\ saw' = [saw EXCEPT ![c] = runtime] /\ UNCHANGED lock
        /\ Go(c, IF runtime = None THEN "unlock" ELSE "retire")
    BY <1>4 DEF LockedLook
  <2>2. /\ saw' \in [Cmd -> Pid \cup {None}]
        /\ saw'[c] = runtime
        /\ \A d \in Cmd : d # c => saw'[d] = saw[d]
    BY <1>0, <2>1
  <2>3. CASE runtime = None
    <3>1. Label(c, "unlock") /\ "unlock" \notin Removing \cup {"retire"} \cup Registering
      BY <1>2 DEF CmdAt, Removing, Registering
    <3>2. Go(c, "unlock") /\ LockMoves(c, "unlock")
      BY <1>1, <2>1, <2>3 DEF LockMoves
    <3>. QED BY <1>0, <1>1, <2>1, <2>2, <3>1, <3>2, MoveStep DEF Types, FileMoves
  <2>4. CASE runtime # None
    <3>1. Go(c, "retire") /\ Label(c, "retire") /\ "retire" \notin Removing
      BY <1>2, <2>1, <2>4 DEF CmdAt, Removing
    <3>2. /\ pc'[c] = "retire"
          /\ \A y \in Proc : y # c => pc'[y] = pc[y]
          /\ pc' \in [Proc -> CmdAt \cup PidAt]
          /\ \A d \in Cmd : pc'[d] \in CmdAt
          /\ \A p \in Pid : pc'[p] \in PidAt
      BY <1>0, <3>1, GoFacts
    <3>3. Types'
      BY <1>1, <2>1, <2>2, <3>2 DEF SInv, Types
    <3>4. Killed'
      <4>. SUFFICES ASSUME NEW d \in Cmd, pc'[d] \in Removing
                    PROVE  saw'[d] \in Pid /\ pc'[saw'[d]] = "dead"
        BY DEF Killed
      <4>1. d # c /\ pc[d] \in Removing /\ saw'[d] = saw[d]
        BY <2>2, <3>1, <3>2 DEF Proc
      <4>2. saw[d] \in Pid /\ pc[saw[d]] = "dead"
        BY <4>1 DEF SInv, Killed
      <4>3. saw[d] \in Proc /\ saw[d] # c
        BY <1>0, <4>2 DEF Proc
      <4>. QED BY <3>2, <4>1, <4>2, <4>3
    <3>5. ASSUME Exclusive, Named, Found PROVE Exclusive' /\ Named' /\ Found'
      <4>1. Exclusive'
        BY <1>1, <2>1, <3>2, <3>5 DEF Exclusive
      <4>2. Named'
        BY <1>0, <1>1, <3>2, <3>5 DEF Named, Proc
      <4>3. Found'
        BY <1>1, <2>2, <3>2, <3>5 DEF Found, Proc
      <4>. QED BY <4>1, <4>2, <4>3
    <3>. QED BY <1>1, <3>3, <3>4, <3>5 DEF SInv
  <2>. QED BY <2>3, <2>4
<1>. QED BY <1>3, <1>4

\* A command kills the server it saw, and has the file left to remove.
LEMMA KillStep ==
    ASSUME SInv, NEW c \in Cmd, NEW q \in Pid, NEW l \in Removing,
           pc' = [pc EXCEPT ![c] = l, ![q] = "dead"],
           lock' = LockAfterDeath(q),
           saw' \in [Cmd -> Pid \cup {None}], saw'[c] = q,
           \A d \in Cmd : d # c => saw'[d] = saw[d],
           UNCHANGED <<runtime, raced>>,
           l \in InLock => pc[c] \in InLock
    PROVE  SInv'
<1>0. /\ pc \in [Proc -> CmdAt \cup PidAt] /\ lock \in Proc \cup {None, "left", "stale"}
      /\ c \in Proc /\ q \in Proc /\ c # q
      /\ l \in CmdAt /\ "dead" \in PidAt /\ l # "retire"
      /\ "dead" \notin InLock \cup Registering
  BY SMTT(40), ProcAssumption DEF SInv, Types, Proc, Removing, CmdAt, PidAt, InLock, Registering
<1>1. /\ pc' \in [Proc -> CmdAt \cup PidAt]
      /\ pc'[c] = l /\ pc'[q] = "dead"
      /\ \A y \in Proc : y # c /\ y # q => pc'[y] = pc[y]
  BY <1>0
<1>2. lock' \in Proc \cup {None, "left", "stale"} /\ (lock # q => lock' = lock)
  BY <1>0 DEF LockAfterDeath
<1>3. c \notin Pid /\ q \notin Cmd
  BY ProcAssumption
<1>4. Types'
  BY <1>0, <1>1, <1>2, <1>3 DEF SInv, Types, Proc
<1>5. Killed'
  <2>. SUFFICES ASSUME NEW d \in Cmd, d # c, pc'[d] \in Removing
                PROVE  saw'[d] \in Pid /\ pc'[saw'[d]] = "dead"
    BY <1>1 DEF Killed
  <2>1. pc[d] \in Removing /\ saw'[d] = saw[d]
    BY <1>1, <1>3 DEF Proc
  <2>2. saw[d] \in Pid /\ pc[saw[d]] = "dead"
    BY <2>1 DEF SInv, Killed
  <2>. QED BY <1>1, <1>3, <2>1, <2>2 DEF Proc
<1>6. ASSUME Exclusive, Named, Found PROVE Exclusive' /\ Named' /\ Found'
  <2>1. Exclusive'
    <3>. SUFFICES ASSUME NEW y \in Proc, pc'[y] \in InLock PROVE lock' = y
      BY DEF Exclusive
    <3>1. y # q /\ pc[y] \in InLock
      BY <1>0, <1>1
    <3>. QED BY <1>2, <1>6, <3>1 DEF Exclusive
  <2>2. Named'
    BY <1>0, <1>1, <1>3, <1>6 DEF Named, Proc
  <2>3. Found'
    BY <1>0, <1>1, <1>3, <1>6 DEF Found, Proc
  <2>. QED BY <2>1, <2>2, <2>3
<1>. QED BY <1>4, <1>5, <1>6 DEF SInv

\* An error return gives the lock back and changes nothing else.
LEMMA BailStep ==
    ASSUME SInv, NEW c \in Cmd, pc[c] = "retire", Bail(c), UNCHANGED raced
    PROVE  SInv'
<1>0. /\ Types /\ saw \in [Cmd -> Pid \cup {None}]
      /\ lock \in Proc \cup {None, "left", "stale"}
      /\ c \in Proc /\ c \notin Pid
  BY ProcAssumption DEF SInv, Types, Proc
<1>1. /\ Go(c, "idle") /\ lock' = None /\ saw' = [saw EXCEPT ![c] = None]
      /\ UNCHANGED <<runtime, raced>> /\ pc[c] \in InLock /\ pc[c] # "dead"
  BY DEF Bail, InLock
<1>2. Label(c, "idle") /\ "idle" \notin Removing \cup {"retire"} \cup Registering
  BY <1>0 DEF Label, CmdAt, Removing, Registering
<1>3. ~raced => LockMoves(c, "idle")
  BY <1>0, <1>1 DEF LockMoves, InLock, SInv, Exclusive
<1>4. /\ saw' \in [Cmd -> Pid \cup {None}]
      /\ \A d \in Cmd : d # c => saw'[d] = saw[d]
  BY <1>0, <1>1
<1>5. /\ lock' \in Proc \cup {None, "left", "stale"} /\ runtime' \in Pid \cup {None}
      /\ raced' \in BOOLEAN /\ (~raced' => ~raced /\ FileMoves /\ LockMoves(c, "idle"))
  BY SMTT(40), <1>0, <1>1, <1>3 DEF Types, FileMoves
<1>. QED BY <1>0, <1>1, <1>2, <1>4, <1>5, MoveStep

\* retire_incompatible_runtime: the server in the file is killed first, or it is
\* dead already, or the call fails.
LEMMA RetireStep ==
    ASSUME SInv, NEW c \in Cmd, Retire(c) \/ RetireFails(c)
    PROVE  SInv'
<1>0. /\ Types /\ saw \in [Cmd -> Pid \cup {None}]
      /\ lock \in Proc \cup {None, "left", "stale"}
      /\ c \in Proc /\ c \notin Pid
  BY ProcAssumption DEF SInv, Types, Proc
<1>1. pc[c] = "retire" /\ pc[c] \in InLock /\ pc[c] # "dead" /\ UNCHANGED raced
  BY DEF Retire, RetireFails, InLock
<1>2. CASE Bail(c)
  BY <1>1, <1>2, BailStep
<1>3. CASE Retire(c) /\ ~Bail(c) /\ Alive(saw[c])
  <2>1. /\ pc' = [pc EXCEPT ![c] = "removefile", ![saw[c]] = "dead"]
        /\ lock' = LockAfterDeath(saw[c]) /\ UNCHANGED <<saw, runtime>>
        /\ saw[c] \in Pid /\ "removefile" \in Removing
    BY <1>3 DEF Retire, Alive, Removing
  <2>2. /\ saw' \in [Cmd -> Pid \cup {None}] /\ saw'[c] = saw[c]
        /\ \A d \in Cmd : d # c => saw'[d] = saw[d]
    BY <1>0, <2>1
  <2>. QED BY <1>1, <2>1, <2>2, KillStep
<1>4. CASE Retire(c) /\ ~Alive(saw[c])
  <2>1. runtime' = None /\ Go(c, "unlock") /\ UNCHANGED <<saw, lock>>
    BY <1>4 DEF Retire
  <2>2. Label(c, "unlock") /\ "unlock" \notin Removing \cup {"retire"} \cup Registering
    BY <1>0 DEF Label, CmdAt, Removing, Registering
  <2>3. LockMoves(c, "unlock")
    BY <1>1, <2>1 DEF LockMoves
  <2>4. ~raced => FileMoves
    <3>. SUFFICES ASSUME ~raced PROVE ~Alive(runtime)
      BY <2>1 DEF FileMoves
    <3>1. runtime \in {saw[c], None}
      BY <1>1 DEF SInv, Found
    <3>. QED BY <1>4, <3>1, ProcAssumption DEF Alive
  <2>. QED BY <1>0, <1>1, <2>1, <2>2, <2>3, <2>4, MoveStep DEF Types
<1>. QED BY <1>2, <1>3, <1>4 DEF RetireFails

\* stop_server and restart_server kill the server in the file.
LEMMA StopStep ==
    ASSUME SInv, NEW c \in Cmd, NEW l \in {"stopfile", "restartfile"}, Stop(c, l)
    PROVE  SInv'
<1>0. saw \in [Cmd -> Pid \cup {None}]
  BY DEF SInv, Types
<1>1. /\ runtime \in Pid /\ UNCHANGED <<runtime, raced>>
      /\ pc' = [pc EXCEPT ![c] = l, ![runtime] = "dead"]
      /\ lock' = LockAfterDeath(runtime)
      /\ saw' = [saw EXCEPT ![c] = runtime]
  BY DEF Stop, Alive
<1>2. /\ saw' \in [Cmd -> Pid \cup {None}] /\ saw'[c] = runtime
      /\ \A d \in Cmd : d # c => saw'[d] = saw[d]
  BY <1>0, <1>1
<1>3. l \in Removing /\ l \notin InLock
  BY DEF Removing, InLock
<1>. QED BY <1>1, <1>2, <1>3, KillStep

\* The end of terminate_runtime: the file names the server that was killed, or
\* there is none.
LEMMA RemoveFileStep ==
    ASSUME SInv, NEW c \in Cmd, RemoveFile(c)
    PROVE  SInv'
<1>0. /\ Types /\ saw \in [Cmd -> Pid \cup {None}]
      /\ lock \in Proc \cup {None, "left", "stale"}
      /\ c \in Proc /\ c \notin Pid
  BY ProcAssumption DEF SInv, Types, Proc
<1>1. /\ pc[c] \in Removing /\ runtime' = None /\ UNCHANGED lock
      /\ saw' = [saw EXCEPT ![c] = None]
  BY DEF RemoveFile, Removing
<1>2. pc[c] # "dead" /\ raced' = (raced \/ runtime \notin {None, saw[c]})
  BY DEF RemoveFile
<1>3. /\ saw' \in [Cmd -> Pid \cup {None}]
      /\ \A d \in Cmd : d # c => saw'[d] = saw[d]
  BY <1>0, <1>1
<1>4. ~Alive(saw[c]) /\ ~Alive(None)
  BY <1>1, ProcAssumption DEF SInv, Killed, Alive
<1>5. raced' \in BOOLEAN /\ (~raced' => ~raced /\ FileMoves)
  BY <1>1, <1>2, <1>4 DEF FileMoves
<1>6. PICK l : /\ Go(c, l) /\ l \in {"unlock", "idle", "look"}
               /\ l = "unlock" => pc[c] = "removefile"
  <2>1. CASE pc[c] = "removefile"
    BY <2>1 DEF RemoveFile
  <2>2. CASE pc[c] = "stopfile"
    BY SMTT(40), <2>2 DEF RemoveFile
  <2>3. CASE pc[c] = "restartfile"
    BY SMTT(40), <2>3 DEF RemoveFile
  <2>. QED BY <1>1, <2>1, <2>2, <2>3 DEF Removing
<1>7. Label(c, l) /\ l \notin Removing \cup {"retire"} \cup Registering
  BY <1>0, <1>6 DEF Label, CmdAt, Removing, Registering
<1>8. LockMoves(c, l)
  BY <1>1, <1>6 DEF LockMoves, InLock
<1>. QED BY <1>0, <1>1, <1>2, <1>3, <1>5, <1>6, <1>7, <1>8, MoveStep

\* start_detached_server: nobody remembers the new process.
LEMMA SpawnStep ==
    ASSUME SInv, NEW c \in Cmd, Spawn(c)
    PROVE  SInv'
<1>0. PICK p \in Pid : /\ FreshPid(p)
                       /\ pc' = [pc EXCEPT ![c] = "wait", ![p] = "starting"]
                       /\ saw' = [saw EXCEPT ![c] = p]
  BY DEF Spawn
<1>1. UNCHANGED <<runtime, lock, raced>>
  BY DEF Spawn
<1>2. /\ pc \in [Proc -> CmdAt \cup PidAt] /\ saw \in [Cmd -> Pid \cup {None}]
      /\ c \in Proc /\ p \in Proc /\ c \notin Pid /\ p \notin Cmd
      /\ "wait" \in CmdAt /\ "starting" \in PidAt
      /\ {"wait", "starting"} \cap (InLock \cup Registering \cup Removing \cup {"retire"}) = {}
  BY ProcAssumption DEF SInv, Types, Proc, CmdAt, PidAt, InLock, Registering, Removing
<1>3. /\ pc' \in [Proc -> CmdAt \cup PidAt]
      /\ pc'[c] = "wait" /\ pc'[p] = "starting"
      /\ \A y \in Proc : y # c /\ y # p => pc'[y] = pc[y]
  BY <1>0, <1>2
<1>4. /\ saw' \in [Cmd -> Pid \cup {None}]
      /\ \A d \in Cmd : d # c => saw'[d] = saw[d]
  BY <1>0, <1>2
<1>5. Types'
  BY <1>1, <1>2, <1>3, <1>4 DEF SInv, Types, Proc
<1>6. Killed'
  <2>. SUFFICES ASSUME NEW d \in Cmd, pc'[d] \in Removing
                PROVE  saw'[d] \in Pid /\ pc'[saw'[d]] = "dead"
    BY DEF Killed
  <2>1. d # c
    BY <1>2, <1>3
  <2>2. pc[d] \in Removing /\ saw'[d] = saw[d]
    BY <1>2, <1>3, <1>4, <2>1 DEF Proc
  <2>3. saw[d] \in Pid /\ pc[saw[d]] = "dead" /\ saw[d] # p
    BY <1>0, <2>2 DEF SInv, Killed, FreshPid
  <2>. QED BY <1>2, <1>3, <2>2, <2>3 DEF Proc
<1>7. ASSUME Exclusive, Named, Found PROVE Exclusive' /\ Named' /\ Found'
  <2>1. Exclusive'
    BY <1>1, <1>2, <1>3, <1>7 DEF Exclusive
  <2>2. Named'
    BY <1>1, <1>2, <1>3, <1>7 DEF Named, Proc
  <2>3. Found'
    BY <1>1, <1>2, <1>3, <1>4, <1>7 DEF Found, Proc
  <2>. QED BY <2>1, <2>2, <2>3
<1>. QED BY <1>1, <1>5, <1>6, <1>7 DEF SInv

\* register_foreground_runtime: the file names no live server, so the server that
\* takes it over is the only one that has registered; and the lock keeps it from
\* being taken over between the look of another process and what it does.
LEMMA RegisterStep ==
    ASSUME SInv, NEW p \in Pid, Register(p)
    PROVE  SInv'
<1>0. /\ Types /\ lock \in Proc \cup {None, "left", "stale"}
      /\ p \in Proc /\ p \notin Cmd /\ \A l \in PidAt : Label(p, l)
  BY ProcAssumption DEF SInv, Types, Proc, Label
<1>1. pc[p] = "locked" /\ pc[p] \in InLock /\ pc[p] # "dead" /\ UNCHANGED saw
  BY DEF Register, InLock
<1>2. raced' = (raced \/ (Alive(runtime) /\ ~Healthy(runtime)))
  BY DEF Register
<1>3. CASE Healthy(runtime)
  <2>1. Go(p, "dead") /\ lock' = None /\ UNCHANGED runtime
    BY <1>3 DEF Register
  <2>2. Label(p, "dead") /\ "dead" \notin Removing \cup {"retire"} \cup Registering
    BY <1>0 DEF PidAt, Removing, Registering
  <2>3. raced' \in BOOLEAN /\ (~raced' => ~raced /\ FileMoves)
    BY <1>2, <2>1 DEF FileMoves
  <2>4. ~raced => LockMoves(p, "dead")
    BY <1>0, <1>1 DEF LockMoves, InLock, SInv, Exclusive
  <2>. QED BY <1>0, <1>1, <2>1, <2>2, <2>3, <2>4, MoveStep DEF Types
<1>4. CASE ~Healthy(runtime)
  <2>1. Go(p, "written") /\ runtime' = p /\ UNCHANGED lock
    BY <1>4 DEF Register
  <2>2. Label(p, "written") /\ "written" \notin Removing \cup {"retire"} /\ "written" \in InLock
    BY <1>0 DEF PidAt, Removing, InLock
  <2>3. /\ pc'[p] = "written"
        /\ \A y \in Proc : y # p => pc'[y] = pc[y]
        /\ pc' \in [Proc -> CmdAt \cup PidAt]
        /\ \A d \in Cmd : pc'[d] \in CmdAt
        /\ \A q \in Pid : pc'[q] \in PidAt
    BY <1>0, <2>1, <2>2, GoFacts
  <2>4. raced' \in BOOLEAN /\ (~raced' => ~raced /\ ~Alive(runtime))
    BY <1>2, <1>4
  <2>5. Types'
    BY <1>1, <2>1, <2>3, <2>4 DEF SInv, Types
  <2>6. Killed'
    <3>. SUFFICES ASSUME NEW d \in Cmd, pc'[d] \in Removing
                  PROVE  saw'[d] \in Pid /\ pc'[saw'[d]] = "dead"
      BY DEF Killed
    <3>1. d # p /\ pc[d] \in Removing /\ saw'[d] = saw[d]
      BY <1>0, <1>1, <2>3 DEF Proc
    <3>2. saw[d] \in Pid /\ pc[saw[d]] = "dead" /\ saw[d] # p
      BY <1>1, <3>1 DEF SInv, Killed
    <3>. QED BY <2>3, <3>1, <3>2 DEF Proc
  <2>7. ASSUME ~raced' PROVE Exclusive' /\ Named' /\ Found'
    <3>1. Exclusive /\ Named /\ ~Alive(runtime)
      BY <2>4, <2>7 DEF SInv
    <3>2. lock = p
      BY <1>0, <1>1, <3>1 DEF Exclusive
    <3>3. Exclusive'
      BY <2>1, <2>3, <3>1, <3>2 DEF Exclusive
    <3>4. Named'
      <4>. SUFFICES ASSUME NEW q \in Pid, pc'[q] \in Registering PROVE runtime' = q
        BY DEF Named
      <4>1. CASE q = p
        BY <2>1, <4>1
      <4>2. CASE q # p
        <5>1. pc[q] \in Registering
          BY <2>3, <4>2 DEF Proc
        <5>2. runtime = q /\ Alive(q)
          BY <3>1, <5>1 DEF Named, Alive, Registering
        <5>. QED BY <3>1, <5>2
      <4>. QED BY <4>1, <4>2
    <3>5. Found'
      <4>. SUFFICES ASSUME NEW d \in Cmd, pc'[d] = "retire" PROVE FALSE
        BY DEF Found
      <4>1. d \in Proc /\ d # p /\ pc[d] \in InLock
        BY <1>0, <2>3 DEF Proc, InLock
      <4>. QED BY <3>1, <3>2, <4>1 DEF Exclusive
    <3>. QED BY <3>3, <3>4, <3>5
  <2>. QED BY <2>5, <2>6, <2>7 DEF SInv
<1>. QED BY <1>3, <1>4

-----------------------------------------------------------------------------

\* Every step of the system keeps the invariant.
LEMMA ServerNext == SInv /\ [Next]_vars => SInv'
<1>. SUFFICES ASSUME SInv, [Next]_vars PROVE SInv'
  OBVIOUS
<1>1. ASSUME NEW c \in Cmd,
             \/ Ensure(c) \/ CmdStep(c) \/ RetireFails(c)
             \/ Stop(c, "stopfile") \/ Stop(c, "restartfile")
      PROVE  SInv'
  BY <1>1, CommandSteps, LockedLookStep, RetireStep, RemoveFileStep, SpawnStep,
     StopStep DEF CmdStep
<1>2. ASSUME NEW p \in Pid, Foreground(p) \/ ServerStep(p) \/ Hang(p) \/ Unhang(p)
      PROVE  SInv'
  BY <1>2, ServerSteps, RegisterStep DEF ServerStep
<1>3. ASSUME NEW x \in Proc, LockStep(x) \/ LockTimeout(x) \/ Crash(x)
      PROVE  SInv'
  BY <1>3, LockSteps, CrashStep
<1>4. CASE UNCHANGED vars
  BY <1>4 DEF vars, SInv, Types, Killed, Exclusive, Named, Found
<1>. QED BY <1>1, <1>2, <1>3, <1>4, AgeStep DEF Next

\* ensure_server, stop_server, restart_server and run_server: a server that
\* serves can be found.  Any number of commands may start, stop, restart and
\* retire servers at once, and servers and holders of the start lock may crash.
THEOREM ServersAreDiscoverable == FairSpec => []Discoverable
<1>1. SInv => Discoverable
  BY DEF SInv, Named, Discoverable, Healthy, Registering
<1>. QED BY ServerInit, ServerNext, <1>1, PTL DEF FairSpec

\* acquire_start_lock: until somebody unlinks a lock that is not stale, or
\* another of the races happens, two processes are never both between taking
\* the start lock and giving it back.
THEOREM StartLockExcludes ==
    FairSpec => [](~raced => \A x, y \in Proc : pc[x] \in InLock /\ pc[y] \in InLock => x = y)
<1>1. SInv => (~raced => \A x, y \in Proc : pc[x] \in InLock /\ pc[y] \in InLock => x = y)
  BY DEF SInv, Exclusive
<1>. QED BY ServerInit, ServerNext, <1>1, PTL DEF FairSpec
=============================================================================
