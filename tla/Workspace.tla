----------------------------- MODULE Workspace -----------------------------
(***************************************************************************)
(* What the two write wrappers share: the files and the Git metadata of a  *)
(* repository, which anybody may also change without asking, and the       *)
(* coordinator, as far as the wrappers see it.                             *)
(*                                                                         *)
(* The coordinator is the store of LeaseStore and Evidence reduced to its  *)
(* answers: a permit needs the paths free of other tasks' leases and the   *)
(* client's observations equal to the last ones anybody recorded.          *)
(***************************************************************************)
EXTENDS Operations, Sequences

CONSTANTS
    Content,    \* what a file can hold
    Target,     \* the path the structured commit names
    MaxEdits    \* bound on changes made outside the protocol

Task == {"sandbox", "commit"}

\* A write attempt is the sandbox's, the commit, or the commit task's write of
\* what a Git hook changed.
Attempt == {"sandbox", "commit", "hook"}

Owner == [a \in Attempt |-> IF a = "sandbox" THEN "sandbox" ELSE "commit"]

\* The path of the Git metadata observation, leased like any other.
Git == "git"

VARIABLES
    fs,         \* the workspace
    head,       \* the commits HEAD reaches, oldest first: [by, file, other]
    index,      \* the primary index: [file, other]
    known,      \* the observations each task has valid evidence of
    lease,      \* the paths each task has a lease on
    draining,   \* the tasks whose lease only waits for its writes to end
    outcome,    \* what the coordinator holds of each write attempt
    edits

files == <<fs, head, index, edits>>
shared == <<files, known, lease, draining, outcome>>

ASSUME TargetAssumption ==
    /\ Target \in Path /\ Below(Target) = {}
    /\ Git \notin Path /\ MaxEdits \in Nat

\* What a path can lead to; None is none of these.
Node == [kind : {"file", "dir"}, ino : Nat, data : Content \cup {None}]

\* The workspace is finite. Said of inode numbers: whichever the paths lead to,
\* one of Cardinality(Path) + 1 is left for a new file.
ASSUME NodeAssumption ==
    /\ None \notin Node
    /\ Cardinality(Path) \in Nat
    /\ \A used \in [Path -> 1 .. Cardinality(Path) + 1] :
         \E i \in 1 .. Cardinality(Path) + 1 : \A p \in Path : used[p] # i

\* Somebody has changed the target since the last commit.
WorkspaceInit ==
    /\ \E old, new \in Content :
         /\ old # new
         /\ fs = [p \in Path |-> CASE p = Target -> File(1, new)
                                   [] Below(p) # {} -> Dir(2)
                                   [] OTHER -> None]
         /\ head = <<[by |-> "other", file |-> old, other |-> 0]>>
         /\ index = [file |-> old, other |-> 0]
    /\ known = [t \in Task |-> {}]
    /\ lease = [t \in Task |-> {}]
    /\ draining = {}
    /\ outcome = [a \in Attempt |-> "none"]
    /\ edits = 0

----------------------------------------------------------------------------
(* The coordinator *)

Keys(obs) == {<<o.kind, o.path>> : o \in obs}

\* peer_write_in_flight
InFlight(t, p) ==
    \E a \in Attempt : Owner[a] # t /\ outcome[a] = "executing" /\ p \in lease[Owner[a]]

\* sync_observations, insert_evidence: what the other task saw of the same
\* resources stays evidence only if it was the same, and what is read under
\* another task's write is no evidence.
Recorded(t, obs) ==
    [u \in Task |->
       {o \in known[u] : <<o.kind, o.path>> \in Keys(obs) => o \in obs}
       \cup {o \in obs : u = t /\ ~InFlight(t, o.path)}]

\* revoke_overlapping
Revoked(T, paths) ==
    [u \in Task |-> {o \in known[u] : u \in T => o.path \notin paths}]

\* An offer made to the other task is not told apart from its lease.
Contended(t, paths) == \E u \in Task \ {t} : lease[u] \cap paths # {}

Executing(t) == {a \in Attempt : Owner[a] = t /\ outcome[a] = "executing"}

\* write.prepare: queue behind another task's lease, ask for a new read when the
\* evidence is not current, and otherwise lease the paths and issue a permit,
\* which ends the other task's evidence of them.  The paths of two attempts of
\* one task overlap, so the second waits for the result of the first.
Queued(t, paths) == Contended(t, paths)

RereadRequired(t, paths, obs) == ~Contended(t, paths) /\ ~(obs \subseteq known[t])

Ready(a, paths, obs) ==
    /\ ~Contended(Owner[a], paths)
    /\ obs \subseteq known[Owner[a]]
    /\ Owner[a] \notin draining
    /\ Executing(Owner[a]) = {}
    /\ lease' = [lease EXCEPT ![Owner[a]] = @ \cup paths]
    /\ known' = Revoked(Task \ {Owner[a]}, paths)
    /\ outcome' = [outcome EXCEPT ![a] = "executing"]
    /\ UNCHANGED <<files, draining>>

\* write.complete: the report is believed only when the observations bear it out.
Resolved(terminal, valid, same) ==
    CASE terminal = "success" /\ valid -> "completed"
      [] terminal = "failed_known" /\ same -> "failed"
      [] OTHER -> "uncertain"

\* The rest of write.complete: evidence, and the end of a draining lease.  An
\* uncertain result leaves the lease draining.
Complete(a, status, start, post) ==
    LET t    == Owner[a]
        ends == status # "uncertain" /\ t \in draining /\ Executing(t) = {a}
    IN  /\ outcome[a] = "executing"
        /\ outcome' = [outcome EXCEPT ![a] = status]
        /\ known' = CASE status = "completed" -> Recorded(t, post)
                      [] status = "failed" -> known
                      [] status = "uncertain" -> Revoked(Task, {o.path : o \in start})
        /\ lease' = IF ends THEN [lease EXCEPT ![t] = {}] ELSE lease
        /\ draining' = CASE ends -> draining \ {t}
                         [] status = "uncertain" -> draining \cup {t}
                         [] OTHER -> draining
        /\ UNCHANGED files

\* A release, an expiry, the end of the task or an overdue attempt, while the
\* task writes: the lease drains, and the attempt goes on as it was.
Drains(t) ==
    /\ lease[t] # {} /\ t \notin draining
    /\ Executing(t) # {}
    /\ draining' = draining \cup {t}
    /\ UNCHANGED <<files, known, lease, outcome>>

\* The same while it does not write.
Releases(t) ==
    /\ lease[t] # {}
    /\ Executing(t) = {}
    /\ lease' = [lease EXCEPT ![t] = {}]
    /\ draining' = draining \ {t}
    /\ UNCHANGED <<files, known, outcome>>

----------------------------------------------------------------------------
(* The files *)

NewIno == CHOOSE i \in 1 .. Cardinality(Path) + 1 :
            \A p \in Path : fs[p] # None => fs[p].ino # i

DataAt(p) == IF Present(fs, p, "file") THEN fs[p].data ELSE None

\* fs::write: in place, so that every link of the file changes.
Written(p, c) ==
    IF fs[p] = None
    THEN [fs EXCEPT ![p] = File(NewIno, c)]
    ELSE [q \in Path |-> IF fs[q] # None /\ fs[q].ino = fs[p].ino
                         THEN File(fs[p].ino, c) ELSE fs[q]]

\* An editor or a shell writes a file in place, creates it or removes it.
EditedFile(p) ==
    /\ Reachable(fs, p)
    /\ ~Present(fs, p, "dir")
    /\ \/ \E c \in Content : fs' = Written(p, c)
       \/ fs' = [fs EXCEPT ![p] = None]
    /\ fs' # fs
    /\ UNCHANGED <<head, index>>

\* Somebody runs `git add` on another file, or `git commit -a`.
EditedGit ==
    /\ \/ /\ index' = [index EXCEPT !.other = @ + 1]
          /\ UNCHANGED head
       \/ /\ head' = Append(head, [by |-> "other", file |-> DataAt(Target),
                                   other |-> index.other + 1])
          /\ index' = [file |-> DataAt(Target), other |-> index.other + 1]
    /\ UNCHANGED fs

----------------------------------------------------------------------------
(* Observations *)

NoObservation == {}

\* Where obs is there to see, an observation may still meet a change under way
\* and report UnstableObservation.
Sees(obs) == {obs} \cup IF edits < MaxEdits THEN {NoObservation} ELSE {}

\* The observations obs contain exactly what is at p now, under whatever name.
Describes(obs, p) ==
    \E o \in obs :
        \/ o.kind = "object" /\ o.id = fs[p].ino /\ o.state = fs[p].data
        \/ o.kind = "tree" /\ o.path = p /\ Present(fs, p, "dir") /\ o.id = fs[p].ino
        \/ o.kind = "tree" /\ o.path # Git /\ <<p, fs[p]>> \in o.state
=============================================================================
