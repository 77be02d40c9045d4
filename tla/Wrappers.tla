------------------------------ MODULE Wrappers ------------------------------
(***************************************************************************)
(* A sandbox mutation and a structured commit of two tasks in one          *)
(* workspace, with people at work in it who ask nobody.                    *)
(***************************************************************************)
EXTENDS SandboxMutation, StructuredCommit

VARIABLE late   \* tasks whose last look at a path was followed by a change

vars == <<shared, sb, cm, late>>

Init == WorkspaceInit /\ SandboxInit /\ CommitInit /\ late = {}

\* A change from outside the protocol; it may undo what the sandbox did.
Outside ==
    /\ edits < MaxEdits
    /\ edits' = edits + 1
    /\ \/ \E p \in Path :
            /\ EditedFile(p)
            /\ sb' = [sb EXCEPT !.did = IF @ = "yes" /\ ObserveOperation(fs', sb.op) = sb.pre
                                        THEN "undone" ELSE @]
       \/ EditedGit /\ UNCHANGED sb
    /\ UNCHANGED <<known, lease, draining, outcome, cm>>

Coordinator ==
    /\ \E t \in Task : Drains(t) \/ Releases(t)
    /\ UNCHANGED <<sb, cm>>

\* Between the last look of a wrapper at a path and its change to it the path is
\* protected by the lease alone, which does not bind outsiders; and between the
\* look at a hook's target and the read recorded of it, by nothing.
Unprotected(t) ==
    IF t = "sandbox"
    THEN IF sb.pc = "apply" /\ edits' # edits THEN Paths(sb.op) ELSE {}
    ELSE IF \/ cm.pc \in {"hookprepare", "hookwrite"} /\ edits' # edits
            \/ cm.pc = "hookread"
         THEN {Target} ELSE {}

Next ==
    /\ \/ SandboxStep /\ UNCHANGED cm
       \/ CommitStep /\ UNCHANGED sb
       \/ Outside
       \/ Coordinator
    /\ late' = late \cup {t \in Task : \E p \in Unprotected(t) : fs'[p] # fs[p]}

Spec == Init /\ [][Next]_vars

----------------------------------------------------------------------------

\* A wrapper replaces or removes a file or a directory only if the observations
\* its permit rests on describe exactly what is there: neither an edit made
\* beside the protocol nor the other wrapper's change is overwritten unseen.
\* Excepted is a change that falls between the last look (sandbox.rs
\* observe_operation before apply; commit.rs apply_hook_changes) and the
\* wrapper's own, where Unprotected says so.
NoLostEdit ==
    [][\A p \in Path : fs[p] # None /\ fs'[p] # fs[p] =>
         /\ sb'.pc # sb.pc /\ "sandbox" \notin late => Describes(sb.pre, p)
         /\ cm'.pc # cm.pc /\ "commit" \notin late => Describes(cm.batch, p)]_vars

\* HEAD only grows: the commit is put on top of whatever commits were made while
\* its hooks ran, or not at all (commit.rs update_head_cas).
NoLostCommit ==
    [][Len(head) <= Len(head') /\ SubSeq(head', 1, Len(head)) = head]_head

\* The commit contains no change to a file that was not named, whatever was
\* staged for it in the primary index (TemporaryIndex::from_head).
CommitsNamedPathOnly ==
    \A i \in 2 .. Len(head) :
        head[i].by = "commit" => head[i].other = head[i-1].other

Committed == \E i \in 1 .. Len(head) : head[i].by = "commit"

\* `stateful commit` succeeds exactly if its commit is in HEAD, and so does its
\* attempt in the coordinator's records.
CommitResultsAreTrue ==
    /\ cm.pc = "ok" => Committed
    /\ cm.pc = "err" => ~Committed
    /\ outcome["commit"] = "completed" => Committed
    /\ outcome["commit"] = "failed" => ~Committed

\* The command's result and the coordinator's records agree with what happened:
\* those of the commit, and a sandbox mutation recorded as completed took
\* effect, one recorded as failed did not.  Excepted is a mutation whose
\* post-state the wrapper could not observe: it reports the pre-state instead,
\* and the failure is believed.
ResultsAreTrue ==
    /\ CommitResultsAreTrue
    /\ outcome["sandbox"] = "completed" => sb.did # "no"
    /\ outcome["sandbox"] = "failed" => sb.did # "yes" \/ sb.blind
=============================================================================
