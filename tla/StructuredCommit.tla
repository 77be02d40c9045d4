-------------------------- MODULE StructuredCommit --------------------------
(***************************************************************************)
(* `stateful commit` (stateful-cli/src/commit.rs): a commit of one named   *)
(* path, built in a private copy where the Git hooks run, made by a        *)
(* compare-and-swap of HEAD, and followed by a write of what the hooks     *)
(* changed.  The command runs once.  The two hooks run in the same way and *)
(* one step stands for both.                                               *)
(***************************************************************************)
EXTENDS Workspace

VARIABLE cm
    \* batch, the observations the permit was asked with, and at, their HEAD;
    \* copy, the target in the private workspace; temp, the temporary index;
    \* post, what is reported

CommitInit ==
    cm = [pc |-> "observe", batch |-> {}, at |-> <<>>, copy |-> None, temp |-> None,
          post |-> {}]

CM(l) == cm' = [cm EXCEPT !.pc = l]

OnlyCommit == UNCHANGED shared

CommitPaths == {Target, Git}

\* GitMetadataSnapshot: HEAD, the refs and the primary index
GitMetadata == [kind |-> "tree", path |-> Git, id |-> 0, state |-> <<head, index>>]

\* observe_commit_target: a missing file is observed as absent.
ObserveCommitTarget ==
    IF fs[Target] = None THEN ObserveAbsentEntry(fs, Target)
    ELSE ObserveExistingFile(fs, Target)

ObserveCommitBatch == And(ObserveCommitTarget, {GitMetadata})

----------------------------------------------------------------------------
(* prepare_commit *)

ObserveBatch ==
    /\ cm.pc = "observe"
    /\ \E obs \in Sees(ObserveCommitBatch) :
         cm' = [cm EXCEPT !.pc = IF ValidCommit(Target, obs) THEN "read" ELSE "err",
                          !.batch = obs, !.at = head]
    /\ OnlyCommit

RecordBatchRead ==
    /\ cm.pc = "read"
    /\ known' = Recorded("commit", cm.batch)
    /\ CM("prepare")
    /\ UNCHANGED <<files, lease, draining, outcome>>

\* The answers to /v2/commits/prepare: the loop starts over with new
\* observations after RereadRequired, until its deadline.
PrepareCommit ==
    /\ cm.pc = "prepare"
    /\ \/ /\ Ready("commit", CommitPaths, cm.batch)
          /\ CM("ensure")
       \/ /\ RereadRequired("commit", CommitPaths, cm.batch)
          /\ CM("observe")
          /\ OnlyCommit
       \/ /\ Queued("commit", CommitPaths)
          /\ CM("wait")
          /\ OnlyCommit
       \/ /\ CM("err")
          /\ OnlyCommit

\* wait_for_offer observes and reads the batch for the offer; the loop then
\* observes it anew.
TakeOffer ==
    /\ cm.pc = "wait"
    /\ \/ /\ ~Contended("commit", CommitPaths)
          /\ ObserveCommitBatch # {}
          /\ known' = Recorded("commit", ObserveCommitBatch)
          /\ CM("observe")
          /\ UNCHANGED <<files, lease, draining, outcome>>
       \/ CM("err") /\ OnlyCommit

----------------------------------------------------------------------------
(* commit_prepared *)

\* ensure_batch_unchanged, before the private copy is made and before HEAD moves
EnsureBatchUnchanged(from, to) ==
    /\ cm.pc = from
    /\ \E obs \in Sees(ObserveCommitBatch) : CM(IF obs = cm.batch THEN to ELSE "failing")
    /\ OnlyCommit

\* PrivateHookWorkspace::create
CreatePrivate ==
    /\ cm.pc = "private"
    /\ cm' = [cm EXCEPT !.pc = "index", !.copy = DataAt(Target)]
    /\ OnlyCommit

\* Mutant: the temporary index starts as a copy of the primary one.
FromPrimaryIndex ==
    /\ cm.pc = "index"
    /\ cm' = [cm EXCEPT !.pc = "hooks", !.temp = [file |-> cm.copy, other |-> index.other]]
    /\ OnlyCommit

\* TemporaryIndex::from_head, with the target staged from the private copy
FromHead ==
    /\ cm.pc = "index"
    /\ cm' = [cm EXCEPT !.pc = "hooks",
                        !.temp = [file |-> cm.copy, other |-> head[Len(head)].other]]
    /\ OnlyCommit

\* Mutant: what a hook does to the temporary index is not compared.
AssertNothing(before, after) == TRUE

\* HookBoundary::assert_only_declared, of the temporary index; the rest of the
\* boundary may fail whenever somebody works in the repository.
AssertOnlyDeclared(before, after) == after.other = before.other

\* run_allowed_hook, stage_private_targets, changed_existing_targets: a hook may
\* rewrite the target, and stage whatever it likes.  One that fails, removes or
\* creates the target, or leaves its boundary ends the commit.
RunHooks ==
    /\ cm.pc = "hooks"
    /\ \/ \E after \in [file  : IF cm.copy = None THEN {None} ELSE Content,
                         other : {cm.temp.other, cm.temp.other + 1}] :
            /\ AssertOnlyDeclared(cm.temp, after)
            /\ cm' = [cm EXCEPT !.pc = "recheck", !.temp = after]
       \/ CM("failing")
    /\ OnlyCommit

\* Mutant: update-ref without the old value; HEAD's parent is the observed one.
UpdateHeadBlind ==
    /\ cm.pc = "cas"
    /\ head' = Append(cm.at, [by |-> "commit", file |-> cm.temp.file, other |-> cm.temp.other])
    /\ CM("sync")
    /\ UNCHANGED <<fs, index, edits, known, lease, draining, outcome>>

\* commit_temp_index_with_head_cas, update_head_cas
UpdateHeadCas ==
    /\ cm.pc = "cas"
    /\ \/ /\ head = cm.at
          /\ head' = Append(head, [by |-> "commit", file |-> cm.temp.file,
                                   other |-> cm.temp.other])
          /\ CM("sync")
       \/ CM("failing") /\ UNCHANGED head
    /\ UNCHANGED <<fs, index, edits, known, lease, draining, outcome>>

\* Mutant: a failed index refresh is returned as an error.
SynchronizeOrFail ==
    /\ cm.pc = "sync"
    /\ \/ index' = [index EXCEPT !.file = cm.temp.file] /\ CM("post")
       \/ CM("failing") /\ UNCHANGED index
    /\ UNCHANGED <<fs, head, edits, known, lease, draining, outcome>>

\* synchronize_primary_index: a failure is only a warning.
SynchronizePrimaryIndex ==
    /\ cm.pc = "sync"
    /\ \/ index' = [index EXCEPT !.file = cm.temp.file]
       \/ UNCHANGED index
    /\ CM("post")
    /\ UNCHANGED <<fs, head, edits, known, lease, draining, outcome>>

\* The post-state is observed and checked; otherwise the report is Uncertain.
ObservePost ==
    /\ cm.pc = "post"
    /\ \E post \in Sees(ObserveCommitBatch) :
         cm' = [cm EXCEPT !.post = post,
                          !.pc = IF ValidCommitTransition(Target, cm.batch, post)
                                 THEN "success" ELSE "uncertain"]
    /\ OnlyCommit

\* complete_failed observes: FailedKnown when nothing changed.
ObserveFailed ==
    /\ cm.pc = "failing"
    /\ \E post \in Sees(ObserveCommitBatch) :
         cm' = [cm EXCEPT !.post = post,
                          !.pc = IF post = cm.batch THEN "failed_known" ELSE "failed_uncertain"]
    /\ OnlyCommit

\* /v2/commits/complete; the request may be lost, which the commit survives.
CompleteCommit ==
    /\ cm.pc \in {"success", "uncertain", "failed_known", "failed_uncertain"}
    /\ \/ Complete("commit",
                   Resolved(cm.pc, ValidCommitTransition(Target, cm.batch, cm.post),
                            cm.post = cm.batch),
                   cm.batch, cm.post)
       \/ OnlyCommit
    /\ CM(IF cm.pc \in {"success", "uncertain"} THEN "apply" ELSE "err")

----------------------------------------------------------------------------
(* apply_hook_changes; whatever goes wrong is a warning on a commit made *)

Tracked(obs) == {o \in obs : o.kind # "tree"}

HookTargetUnchanged ==
    /\ cm.pc = "apply"
    /\ \E obs \in Sees(ObserveCommitTarget) :
         cm' = [cm EXCEPT !.post = Tracked(cm.batch),
                          !.pc = IF cm.temp.file = cm.copy \/ obs # Tracked(cm.batch)
                                 THEN "ok" ELSE "hookread"]
    /\ OnlyCommit

RecordHookRead ==
    /\ cm.pc = "hookread"
    /\ known' = Recorded("commit", cm.post)
    /\ CM("hookprepare")
    /\ UNCHANGED <<files, lease, draining, outcome>>

\* Any answer but Ready ends it.
PrepareHook ==
    /\ cm.pc = "hookprepare"
    /\ \/ /\ Ready("hook", {Target}, cm.post)
          /\ CM("hookwrite")
       \/ CM("ok") /\ OnlyCommit

\* fs::write; one that fails may have cut the file short or written a part.
WriteHookChange ==
    /\ cm.pc = "hookwrite"
    /\ \/ fs' = Written(Target, cm.temp.file) /\ CM("hookwritten")
       \/ (\E c \in Content : fs' = Written(Target, c)) /\ CM("hookunwritten")
       \/ UNCHANGED fs /\ CM("hookunwritten")
    /\ UNCHANGED <<head, index, edits, known, lease, draining, outcome>>

\* The observation after the write is both expectation and result.
HookReport(post) ==
    CASE post = {} -> "uncertain"
      [] cm.pc = "hookwritten" -> "success"
      [] post = Tracked(cm.batch) -> "failed_known"
      [] OTHER -> "uncertain"

CompleteHook ==
    /\ cm.pc \in {"hookwritten", "hookunwritten"}
    /\ LET op == [op |-> "update", path |-> Target, to |-> Target]
       IN  \E post \in Sees(ObserveCommitTarget) :
             Complete("hook",
                      Resolved(HookReport(post),
                               ValidTransition(op, cm.post, post, post), post = cm.post),
                      cm.post, post)
    /\ CM("ok")

\* The command is killed, or a request before the permit is lost.
CommitDies ==
    /\ cm.pc \notin {"ok", "err", "dead"}
    /\ CM("dead")
    /\ OnlyCommit

CommitStep ==
    \/ ObserveBatch \/ RecordBatchRead \/ PrepareCommit \/ TakeOffer
    \/ EnsureBatchUnchanged("ensure", "private") \/ CreatePrivate \/ FromHead
    \/ RunHooks \/ EnsureBatchUnchanged("recheck", "cas") \/ UpdateHeadCas
    \/ SynchronizePrimaryIndex \/ ObservePost \/ ObserveFailed \/ CompleteCommit
    \/ HookTargetUnchanged \/ RecordHookRead \/ PrepareHook \/ WriteHookChange
    \/ CompleteHook \/ CommitDies
=============================================================================
