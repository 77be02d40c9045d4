--------------------------- MODULE SandboxMutation ---------------------------
(***************************************************************************)
(* `stateful sandbox run --fs mutation` (stateful-cli/src/sandbox.rs): one *)
(* declared operation, performed by a command in a private copy of its     *)
(* paths and then applied to the workspace.  The wrapper runs once; every  *)
(* look at the workspace, every request to the coordinator and every       *)
(* change is a step of its own.                                            *)
(***************************************************************************)
EXTENDS Workspace

CONSTANT Operation      \* the operations the wrapper is asked for

ASSUME OperationAssumption ==
    Operation \subseteq
        [op : {"create", "update", "delete", "rename", "hardlink", "mkdir", "rmdir",
               "write_directory"},
         path : Path, to : Path]

VARIABLE sb
    \* op; pre, the observations before the permit; current, the ones the permit
    \* was asked with; data, what the command left; did, whether it was
    \* applied (history); post and blind, the report

SandboxInit ==
    \E op \in Operation :
        sb = [pc |-> "start", op |-> op, pre |-> {}, current |-> {}, data |-> None,
              did |-> "no", post |-> {}, blind |-> FALSE]

\* The paths an operation is about, its directory's content included.
Paths(op) == {op.path, op.to} \cup Below(op.path)

SB(l) == sb' = [sb EXCEPT !.pc = l]

OnlySandbox == UNCHANGED shared

----------------------------------------------------------------------------
(* run_staged_mutation up to the permit, and prepare_until_ready *)

\* pre_resources is taken once, before the permit is asked for.
ObservePre ==
    /\ sb.pc = "start"
    /\ \E obs \in Sees(ObserveOperation(fs, sb.op)) :
         sb' = [sb EXCEPT !.pc = IF obs = NoObservation THEN "failed" ELSE "read",
                          !.pre = obs, !.current = obs]
    /\ OnlySandbox

\* record_exact_read
RecordRead ==
    /\ sb.pc = "read"
    /\ known' = Recorded("sandbox", sb.current)
    /\ SB("prepare")
    /\ UNCHANGED <<files, lease, draining, outcome>>

\* The answers to /v2/writes/prepare; a denial and an unanswered request both
\* end the run before anything was done.
Prepare ==
    /\ sb.pc = "prepare"
    /\ \/ /\ Ready("sandbox", Paths(sb.op), sb.current)
          /\ SB("populate")
       \/ /\ RereadRequired("sandbox", Paths(sb.op), sb.current)
          /\ SB("again")
          /\ OnlySandbox
       \/ /\ Queued("sandbox", Paths(sb.op))
          /\ SB("wait")
          /\ OnlySandbox
       \/ /\ SB("failed")
          /\ OnlySandbox

\* RereadRequired, and an offer: the paths are observed and read again.
ObserveAgain ==
    /\ \/ sb.pc = "again"
       \/ sb.pc = "wait" /\ ~Contended("sandbox", Paths(sb.op))
    /\ \E obs \in Sees(ObserveOperation(fs, sb.op)) :
         sb' = [sb EXCEPT !.pc = IF obs = NoObservation THEN "failed" ELSE "read",
                          !.current = obs]
    /\ OnlySandbox

\* wait_for_offer gives up after the offer time to live.
OfferTimesOut ==
    /\ sb.pc = "wait"
    /\ SB("failed")
    /\ OnlySandbox

----------------------------------------------------------------------------
(* The private stage *)

\* PrivateStage::populate; copy_existing fails on a path that is gone.
Populate ==
    /\ sb.pc = "populate"
    /\ SB(IF sb.op.op \notin {"create", "mkdir"} /\ fs[sb.op.path] = None
          THEN "error" ELSE "command")
    /\ OnlySandbox

HasContent(op) == op.op \in {"create", "update", "write_directory"}

\* run_sandboxed_command, and stage.validate on what the command left behind:
\* it failed or timed out, it produced something else, or it did as declared.
RunCommand ==
    /\ sb.pc = "command"
    /\ \/ SB("childfailed")
       \/ SB("error")
       \/ \E c \in IF HasContent(sb.op) THEN Content ELSE {None} :
            sb' = [sb EXCEPT !.pc = "look", !.data = c]
    /\ OnlySandbox

\* Mutant: the workspace is not looked at again before the change.
FinalLookSkipped ==
    /\ sb.pc = "look"
    /\ SB("apply")
    /\ OnlySandbox

\* The last look: the workspace must still be as it was before the permit.
FinalLook ==
    /\ sb.pc = "look"
    /\ \E obs \in Sees(ObserveOperation(fs, sb.op)) :
         SB(IF obs = sb.pre THEN "apply" ELSE "error")
    /\ OnlySandbox

\* The file the command left in the stage has an inode of its own.
StagedIno == Cardinality(Path) + 2

\* PrivateStage::apply, where the paths still allow it.
Applied(op, c) ==
    LET p == op.path
    IN  CASE op.op \in {"create", "update"} ->
               IF Present(fs, p, "dir") THEN fs
               ELSE [fs EXCEPT ![p] = File(StagedIno, c)]
          [] op.op = "delete" ->
               IF Present(fs, p, "file") THEN [fs EXCEPT ![p] = None] ELSE fs
          [] op.op = "rename" ->
               IF Present(fs, p, "file") /\ ~Present(fs, op.to, "dir")
               THEN [fs EXCEPT ![p] = None, ![op.to] = fs[p]] ELSE fs
          [] op.op = "hardlink" ->
               IF Present(fs, p, "file") /\ fs[op.to] = None
               THEN [fs EXCEPT ![op.to] = fs[p]] ELSE fs
          [] op.op = "mkdir" ->
               IF fs[p] = None THEN [fs EXCEPT ![p] = Dir(NewIno)] ELSE fs
          [] op.op = "rmdir" ->
               IF Present(fs, p, "dir") /\ \A q \in Below(p) : fs[q] = None
               THEN [fs EXCEPT ![p] = None] ELSE fs
          [] op.op = "write_directory" ->
               IF Present(fs, p, "dir")
               THEN [q \in Path |-> CASE q = p -> Dir(StagedIno)
                                      [] q \in Below(p) -> File(StagedIno + 1, c)
                                      [] OTHER -> fs[q]]
               ELSE fs

\* replace_directory with the old directory moved away and neither the new one
\* nor the old put back: it goes with the stage.
Lost(op) == [q \in Path |-> IF q \in {op.path} \cup Below(op.path) THEN None ELSE fs[q]]

\* It may fail with nothing changed, and replace_directory also half way, or with
\* the new directory in place (the old one could not be removed).
Apply ==
    /\ sb.pc = "apply"
    /\ \/ /\ fs' = Applied(sb.op, sb.data)
          /\ fs' # fs
          /\ \E l \in {"validate"} \cup IF sb.op.op = "write_directory" THEN {"error"} ELSE {} :
               sb' = [sb EXCEPT !.pc = l, !.did = "yes"]
       \/ /\ sb.op.op = "write_directory" /\ Present(fs, sb.op.path, "dir")
          /\ fs' = Lost(sb.op)
          /\ sb' = [sb EXCEPT !.pc = "error", !.did = "yes"]
       \/ SB("error") /\ UNCHANGED fs
    /\ UNCHANGED <<head, index, edits, known, lease, draining, outcome>>

\* observe_expected_post: the operation that would see the result.
ExpectedPost(op) ==
    LET at(o, p) == ObserveOperation(fs, [op |-> o, path |-> p, to |-> p])
    IN  CASE op.op \in {"create", "update"} -> at("update", op.path)
          [] op.op \in {"delete", "rmdir"} -> at("create", op.path)
          [] op.op = "mkdir" -> at("rmdir", op.path)
          [] op.op = "rename" -> And(at("update", op.to), at("create", op.path))
          [] op.op = "hardlink" -> And(at("update", op.path), at("update", op.to))
          [] op.op = "write_directory" -> at("write_directory", op.path)

ValidatePost ==
    /\ sb.pc = "validate"
    /\ \E post \in Sees(ExpectedPost(sb.op)) :
         SB(IF ValidTransition(sb.op, sb.pre, post, post) THEN "succeeded" ELSE "error")
    /\ OnlySandbox

----------------------------------------------------------------------------
(* The report *)

\* No observation: pre_resources is reported in its place.
Report(terminal, post) ==
    sb' = [sb EXCEPT !.pc = terminal,
                     !.blind = (post = NoObservation),
                     !.post = IF post = NoObservation THEN sb.pre ELSE post]

\* The command and the change went well: the post-state is observed once more.
ReportSuccess ==
    /\ sb.pc = "succeeded"
    /\ \E post \in Sees(ExpectedPost(sb.op)) :
         Report(IF post = NoObservation THEN "uncertain" ELSE "success", post)
    /\ OnlySandbox

\* The command failed: whatever is there now, nothing was applied.
ReportChildFailure ==
    /\ sb.pc = "childfailed"
    /\ \E post \in Sees(ObserveOperation(fs, sb.op)) : Report("failed_known", post)
    /\ OnlySandbox

\* Anything else failed: known when the operation still sees its pre-state, and
\* also when it sees nothing.
ReportError ==
    /\ sb.pc = "error"
    /\ \E post \in Sees(ObserveOperation(fs, sb.op)) :
         Report(IF post \in {sb.pre, NoObservation} THEN "failed_known" ELSE "uncertain",
                post)
    /\ OnlySandbox

\* /v2/writes/complete, sent once.
SendComplete ==
    /\ sb.pc \in {"success", "failed_known", "uncertain"}
    /\ Complete("sandbox",
                Resolved(sb.pc,
                         ValidTransition(sb.op, sb.current, sb.post, sb.post),
                         sb.post = sb.current),
                sb.current, sb.post)
    /\ SB("done")

\* The wrapper is killed, or a request of its own is lost.
SandboxDies ==
    /\ sb.pc \notin {"done", "failed"}
    /\ SB("failed")
    /\ OnlySandbox

SandboxStep ==
    \/ ObservePre \/ RecordRead \/ Prepare \/ ObserveAgain \/ OfferTimesOut
    \/ Populate \/ RunCommand \/ FinalLook \/ Apply \/ ValidatePost
    \/ ReportSuccess \/ ReportChildFailure \/ ReportError \/ SendComplete
    \/ SandboxDies
=============================================================================
