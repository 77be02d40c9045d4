---------------------------- MODULE WrapperProofs ----------------------------
(***************************************************************************)
(* For any workspace, any operation of the sandbox and any number of       *)
(* changes made beside the protocol: no wrapper overwrites what it has not *)
(* seen; the structured commit is put on top of HEAD and contains nothing  *)
(* but the named path; and what is reported of either is what happened.    *)
(*                                                                         *)
(* CInv is about HEAD, the temporary index and the attempt of the commit,  *)
(* and needs nothing of the sandbox. WInv is about the files: what each    *)
(* wrapper has looked at is still there unless somebody changed it after   *)
(* the look (Looked, HookLooked), because its lease keeps the other        *)
(* wrapper away (Leases), and a target that is left alone has no second    *)
(* name through which a write could reach it (FilesOK).                    *)
(***************************************************************************)
EXTENDS Wrappers, TLAPS

(* The backend of a step that names none, and the time it may take. *)
USE ZenonT(40)

-----------------------------------------------------------------------------
(* The commits *)

IsSeq(s) == \E S : s \in Seq(S)

Verdict == {"none", "executing", "completed", "failed", "uncertain"}

\* Where the command stands while HEAD is without its commit, ...
Before ==
    {"observe", "read", "prepare", "wait", "ensure", "private", "index", "hooks", "recheck",
     "cas", "failing", "failed_known", "failed_uncertain", "err"}

\* ... and once it is made.
After ==
    {"sync", "post", "success", "uncertain", "apply", "hookread", "hookprepare", "hookwrite",
     "hookwritten", "hookunwritten", "ok"}

\* The temporary index is there.
Staged == {"hooks", "recheck", "cas"}

Shape ==
    /\ cm = [pc |-> cm.pc, batch |-> cm.batch, at |-> cm.at, copy |-> cm.copy,
             temp |-> cm.temp, post |-> cm.post]
    /\ cm.pc \in Staged => cm.temp = [file |-> cm.temp.file, other |-> cm.temp.other]
    /\ cm.pc \in Before \cup After \cup {"dead"}
    /\ IsSeq(head) /\ Len(head) >= 1
    /\ outcome \in [Attempt -> Verdict]

\* HEAD has not become shorter since it was observed; while it is as long, the
\* temporary index made from it agrees with it on every other file.
Based ==
    /\ Len(cm.at) <= Len(head)
    /\ cm.pc \in Staged /\ Len(cm.at) = Len(head) => cm.temp.other = head[Len(head)].other

\* The command knows whether it has committed, and the coordinator believes it.
Knows ==
    /\ cm.pc \in Before => ~Committed
    /\ cm.pc \in After => Committed
    /\ outcome["commit"] = "completed" => Committed
    /\ outcome["commit"] = "failed" => ~Committed /\ cm.pc \in {"err", "dead"}

CInv == Shape /\ Based /\ Knows /\ CommitsNamedPathOnly

-----------------------------------------------------------------------------

\* What Append does to a sequence of anything.
LEMMA AppendFacts ==
    ASSUME NEW s, IsSeq(s), NEW e
    PROVE  /\ IsSeq(Append(s, e))
           /\ Len(s) \in Nat
           /\ Len(Append(s, e)) = Len(s) + 1
           /\ \A i \in 1 .. Len(s) : Append(s, e)[i] = s[i]
           /\ Append(s, e)[Len(s) + 1] = e
           /\ SubSeq(Append(s, e), 1, Len(s)) = s
<1>. PICK S : s \in Seq(S)
  BY DEF IsSeq
<1>. DEFINE T == S \cup {e}
<1>1. s \in Seq(T) /\ e \in T
  BY SMTT(40)
<1>. HIDE DEF T
<1>2. Append(s, e) \in Seq(T)
  BY SMTT(40), <1>1
<1>3. IsSeq(Append(s, e))
  BY <1>2 DEF IsSeq
<1>4. /\ Len(s) \in Nat
      /\ Len(Append(s, e)) = Len(s) + 1
      /\ \A i \in 1 .. Len(s) : Append(s, e)[i] = s[i]
      /\ Append(s, e)[Len(s) + 1] = e
  BY SMTT(40), <1>1
<1>5. SubSeq(Append(s, e), 1, Len(s)) = s
  BY SMTT(40), <1>1, <1>2, <1>4
<1>. QED BY <1>3, <1>4, <1>5

\* The first commit is somebody else's, and the command has not begun.
LEMMA CommitInitInv == Init => CInv
<1>. SUFFICES ASSUME Init PROVE CInv
  OBVIOUS
<1>1. cm = [pc |-> "observe", batch |-> {}, at |-> <<>>, copy |-> None, temp |-> None,
            post |-> {}]
  BY DEF Init, CommitInit
<1>2. outcome \in [Attempt -> Verdict] /\ outcome["commit"] = "none"
  BY DEF Init, WorkspaceInit, Attempt, Verdict
<1>3. PICK old : head = <<[by |-> "other", file |-> old, other |-> 0]>>
  BY DEF Init, WorkspaceInit
<1>4. /\ Len(head) = 1
      /\ head[1].by = "other"
      /\ head \in Seq({[by |-> "other", file |-> old, other |-> 0]})
  BY SMTT(40), <1>3
<1>5. IsSeq(head)
  BY <1>4 DEF IsSeq
<1>6. ~Committed /\ CommitsNamedPathOnly
  BY SMTT(40), <1>4 DEF Committed, CommitsNamedPathOnly
<1>7. Shape
  BY SMTT(40), <1>1, <1>2, <1>4, <1>5 DEF Shape, Before, Staged
<1>8. Based
  BY SMTT(40), <1>1, <1>4 DEF Based, Staged
<1>9. Knows
  BY <1>1, <1>2, <1>6 DEF Knows, After
<1>. QED BY <1>6, <1>7, <1>8, <1>9 DEF CInv

-----------------------------------------------------------------------------

\* A step that leaves HEAD alone, keeps the temporary index or makes it from
\* HEAD, stays on its side of the commit and reports what is so.
Harmless ==
    /\ head' = head
    /\ Shape'
    /\ cm'.at \in {cm.at, head}
    /\ cm'.pc \in Staged => \/ cm'.temp.other = head[Len(head)].other
                            \/ cm.pc \in Staged /\ cm'.at = cm.at /\ cm'.temp.other = cm.temp.other
    /\ cm'.pc \in Before => cm.pc \in Before
    /\ cm'.pc \in After => cm.pc \in After
    /\ cm.pc \in {"err", "dead"} => cm'.pc \in {"err", "dead"}
    /\ \/ outcome'["commit"] = outcome["commit"]
       \/ outcome'["commit"] \in {"executing", "uncertain"}
       \/ outcome'["commit"] = "completed" /\ cm.pc \in After
       \/ outcome'["commit"] = "failed" /\ cm.pc \in Before /\ cm'.pc = "err"

\* Such a step keeps the invariant.
LEMMA HarmlessStep == CInv /\ Harmless => CInv'
<1>. SUFFICES ASSUME CInv, Harmless PROVE CInv'
  OBVIOUS
<1>1. Committed' = Committed /\ CommitsNamedPathOnly'
  BY DEF CInv, Harmless, Committed, CommitsNamedPathOnly
<1>2. Len(head) \in Nat
  BY AppendFacts DEF CInv, Shape
<1>3. Based'
  BY SMTT(40), <1>2 DEF CInv, Based, Harmless
<1>4. Knows'
  BY <1>1 DEF CInv, Knows, Harmless
<1>. QED BY <1>1, <1>3, <1>4 DEF CInv, Harmless

\* CM changes the label and nothing else.
LEMMA LabelFacts ==
    ASSUME Shape, NEW l, cm' = [cm EXCEPT !.pc = l]
    PROVE  /\ cm'.pc = l /\ cm'.at = cm.at /\ cm'.temp = cm.temp
           /\ cm' = [pc |-> cm'.pc, batch |-> cm'.batch, at |-> cm'.at, copy |-> cm'.copy,
                     temp |-> cm'.temp, post |-> cm'.post]
BY DEF Shape

\* The labels the command may take next without moving HEAD.
Side(k, l) ==
    /\ l \in Before \cup After \cup {"dead"}
    /\ l \in Before => k \in Before
    /\ l \in After => k \in After
    /\ l \in Staged => k \in Staged
    /\ k \in {"err", "dead"} => l \in {"err", "dead"}

\* Most steps of the command change the label and leave HEAD alone.
LEMMA LabelStep ==
    ASSUME CInv, NEW l, CM(l), head' = head, Side(cm.pc, l),
           outcome' \in [Attempt -> Verdict],
           \/ outcome'["commit"] = outcome["commit"]
           \/ outcome'["commit"] \in {"executing", "uncertain"}
           \/ outcome'["commit"] = "completed" /\ cm.pc \in After
           \/ outcome'["commit"] = "failed" /\ cm.pc \in Before /\ l = "err"
    PROVE  CInv'
<1>1. /\ cm'.pc = l /\ cm'.at = cm.at /\ cm'.temp = cm.temp
      /\ cm' = [pc |-> cm'.pc, batch |-> cm'.batch, at |-> cm'.at, copy |-> cm'.copy,
                temp |-> cm'.temp, post |-> cm'.post]
  BY LabelFacts DEF CInv, CM
<1>2. Shape'
  BY <1>1 DEF CInv, Shape, Side
<1>. QED BY <1>1, <1>2, HarmlessStep DEF Harmless, Side

\* Somebody else commits: HEAD is longer than what was observed of it.
LEMMA OthersCommit ==
    ASSUME CInv, NEW file, NEW other, UNCHANGED <<cm, outcome>>,
           head' = Append(head, [by |-> "other", file |-> file, other |-> other])
    PROVE  CInv'
<1>. DEFINE n == Len(head)
<1>1. /\ IsSeq(head') /\ n \in Nat /\ n >= 1 /\ Len(head') = n + 1
      /\ \A i \in 1 .. n : head'[i] = head[i]
      /\ head'[n + 1].by = "other"
  BY SMTT(40), AppendFacts DEF CInv, Shape
<1>. HIDE DEF n
<1>2. Shape'
  BY SMTT(40), <1>1 DEF CInv, Shape
<1>3. Based'
  <2>1. Len(cm.at) <= n
    BY DEF CInv, Based, n
  <2>2. ~(Len(cm.at) = n + 1) /\ Len(cm.at) <= n + 1
    BY SMTT(40), <1>1, <2>1
  <2>. QED BY <1>1, <2>2 DEF Based
<1>4. Committed' = Committed
  BY SMTT(40), <1>1 DEF Committed, n
<1>5. Knows'
  BY <1>4 DEF CInv, Knows
<1>6. CommitsNamedPathOnly'
  BY SMTT(40), <1>1 DEF CInv, CommitsNamedPathOnly, n
<1>. QED BY <1>2, <1>3, <1>5, <1>6 DEF CInv

\* The compare-and-swap finds HEAD as it was observed, so the temporary index
\* still agrees with it.
LEMMA UpdateHeadStep == CInv /\ UpdateHeadCas => CInv'
<1>. SUFFICES ASSUME CInv, UpdateHeadCas PROVE CInv'
  OBVIOUS
<1>1. CASE head' = head /\ cm' = [cm EXCEPT !.pc = "failing"]
  <2>1. cm.pc = "cas" /\ outcome' = outcome
    BY DEF UpdateHeadCas
  <2>2. cm'.pc = "failing" /\ cm'.at = cm.at /\ Shape'
    BY <1>1, <2>1, LabelFacts DEF CInv, Shape, Staged, Before
  <2>. QED BY <1>1, <2>1, <2>2, HarmlessStep DEF Harmless, Staged, Before, After
<1>2. CASE /\ head = cm.at
           /\ head' = Append(head, [by |-> "commit", file |-> cm.temp.file,
                                    other |-> cm.temp.other])
           /\ cm' = [cm EXCEPT !.pc = "sync"]
  <2>. DEFINE n == Len(head)
  <2>1. cm.pc = "cas" /\ outcome' = outcome
    BY DEF UpdateHeadCas
  <2>2. /\ cm'.pc = "sync" /\ cm'.at = cm.at
        /\ cm' = [pc |-> cm'.pc, batch |-> cm'.batch, at |-> cm'.at, copy |-> cm'.copy,
                  temp |-> cm'.temp, post |-> cm'.post]
    BY <1>2, LabelFacts DEF CInv
  <2>3. /\ IsSeq(head') /\ n \in Nat /\ n >= 1 /\ Len(head') = n + 1
        /\ \A i \in 1 .. n : head'[i] = head[i]
        /\ head'[n + 1].by = "commit"
        /\ head'[n + 1].other = cm.temp.other
    BY SMTT(40), <1>2, AppendFacts DEF CInv, Shape
  <2>4. cm.temp.other = head[n].other
    BY <1>2, <2>1 DEF CInv, Based, Staged
  <2>. HIDE DEF n
  <2>5. Shape'
    BY SMTT(40), <2>1, <2>2, <2>3 DEF CInv, Shape, Staged, After
  <2>6. Based'
    BY SMTT(40), <1>2, <2>2, <2>3 DEF Based, Staged, n
  <2>7. Committed'
    BY SMTT(40), <2>3 DEF Committed
  <2>8. Knows'
    BY <2>1, <2>2, <2>7 DEF CInv, Knows, Before
  <2>9. CommitsNamedPathOnly'
    <3>. SUFFICES ASSUME NEW i \in 2 .. Len(head'), head'[i].by = "commit"
                  PROVE  head'[i].other = head'[i-1].other
      BY DEF CommitsNamedPathOnly
    <3>1. CASE i = n + 1
      BY SMTT(40), <2>3, <2>4, <3>1
    <3>2. CASE i # n + 1
      <4>1. i \in 2 .. n /\ i \in 1 .. n /\ i - 1 \in 1 .. n
        BY SMTT(40), <2>3, <3>2
      <4>. QED BY <2>3, <4>1 DEF CInv, CommitsNamedPathOnly, n
    <3>. QED BY <3>1, <3>2
  <2>. QED BY <2>5, <2>6, <2>8, <2>9 DEF CInv
<1>. QED BY <1>1, <1>2 DEF UpdateHeadCas, CM

-----------------------------------------------------------------------------

\* A permit changes one attempt, and no file.
LEMMA ReadyFacts ==
    ASSUME outcome \in [Attempt -> Verdict], NEW a \in Attempt, NEW paths, NEW obs,
           Ready(a, paths, obs)
    PROVE  /\ head' = head
           /\ outcome' \in [Attempt -> Verdict]
           /\ outcome'[a] = "executing"
           /\ \A b \in Attempt : b # a => outcome'[b] = outcome[b]
BY DEF Ready, files, Verdict

\* So does a result.
LEMMA CompleteFacts ==
    ASSUME outcome \in [Attempt -> Verdict], NEW a \in Attempt, NEW start, NEW post,
           NEW status \in {"completed", "failed", "uncertain"}, Complete(a, status, start, post)
    PROVE  /\ head' = head
           /\ outcome' \in [Attempt -> Verdict]
           /\ outcome'[a] = status
           /\ \A b \in Attempt : b # a => outcome'[b] = outcome[b]
<1>1. outcome' = [outcome EXCEPT ![a] = status] /\ UNCHANGED files
  BY DEF Complete
<1>. QED BY <1>1 DEF files, Verdict

\* The coordinator never turns a reported failure into a success, or the other
\* way round.
LEMMA ResolvedFacts ==
    ASSUME NEW terminal, NEW valid, NEW same
    PROVE  /\ Resolved(terminal, valid, same) \in {"completed", "failed", "uncertain"}
           /\ Resolved(terminal, valid, same) = "completed" => terminal = "success"
           /\ Resolved(terminal, valid, same) = "failed" => terminal = "failed_known"
BY DEF Resolved

\* Every step of prepare_commit comes before the commit.
LEMMA PrepareSteps ==
    CInv /\ (ObserveBatch \/ RecordBatchRead \/ PrepareCommit \/ TakeOffer) => CInv'
<1>. SUFFICES ASSUME CInv
              PROVE  ObserveBatch \/ RecordBatchRead \/ PrepareCommit \/ TakeOffer => CInv'
  OBVIOUS
<1>0. outcome \in [Attempt -> Verdict]
  BY DEF CInv, Shape
<1>1. CASE ObserveBatch
  <2>1. /\ cm.pc = "observe" /\ head' = head /\ outcome' = outcome
    BY <1>1 DEF ObserveBatch, OnlyCommit, shared, files
  <2>2. PICK obs : cm' = [cm EXCEPT !.pc = IF ValidCommit(Target, obs) THEN "read" ELSE "err",
                                    !.batch = obs, !.at = head]
    BY <1>1 DEF ObserveBatch
  <2>3. /\ cm'.pc \in {"read", "err"} /\ cm'.at = head
        /\ cm' = [pc |-> cm'.pc, batch |-> cm'.batch, at |-> cm'.at, copy |-> cm'.copy,
                  temp |-> cm'.temp, post |-> cm'.post]
    BY <2>2 DEF CInv, Shape
  <2>4. Shape'
    BY <2>1, <2>3 DEF CInv, Shape, Before, Staged
  <2>. QED BY <2>1, <2>3, <2>4, HarmlessStep DEF Harmless, Before, After, Staged
<1>2. CASE RecordBatchRead
  BY <1>0, <1>2, LabelStep DEF RecordBatchRead, files, Side, Before, After, Staged
<1>3. CASE PrepareCommit
  <2>1. CASE Ready("commit", CommitPaths, cm.batch) /\ CM("ensure")
    <3>1. head' = head /\ outcome' \in [Attempt -> Verdict] /\ outcome'["commit"] = "executing"
      BY <1>0, <2>1, ReadyFacts DEF Attempt
    <3>2. Side(cm.pc, "ensure")
      BY <1>3 DEF PrepareCommit, Side, Before, After, Staged
    <3>. QED BY <2>1, <3>1, <3>2, LabelStep
  <2>2. CASE OnlyCommit /\ (CM("observe") \/ CM("wait") \/ CM("err"))
    <3>1. head' = head /\ outcome' = outcome
      BY <2>2 DEF OnlyCommit, shared, files
    <3>2. Side(cm.pc, "observe") /\ Side(cm.pc, "wait") /\ Side(cm.pc, "err")
      BY <1>3 DEF PrepareCommit, Side, Before, After, Staged
    <3>. QED BY <1>0, <2>2, <3>1, <3>2, LabelStep
  <2>. QED BY <1>3, <2>1, <2>2 DEF PrepareCommit
<1>4. CASE TakeOffer
  <2>1. Side(cm.pc, "observe") /\ Side(cm.pc, "err")
    BY <1>4 DEF TakeOffer, Side, Before, After, Staged
  <2>2. head' = head /\ outcome' = outcome /\ (CM("observe") \/ CM("err"))
    BY <1>4 DEF TakeOffer, OnlyCommit, shared, files
  <2>. QED BY <1>0, <2>1, <2>2, LabelStep
<1>. QED BY <1>1, <1>2, <1>3, <1>4

\* HookBoundary: a temporary index that is accepted differs in the target only.
LEMMA HookedIndex ==
    ASSUME RunHooks, ~CM("failing")
    PROVE  \E after : /\ cm' = [cm EXCEPT !.pc = "recheck", !.temp = after]
                      /\ after = [file |-> after.file, other |-> after.other]
                      /\ after.file \in Content \cup {None}
                      /\ after.other = cm.temp.other
<1>. DEFINE F == IF cm.copy = None THEN {None} ELSE Content
            O == {cm.temp.other, cm.temp.other + 1}
<1>1. PICK after \in [file : F, other : O] :
        /\ AssertOnlyDeclared(cm.temp, after)
        /\ cm' = [cm EXCEPT !.pc = "recheck", !.temp = after]
  BY DEF RunHooks
<1>2. F \subseteq Content \cup {None}
  OBVIOUS
<1>. HIDE DEF F, O
<1>3. after = [file |-> after.file, other |-> after.other] /\ after.file \in F
  BY SMTT(40)
<1>. QED BY <1>1, <1>2, <1>3 DEF AssertOnlyDeclared

\* So does every step of commit_prepared up to the compare-and-swap; the
\* temporary index is made from HEAD, and a commit goes on only if the hooks changed
\* nothing but the target in it.
LEMMA BuildSteps ==
    CInv /\ (\/ EnsureBatchUnchanged("ensure", "private") \/ CreatePrivate \/ FromHead \/ RunHooks
             \/ EnsureBatchUnchanged("recheck", "cas")) => CInv'
<1>. SUFFICES ASSUME CInv
              PROVE  (\/ EnsureBatchUnchanged("ensure", "private") \/ CreatePrivate \/ FromHead
                      \/ RunHooks \/ EnsureBatchUnchanged("recheck", "cas")) => CInv'
  OBVIOUS
<1>0. outcome \in [Attempt -> Verdict]
  BY DEF CInv, Shape
<1>1. ASSUME NEW from, NEW to, EnsureBatchUnchanged(from, to),
             <<from, to>> \in {<<"ensure", "private">>, <<"recheck", "cas">>}
      PROVE  CInv'
  <2>1. cm.pc = from /\ head' = head /\ outcome' = outcome /\ (CM(to) \/ CM("failing"))
    BY <1>1 DEF EnsureBatchUnchanged, OnlyCommit, shared, files
  <2>2. Side(cm.pc, to) /\ Side(cm.pc, "failing")
    BY <1>1, <2>1 DEF Side, Before, After, Staged
  <2>. QED BY <1>0, <2>1, <2>2, LabelStep
<1>2. CASE CreatePrivate
  <2>1. cm.pc = "private" /\ head' = head /\ outcome' = outcome
    BY <1>2 DEF CreatePrivate, OnlyCommit, shared, files
  <2>2. /\ cm'.pc = "index" /\ cm'.at = cm.at
        /\ cm' = [pc |-> cm'.pc, batch |-> cm'.batch, at |-> cm'.at, copy |-> cm'.copy,
                  temp |-> cm'.temp, post |-> cm'.post]
    BY <1>2 DEF CreatePrivate, CInv, Shape
  <2>3. Shape'
    BY <2>1, <2>2 DEF CInv, Shape, Before, Staged
  <2>. QED BY <2>1, <2>2, <2>3, HarmlessStep DEF Harmless, Before, After, Staged
<1>3. CASE FromHead
  <2>1. cm.pc = "index" /\ head' = head /\ outcome' = outcome
    BY <1>3 DEF FromHead, OnlyCommit, shared, files
  <2>2. /\ cm'.pc = "hooks" /\ cm'.at = cm.at
        /\ cm'.temp = [file |-> cm.copy, other |-> head[Len(head)].other]
        /\ cm' = [pc |-> cm'.pc, batch |-> cm'.batch, at |-> cm'.at, copy |-> cm'.copy,
                  temp |-> cm'.temp, post |-> cm'.post]
    BY <1>3 DEF FromHead, CInv, Shape
  <2>3. Shape'
    BY <2>1, <2>2 DEF CInv, Shape, Before, Staged
  <2>. QED BY SMTT(40), <2>1, <2>2, <2>3, HarmlessStep DEF Harmless, Before, After, Staged
<1>4. CASE RunHooks
  <2>1. cm.pc = "hooks" /\ head' = head /\ outcome' = outcome
    BY <1>4 DEF RunHooks, OnlyCommit, shared, files
  <2>2. CASE ~CM("failing")
    <3>1. PICK after : /\ cm' = [cm EXCEPT !.pc = "recheck", !.temp = after]
                       /\ after = [file |-> after.file, other |-> after.other]
                       /\ after.other = cm.temp.other
      BY <1>4, <2>2, HookedIndex
    <3>2. cm = [pc |-> cm.pc, batch |-> cm.batch, at |-> cm.at, copy |-> cm.copy,
                temp |-> cm.temp, post |-> cm.post]
      BY DEF CInv, Shape
    <3>3. /\ cm'.pc = "recheck" /\ cm'.at = cm.at /\ cm'.temp = after
          /\ cm' = [pc |-> cm'.pc, batch |-> cm'.batch, at |-> cm'.at, copy |-> cm'.copy,
                    temp |-> cm'.temp, post |-> cm'.post]
      BY <3>1, <3>2
    <3>4. Shape'
      BY <2>1, <3>1, <3>3 DEF CInv, Shape, Before, Staged
    <3>. QED BY SMTT(40), <2>1, <3>1, <3>3, <3>4, HarmlessStep DEF Harmless, Before, After, Staged
  <2>3. CASE CM("failing")
    BY <1>0, <2>1, <2>3, LabelStep DEF Side, Before, After, Staged
  <2>. QED BY <2>2, <2>3
<1>. QED BY <1>1, <1>2, <1>3, <1>4

\* After it the command reports what it sees.  A success is reported only once
\* the commit is made, a known failure only if it was not.
LEMMA ReportSteps ==
    CInv /\ (SynchronizePrimaryIndex \/ ObservePost \/ ObserveFailed \/ CompleteCommit) => CInv'
<1>. SUFFICES ASSUME CInv
              PROVE  (\/ SynchronizePrimaryIndex \/ ObservePost \/ ObserveFailed
                      \/ CompleteCommit) => CInv'
  OBVIOUS
<1>0. outcome \in [Attempt -> Verdict]
  BY DEF CInv, Shape
<1>1. CASE SynchronizePrimaryIndex
  BY <1>0, <1>1, LabelStep DEF SynchronizePrimaryIndex, Side, Before, After, Staged
<1>2. CASE ObservePost \/ ObserveFailed
  <2>1. head' = head /\ outcome' = outcome
    BY <1>2 DEF ObservePost, ObserveFailed, OnlyCommit, shared, files
  <2>2. PICK post, l :
          /\ cm' = [cm EXCEPT !.post = post, !.pc = l]
          /\ \/ cm.pc = "post" /\ l \in {"success", "uncertain"}
             \/ cm.pc = "failing" /\ l \in {"failed_known", "failed_uncertain"}
    BY <1>2 DEF ObservePost, ObserveFailed
  <2>3. /\ cm'.pc = l /\ cm'.at = cm.at
        /\ cm' = [pc |-> cm'.pc, batch |-> cm'.batch, at |-> cm'.at, copy |-> cm'.copy,
                  temp |-> cm'.temp, post |-> cm'.post]
    BY <2>2 DEF CInv, Shape
  <2>4. Shape'
    BY <2>1, <2>2, <2>3 DEF CInv, Shape, Before, After, Staged
  <2>. QED BY <2>1, <2>2, <2>3, <2>4, HarmlessStep DEF Harmless, Before, After, Staged
<1>3. CASE CompleteCommit
  <2>. DEFINE l == IF cm.pc \in {"success", "uncertain"} THEN "apply" ELSE "err"
              status == Resolved(cm.pc, ValidCommitTransition(Target, cm.batch, cm.post),
                                 cm.post = cm.batch)
  <2>1. /\ CM(l)
        /\ cm.pc \in {"success", "uncertain", "failed_known", "failed_uncertain"}
        /\ Complete("commit", status, cm.batch, cm.post) \/ OnlyCommit
    BY <1>3 DEF CompleteCommit
  <2>2. /\ status \in {"completed", "failed", "uncertain"}
        /\ status = "completed" => cm.pc = "success"
        /\ status = "failed" => cm.pc = "failed_known"
    BY ResolvedFacts
  <2>. HIDE DEF status
  <2>3. Side(cm.pc, l)
    BY <2>1 DEF Side, Before, After, Staged
  <2>4. /\ head' = head
        /\ outcome' \in [Attempt -> Verdict]
        /\ outcome'["commit"] \in {status, outcome["commit"]}
    <3>1. CASE OnlyCommit
      BY <1>0, <3>1 DEF OnlyCommit, shared, files
    <3>2. CASE Complete("commit", status, cm.batch, cm.post)
      BY SMTT(40), <1>0, <2>2, <3>2, CompleteFacts DEF Attempt
    <3>. QED BY <2>1, <3>1, <3>2
  <2>5. \/ outcome'["commit"] = outcome["commit"]
        \/ outcome'["commit"] \in {"executing", "uncertain"}
        \/ outcome'["commit"] = "completed" /\ cm.pc \in After
        \/ outcome'["commit"] = "failed" /\ cm.pc \in Before /\ l = "err"
    BY <2>2, <2>4 DEF Before, After
  <2>. HIDE DEF l
  <2>. QED BY <2>1, <2>3, <2>4, <2>5, LabelStep
<1>. QED BY <1>1, <1>2, <1>3

\* What is done about the hooks' changes comes after the commit and never
\* touches HEAD or the commit's own attempt.
LEMMA HookSteps ==
    CInv /\ (\/ HookTargetUnchanged \/ RecordHookRead \/ PrepareHook \/ WriteHookChange
             \/ CompleteHook \/ CommitDies) => CInv'
<1>. SUFFICES ASSUME CInv
              PROVE  (\/ HookTargetUnchanged \/ RecordHookRead \/ PrepareHook \/ WriteHookChange
                      \/ CompleteHook \/ CommitDies) => CInv'
  OBVIOUS
<1>0. outcome \in [Attempt -> Verdict] /\ cm.pc \in Before \cup After \cup {"dead"}
  BY DEF CInv, Shape
<1>1. CASE HookTargetUnchanged
  <2>1. cm.pc = "apply" /\ head' = head /\ outcome' = outcome
    BY <1>1 DEF HookTargetUnchanged, OnlyCommit, shared, files
  <2>2. PICK l \in {"ok", "hookread"} : cm' = [cm EXCEPT !.post = Tracked(cm.batch), !.pc = l]
    BY <1>1 DEF HookTargetUnchanged
  <2>3. /\ cm'.pc = l /\ cm'.at = cm.at
        /\ cm' = [pc |-> cm'.pc, batch |-> cm'.batch, at |-> cm'.at, copy |-> cm'.copy,
                  temp |-> cm'.temp, post |-> cm'.post]
    BY <2>2 DEF CInv, Shape
  <2>4. Shape'
    BY <2>1, <2>3 DEF CInv, Shape, After, Staged
  <2>. QED BY <2>1, <2>3, <2>4, HarmlessStep DEF Harmless, Before, After, Staged
<1>2. CASE RecordHookRead
  BY <1>0, <1>2, LabelStep DEF RecordHookRead, files, Side, Before, After, Staged
<1>3. CASE PrepareHook
  <2>1. Side(cm.pc, "hookwrite") /\ Side(cm.pc, "ok")
    BY <1>3 DEF PrepareHook, Side, Before, After, Staged
  <2>2. CASE Ready("hook", {Target}, cm.post) /\ CM("hookwrite")
    <3>1. /\ head' = head /\ outcome' \in [Attempt -> Verdict]
          /\ outcome'["commit"] = outcome["commit"]
      BY <1>0, <2>2, ReadyFacts DEF Attempt
    <3>. QED BY <2>1, <2>2, <3>1, LabelStep
  <2>3. CASE CM("ok") /\ OnlyCommit
    <3>1. head' = head /\ outcome' = outcome
      BY <2>3 DEF OnlyCommit, shared, files
    <3>. QED BY <1>0, <2>1, <2>3, <3>1, LabelStep
  <2>. QED BY <1>3, <2>2, <2>3 DEF PrepareHook
<1>4. CASE WriteHookChange
  <2>1. Side(cm.pc, "hookwritten") /\ Side(cm.pc, "hookunwritten")
    BY <1>4 DEF WriteHookChange, Side, Before, After, Staged
  <2>. QED BY <1>0, <1>4, <2>1, LabelStep DEF WriteHookChange
<1>5. CASE CompleteHook
  <2>1. CM("ok") /\ Side(cm.pc, "ok")
    BY <1>5 DEF CompleteHook, Side, Before, After, Staged
  <2>2. PICK status, post : /\ status \in {"completed", "failed", "uncertain"}
                            /\ Complete("hook", status, cm.post, post)
    BY SMTT(40), <1>5, ResolvedFacts DEF CompleteHook
  <2>3. /\ head' = head /\ outcome' \in [Attempt -> Verdict]
        /\ outcome'["commit"] = outcome["commit"]
    BY SMTT(40), <1>0, <2>2, CompleteFacts DEF Attempt
  <2>. QED BY <2>1, <2>3, LabelStep
<1>6. CASE CommitDies
  <2>1. CM("dead") /\ head' = head /\ outcome' = outcome
    BY <1>6 DEF CommitDies, OnlyCommit, shared, files
  <2>2. Side(cm.pc, "dead")
    BY DEF Side, Before, After, Staged
  <2>. QED BY <1>0, <2>1, <2>2, LabelStep
<1>. QED BY <1>1, <1>2, <1>3, <1>4, <1>5, <1>6

-----------------------------------------------------------------------------

\* The sandbox does not touch HEAD or the commit's attempt.
LEMMA SandboxFacts ==
    ASSUME outcome \in [Attempt -> Verdict], SandboxStep
    PROVE  /\ head' = head
           /\ outcome' \in [Attempt -> Verdict]
           /\ outcome'["commit"] = outcome["commit"]
<1>1. CASE Prepare
  <2>1. CASE OnlySandbox
    BY <2>1 DEF OnlySandbox, shared, files
  <2>2. CASE Ready("sandbox", Paths(sb.op), sb.current)
    BY <2>2, ReadyFacts DEF Attempt
  <2>. QED BY <1>1, <2>1, <2>2 DEF Prepare
<1>2. CASE SendComplete
  <2>1. PICK status : /\ status \in {"completed", "failed", "uncertain"}
                      /\ Complete("sandbox", status, sb.current, sb.post)
    BY SMTT(40), <1>2, ResolvedFacts DEF SendComplete
  <2>. QED BY SMTT(40), <2>1, CompleteFacts DEF Attempt
<1>3. CASE RecordRead \/ Apply
  BY <1>3 DEF RecordRead, Apply, files
<1>4. CASE OnlySandbox
  BY <1>4 DEF OnlySandbox, shared, files
<1>5. ObservePre \/ ObserveAgain \/ OfferTimesOut \/ Populate \/ RunCommand => OnlySandbox
  BY DEF ObservePre, ObserveAgain, OfferTimesOut, Populate, RunCommand
<1>6. FinalLook \/ ValidatePost \/ ReportSuccess \/ ReportChildFailure \/ ReportError
        \/ SandboxDies => OnlySandbox
  BY DEF FinalLook, ValidatePost, ReportSuccess, ReportChildFailure, ReportError, SandboxDies
<1>. QED BY <1>1, <1>2, <1>3, <1>4, <1>5, <1>6 DEF SandboxStep

\* Steps that leave the command alone.
LEMMA AsideStep ==
    ASSUME CInv, cm' = cm, head' = head, outcome' \in [Attempt -> Verdict],
           outcome'["commit"] = outcome["commit"]
    PROVE  CInv'
<1>1. Shape'
  BY DEF CInv, Shape
<1>. QED BY <1>1, HarmlessStep DEF CInv, Based, Harmless

\* Every step of the system keeps the invariant.
LEMMA CommitNext == CInv /\ [Next]_vars => CInv'
<1>. SUFFICES ASSUME CInv, [Next]_vars PROVE CInv'
  OBVIOUS
<1>0. outcome \in [Attempt -> Verdict]
  BY DEF CInv, Shape
<1>1. CASE SandboxStep /\ UNCHANGED cm
  BY <1>0, <1>1, SandboxFacts, AsideStep
<1>2. CASE CommitStep
  BY <1>2, PrepareSteps, BuildSteps, UpdateHeadStep, ReportSteps, HookSteps DEF CommitStep
<1>3. CASE Outside
  <2>1. UNCHANGED <<cm, outcome>>
    BY <1>3 DEF Outside
  <2>2. CASE head' = head
    BY <1>0, <2>1, <2>2, AsideStep
  <2>3. CASE \E file, other :
               head' = Append(head, [by |-> "other", file |-> file, other |-> other])
    BY <2>1, <2>3, OthersCommit
  <2>. QED BY <1>3, <2>2, <2>3 DEF Outside, EditedFile, EditedGit
<1>4. CASE Coordinator
  <2>1. UNCHANGED <<cm, outcome>> /\ head' = head
    BY <1>4 DEF Coordinator, Drains, Releases, files
  <2>. QED BY <1>0, <2>1, AsideStep
<1>5. CASE UNCHANGED vars
  <2>1. UNCHANGED <<cm, outcome>> /\ head' = head
    BY <1>5 DEF vars, shared, files
  <2>. QED BY <1>0, <2>1, AsideStep
<1>. QED BY <1>1, <1>2, <1>3, <1>4, <1>5 DEF Next

\* The command leaves HEAD as it is or adds one commit to it.
LEMMA CommitStepHead == CommitStep => head' = head \/ \E e : head' = Append(head, e)
<1>. SUFFICES ASSUME CommitStep PROVE head' = head \/ \E e : head' = Append(head, e)
  OBVIOUS
<1>1. OnlyCommit => head' = head
  BY DEF OnlyCommit, shared, files
<1>2. \A a, paths, obs : Ready(a, paths, obs) => head' = head
  BY DEF Ready, files
<1>3. \A a, status, start, post : Complete(a, status, start, post) => head' = head
  BY DEF Complete, files
<1>4. CASE ObserveBatch \/ RecordBatchRead \/ PrepareCommit \/ TakeOffer
  BY <1>1, <1>2, <1>4 DEF ObserveBatch, RecordBatchRead, PrepareCommit, TakeOffer, files
<1>5. CASE \/ EnsureBatchUnchanged("ensure", "private") \/ CreatePrivate \/ FromHead \/ RunHooks
           \/ EnsureBatchUnchanged("recheck", "cas")
  BY <1>1, <1>5 DEF EnsureBatchUnchanged, CreatePrivate, FromHead, RunHooks
<1>6. CASE UpdateHeadCas
  BY <1>6 DEF UpdateHeadCas
<1>7. CASE SynchronizePrimaryIndex \/ ObservePost \/ ObserveFailed \/ CompleteCommit
  BY <1>1, <1>3, <1>7 DEF SynchronizePrimaryIndex, ObservePost,
                                      ObserveFailed, CompleteCommit
<1>8. CASE \/ HookTargetUnchanged \/ RecordHookRead \/ PrepareHook \/ WriteHookChange
           \/ CompleteHook \/ CommitDies
  BY <1>1, <1>2, <1>3, <1>8 DEF HookTargetUnchanged, RecordHookRead, PrepareHook,
                                WriteHookChange, CompleteHook, CommitDies, files
<1>. QED BY <1>4, <1>5, <1>6, <1>7, <1>8 DEF CommitStep

\* And so does everybody else.
LEMMA HeadGrows ==
    CInv /\ [Next]_vars => [Len(head) <= Len(head') /\ SubSeq(head', 1, Len(head)) = head]_head
<1>. SUFFICES ASSUME CInv, [Next]_vars
              PROVE  \/ head' = head
                     \/ Len(head) <= Len(head') /\ SubSeq(head', 1, Len(head)) = head
  OBVIOUS
<1>1. head' = head \/ \E e : head' = Append(head, e)
  <2>1. CASE SandboxStep
    BY <2>1, SandboxFacts DEF CInv, Shape
  <2>2. CASE CommitStep
    BY <2>2, CommitStepHead
  <2>3. CASE Outside
    BY <2>3 DEF Outside, EditedFile, EditedGit
  <2>4. CASE Coordinator
    BY <2>4 DEF Coordinator, Drains, Releases, files
  <2>5. CASE UNCHANGED vars
    BY <2>5 DEF vars, shared, files
  <2>. QED BY <2>1, <2>2, <2>3, <2>4, <2>5 DEF Next
<1>2. ASSUME NEW e, head' = Append(head, e)
      PROVE  Len(head) <= Len(head') /\ SubSeq(head', 1, Len(head)) = head
  <2>1. IsSeq(head)
    BY DEF CInv, Shape
  <2>2. /\ Len(head) \in Nat /\ Len(Append(head, e)) = Len(head) + 1
        /\ SubSeq(Append(head, e), 1, Len(head)) = head
    BY <2>1, AppendFacts
  <2>. QED BY SMTT(40), <1>2, <2>2
<1>. QED BY <1>1, <1>2

-----------------------------------------------------------------------------
(* The workspace *)

\* The inodes of files that the sandbox did not make.
Inos == 1 .. Cardinality(Path) + 1

\* An inode is one node, whatever names it has.
IsDisk(f) ==
    /\ f \in [Path -> Node \cup {None}]
    /\ \A p, q \in Path : f[p] # None /\ f[q] # None /\ f[p].ino = f[q].ino => f[p] = f[q]

\* The target is a file without a second name, and not the sandbox's.
Alone(f) ==
    f[Target] # None =>
        /\ f[Target].kind = "file"
        /\ f[Target].ino \in Inos
        /\ \A q \in Path : q # Target /\ f[q] # None => f[q].ino # f[Target].ino

-----------------------------------------------------------------------------
(* Files *)

\* There is always an inode for a new file.
LEMMA NewInoFacts ==
    ASSUME IsDisk(fs)
    PROVE  /\ NewIno \in Inos
           /\ \A p \in Path : fs[p] # None => fs[p].ino # NewIno
<1>. DEFINE used == [p \in Path |-> IF fs[p] # None /\ fs[p].ino \in Inos THEN fs[p].ino ELSE 1]
<1>1. 1 \in Inos
  BY SMTT(40), NodeAssumption DEF Inos
<1>2. used \in [Path -> Inos]
  BY <1>1
<1>3. PICK i \in Inos : \A p \in Path : used[p] # i
  BY <1>2, NodeAssumption DEF Inos
<1>4. \A p \in Path : fs[p] # None => fs[p].ino # i
  BY <1>3
<1>5. \E k \in 1 .. Cardinality(Path) + 1 : \A p \in Path : fs[p] # None => fs[p].ino # k
  BY <1>4 DEF Inos
<1>. QED BY <1>5 DEF NewIno, Inos

LEMMA InoFacts ==
    /\ Inos \subseteq Nat
    /\ StagedIno \in Nat /\ StagedIno + 1 \in Nat
    /\ StagedIno \notin Inos /\ StagedIno + 1 \notin Inos
    /\ StagedIno # StagedIno + 1
BY SMTT(40), NodeAssumption DEF Inos, StagedIno

LEMMA NodeFacts ==
    ASSUME NEW i \in Nat, NEW c \in Content \cup {None}
    PROVE  /\ File(i, c) \in Node /\ File(i, c) # None
           /\ File(i, c).kind = "file" /\ File(i, c).ino = i /\ File(i, c).data = c
           /\ Dir(i) \in Node /\ Dir(i) # None /\ Dir(i).kind = "dir" /\ Dir(i).ino = i
<1>1. File(i, c) \in Node /\ Dir(i) \in Node
  BY DEF File, Dir, Node
<1>. QED BY <1>1, NodeAssumption DEF File, Dir

\* fs::write by anybody: the links of the file change together, and nothing else.
WriteOK(p, f) ==
    /\ IsDisk(f)
    /\ f[p] # None /\ f[p].kind = "file"
    /\ \A q \in Path : fs[q] # None => f[q] # None /\ f[q].ino = fs[q].ino
    /\ \A q \in Path : q # p /\ fs[q] = None => f[q] = None
    /\ \A q \in Path : f[q] # fs[q] => q = p \/ (fs[p] # None /\ fs[q] # None /\ fs[q].ino = fs[p].ino)
    /\ fs[p] = None => f[p].ino \in Inos /\ \A q \in Path : fs[q] # None => fs[q].ino # f[p].ino

LEMMA WrittenFacts ==
    ASSUME IsDisk(fs), NEW p \in Path, NEW c \in Content \cup {None}
    PROVE  WriteOK(p, Written(p, c))
<1>. SUFFICES ASSUME NEW f, f = Written(p, c) PROVE WriteOK(p, f)
  OBVIOUS
<1>0. fs \in [Path -> Node \cup {None}] /\ None \notin Node
  BY NodeAssumption DEF IsDisk
<1>1. CASE fs[p] = None
  <2>1. f = [fs EXCEPT ![p] = File(NewIno, c)]
    BY <1>1 DEF Written
  <2>2. /\ NewIno \in Inos /\ NewIno \in Nat
        /\ \A q \in Path : fs[q] # None => fs[q].ino # NewIno
    BY NewInoFacts, InoFacts
  <2>3. /\ File(NewIno, c) \in Node /\ File(NewIno, c).kind = "file"
        /\ File(NewIno, c).ino = NewIno /\ File(NewIno, c) # None
    BY SMTT(40), <2>2, NodeFacts
  <2>4. /\ f \in [Path -> Node \cup {None}]
        /\ f[p] = File(NewIno, c)
        /\ \A q \in Path : q # p => f[q] = fs[q]
    BY <1>0, <2>1, <2>3
  <2>5. \A q, r \in Path : f[q] # None /\ f[r] # None /\ f[q].ino = f[r].ino => f[q] = f[r]
    <3>. TAKE q, r \in Path
    <3>1. CASE q = p \/ r = p
      BY <2>2, <2>3, <2>4, <3>1
    <3>2. CASE q # p /\ r # p
      BY SMTT(40), <2>4, <3>2 DEF IsDisk
    <3>. QED BY <3>1, <3>2
  <2>. QED BY SMTT(40), <1>1, <2>2, <2>3, <2>4, <2>5 DEF WriteOK, IsDisk
<1>2. CASE fs[p] # None
  <2>. DEFINE n == File(fs[p].ino, c)
              L(q) == fs[q] # None /\ fs[q].ino = fs[p].ino
  <2>1. f = [q \in Path |-> IF L(q) THEN n ELSE fs[q]]
    BY <1>2 DEF Written
  <2>2. fs[p].ino \in Nat
    BY <1>0, <1>2 DEF Node
  <2>3. n \in Node /\ n.kind = "file" /\ n.ino = fs[p].ino /\ n # None
    BY SMTT(40), <2>2, NodeFacts
  <2>. HIDE DEF n
  <2>4. \A q \in Path : (L(q) => f[q] = n) /\ (~L(q) => f[q] = fs[q])
    BY <2>1
  <2>5. f \in [Path -> Node \cup {None}]
    <3>1. \A q \in Path : (IF L(q) THEN n ELSE fs[q]) \in Node \cup {None}
      BY <1>0, <2>3
    <3>. QED BY <2>1, <3>1
  <2>6. IsDisk(f)
    BY SMTT(40), <2>3, <2>4, <2>5 DEF IsDisk
  <2>. QED BY <1>2, <2>3, <2>4, <2>6 DEF WriteOK
<1>. QED BY <1>1, <1>2

-----------------------------------------------------------------------------
(* Observations *)

\* What an observation does not tell apart: a change to the target alone, seen by
\* an operation that is not about it.
LEMMA SameObservations ==
    ASSUME NEW f, NEW g, NEW p \in Path, p # Target,
           \A q \in Path : q # Target => g[q] = f[q],
           ~Present(f, Target, "dir"), ~Present(g, Target, "dir")
    PROVE  /\ ObserveExistingFile(g, p) = ObserveExistingFile(f, p)
           /\ ObserveAbsentEntry(g, p) = ObserveAbsentEntry(f, p)
           /\ Reachable(g, p) = Reachable(f, p)
           /\ Reachable(f, p) => Entry(g, p) = Entry(f, p)
<1>0. Parent[p] \in Path \cup {Root}
  BY ParentAssumption
<1>1. Reachable(g, p) = Reachable(f, p)
  BY <1>0 DEF Reachable, Present
<1>2. Reachable(f, p) => Parent[p] = Root \/ g[Parent[p]] = f[Parent[p]]
  BY <1>0 DEF Reachable
<1>3. g[p] = f[p]
  OBVIOUS
<1>4. Reachable(f, p) => Entry(g, p) = Entry(f, p)
  BY <1>2, <1>3 DEF Entry
<1>5. Object(g, p) = Object(f, p) /\ \A k : Present(g, p, k) = Present(f, p, k)
  BY <1>3 DEF Object, Present
<1>. QED BY <1>1, <1>3, <1>4, <1>5 DEF ObserveExistingFile, ObserveAbsentEntry

LEMMA SameTrees ==
    ASSUME NEW f, NEW g, NEW p \in Path, p # Target, Target \notin Below(p),
           \A q \in Path : q # Target => g[q] = f[q],
           ~Present(f, Target, "dir"), ~Present(g, Target, "dir"),
           \A q \in Below(p) : f[q] # None => Links(g, f[q].ino) = Links(f, f[q].ino)
    PROVE  /\ ObserveDirectoryTree(g, p) = ObserveDirectoryTree(f, p)
           /\ ObserveRmdir(g, p) = ObserveRmdir(f, p)
<1>1. \A q \in Below(p) \cup {p} : q \in Path /\ g[q] = f[q]
  BY DEF Below
<1>2. Tree(g, p) = Tree(f, p)
  <2>1. {r \in Below(p) : g[r] # None} = {r \in Below(p) : f[r] # None}
    BY <1>1
  <2>2. {<<q, g[q]>> : q \in {r \in Below(p) : f[r] # None}}
          = {<<q, f[q]>> : q \in {r \in Below(p) : f[r] # None}}
    BY <1>1
  <2>3. g[p].ino = f[p].ino
    BY <1>1
  <2>. QED BY <2>1, <2>2, <2>3 DEF Tree
<1>3. Reachable(g, p) = Reachable(f, p) /\ (Reachable(f, p) => Entry(g, p) = Entry(f, p))
  BY SameObservations
<1>4. \A q \in Below(p) \cup {p} : \A k : Present(g, q, k) = Present(f, q, k)
  BY <1>1 DEF Present
<1>5. ASSUME NEW q \in Below(p), Present(f, q, "file")
      PROVE  Links(g, g[q].ino) = Links(f, f[q].ino)
  BY <1>1, <1>5 DEF Present
<1>6. (\A q \in Below(p) : Present(g, q, "file") => Links(g, g[q].ino) = 1)
        <=> (\A q \in Below(p) : Present(f, q, "file") => Links(f, f[q].ino) = 1)
  BY <1>4, <1>5
<1>7. ObserveDirectoryTree(g, p) = ObserveDirectoryTree(f, p)
  BY <1>2, <1>3, <1>4, <1>6 DEF ObserveDirectoryTree
<1>8. ObserveDirectoryTree(f, p) # {} => Reachable(f, p)
  BY DEF ObserveDirectoryTree
<1>. QED BY <1>2, <1>3, <1>7, <1>8 DEF ObserveRmdir

OpName ==
    {"create", "update", "delete", "rename", "hardlink", "mkdir", "rmdir", "write_directory"}

LEMMA OperationFacts ==
    ASSUME NEW op \in Operation
    PROVE  /\ op.op \in OpName /\ op.path \in Path /\ op.to \in Path
           /\ op.path \in Paths(op) /\ op.to \in Paths(op) /\ Below(op.path) \subseteq Paths(op)
BY OperationAssumption DEF OpName, Paths

LEMMA SameOperation ==
    ASSUME NEW f, NEW g, NEW op \in Operation, Target \notin Paths(op),
           \A q \in Path : q # Target => g[q] = f[q],
           ~Present(f, Target, "dir"), ~Present(g, Target, "dir"),
           \A q \in Path : q # Target /\ f[q] # None => Links(g, f[q].ino) = Links(f, f[q].ino)
    PROVE  ObserveOperation(g, op) = ObserveOperation(f, op)
<1>1. /\ op.path \in Path /\ op.path # Target /\ op.to \in Path /\ op.to # Target
      /\ Target \notin Below(op.path)
      /\ \A q \in Below(op.path) : q \in Path /\ q # Target
  BY OperationFacts DEF Below
<1>2. /\ ObserveExistingFile(g, op.path) = ObserveExistingFile(f, op.path)
      /\ ObserveAbsentEntry(g, op.path) = ObserveAbsentEntry(f, op.path)
      /\ ObserveAbsentEntry(g, op.to) = ObserveAbsentEntry(f, op.to)
  BY <1>1, SameObservations
<1>3. /\ ObserveDirectoryTree(g, op.path) = ObserveDirectoryTree(f, op.path)
      /\ ObserveRmdir(g, op.path) = ObserveRmdir(f, op.path)
  BY <1>1, SameTrees
<1>. QED BY SMTT(40), <1>2, <1>3 DEF ObserveOperation

\* What an observation that succeeds says of the paths of the operation ...
Observed(f, op, obs) ==
    /\ op.op \in {"create", "mkdir"} => f[op.path] = None
    /\ op.op \in {"update", "delete", "rename", "hardlink"} =>
         Present(f, op.path, "file") /\ Object(f, op.path) \in obs
    /\ op.op \in {"rename", "hardlink"} => f[op.to] = None /\ op.to # op.path
    /\ op.op \in {"rmdir", "write_directory"} =>
         Present(f, op.path, "dir") /\ Tree(f, op.path) \in obs

LEMMA ObserveCases ==
    ASSUME NEW f, NEW op \in Operation, NEW obs, obs = ObserveOperation(f, op), obs # {}
    PROVE  \/ op.op \in {"create", "mkdir"} /\ obs = ObserveAbsentEntry(f, op.path)
           \/ op.op \in {"update", "delete"} /\ obs = ObserveExistingFile(f, op.path)
           \/ /\ op.op \in {"rename", "hardlink"} /\ op.path # op.to
              /\ obs = And(ObserveExistingFile(f, op.path), ObserveAbsentEntry(f, op.to))
           \/ op.op = "rmdir" /\ obs = ObserveRmdir(f, op.path)
           \/ op.op = "write_directory" /\ obs = ObserveDirectoryTree(f, op.path)
<1>. DEFINE p == op.path
            raw == CASE op.op \in {"create", "mkdir"} -> ObserveAbsentEntry(f, p)
                     [] op.op \in {"update", "delete"} -> ObserveExistingFile(f, p)
                     [] op.op \in {"rename", "hardlink"} ->
                          And(ObserveExistingFile(f, p), ObserveAbsentEntry(f, op.to))
                     [] op.op = "rmdir" -> ObserveRmdir(f, p)
                     [] op.op = "write_directory" -> ObserveDirectoryTree(f, p)
<1>0. obs = raw /\ ValidStart(op, raw)
  BY DEF ObserveOperation
<1>1. op.op \in OpName
  BY OperationFacts
<1>2. /\ op.op \in {"create", "mkdir"} => raw = ObserveAbsentEntry(f, p)
      /\ op.op \in {"update", "delete"} => raw = ObserveExistingFile(f, p)
      /\ op.op \in {"rename", "hardlink"} =>
           raw = And(ObserveExistingFile(f, p), ObserveAbsentEntry(f, op.to))
      /\ op.op = "rmdir" => raw = ObserveRmdir(f, p)
      /\ op.op = "write_directory" => raw = ObserveDirectoryTree(f, p)
  OBVIOUS
<1>. HIDE DEF raw
<1>3. op.op \in {"rename", "hardlink"} => p # op.to
  BY <1>0 DEF ValidStart
<1>. QED BY <1>0, <1>1, <1>2, <1>3 DEF OpName

LEMMA ObservedFacts ==
    ASSUME NEW f, NEW op \in Operation, NEW obs, obs = ObserveOperation(f, op), obs # {}
    PROVE  Observed(f, op, obs)
<1>1. CASE op.op \in {"create", "mkdir"} /\ obs = ObserveAbsentEntry(f, op.path)
  BY <1>1 DEF ObserveAbsentEntry, Observed
<1>2. CASE op.op \in {"update", "delete"} /\ obs = ObserveExistingFile(f, op.path)
  BY <1>2 DEF ObserveExistingFile, Observed
<1>3. CASE /\ op.op \in {"rename", "hardlink"} /\ op.path # op.to
           /\ obs = And(ObserveExistingFile(f, op.path), ObserveAbsentEntry(f, op.to))
  <2>1. /\ ObserveExistingFile(f, op.path) # {} /\ ObserveAbsentEntry(f, op.to) # {}
        /\ ObserveExistingFile(f, op.path) \subseteq obs
    BY <1>3 DEF And
  <2>2. Present(f, op.path, "file") /\ Object(f, op.path) \in obs /\ f[op.to] = None
    BY <2>1 DEF ObserveExistingFile, ObserveAbsentEntry
  <2>. QED BY <1>3, <2>2 DEF Observed
<1>4. CASE op.op = "rmdir" /\ obs = ObserveRmdir(f, op.path)
  BY <1>4 DEF ObserveRmdir, ObserveDirectoryTree, Observed
<1>5. CASE op.op = "write_directory" /\ obs = ObserveDirectoryTree(f, op.path)
  BY <1>5 DEF ObserveDirectoryTree, Observed
<1>. QED BY <1>1, <1>2, <1>3, <1>4, <1>5, ObserveCases

\* ... and whose identity it carries.
LEMMA ObservedIds ==
    ASSUME NEW f, NEW op \in Operation, NEW o \in ObserveOperation(f, op),
           o.kind \in {"object", "tree"}
    PROVE  f[op.path] # None /\ o.id = f[op.path].ino
<1>. DEFINE p == op.path
<1>1. \A q : Entry(f, q).kind = "entry"
  BY DEF Entry
<1>2. Object(f, p).id = f[p].ino /\ Tree(f, p).id = f[p].ino
  BY DEF Object, Tree
<1>3. ASSUME NEW q, o \in ObserveAbsentEntry(f, q)
      PROVE  FALSE
  BY <1>1, <1>3 DEF ObserveAbsentEntry
<1>4. ASSUME o \in ObserveExistingFile(f, p)
      PROVE  f[p] # None /\ o.id = f[p].ino
  BY <1>1, <1>2, <1>4 DEF ObserveExistingFile, Present
<1>5. ASSUME o \in ObserveDirectoryTree(f, p) \cup ObserveRmdir(f, p)
      PROVE  f[p] # None /\ o.id = f[p].ino
  BY <1>1, <1>2, <1>5 DEF ObserveDirectoryTree, ObserveRmdir, Present
<1>6. \A a, b : And(a, b) \subseteq a \cup b
  BY DEF And
<1>7. \/ \E q : o \in ObserveAbsentEntry(f, q)
      \/ o \in ObserveExistingFile(f, p)
      \/ o \in ObserveDirectoryTree(f, p) \cup ObserveRmdir(f, p)
  <2>. SUFFICES ASSUME NEW obs, obs = ObserveOperation(f, op), o \in obs
                PROVE  \/ \E q : o \in ObserveAbsentEntry(f, q)
                       \/ o \in ObserveExistingFile(f, p)
                       \/ o \in ObserveDirectoryTree(f, p) \cup ObserveRmdir(f, p)
    OBVIOUS
  <2>1. \/ obs = ObserveAbsentEntry(f, p)
        \/ obs = ObserveExistingFile(f, p)
        \/ obs = And(ObserveExistingFile(f, p), ObserveAbsentEntry(f, op.to))
        \/ obs = ObserveRmdir(f, p)
        \/ obs = ObserveDirectoryTree(f, p)
    BY ObserveCases
  <2>. QED BY SMTT(40), <1>6, <2>1
<1>. QED BY <1>3, <1>4, <1>5, <1>7

-----------------------------------------------------------------------------
(* PrivateStage::apply *)

\* A node put at a path, or a path removed.
Put(g, p, n, f) == f = [g EXCEPT ![p] = n]

\* The node has an inode of its own or is the node of its inode.
Fits(g, n) == \A q \in Path : g[q] # None /\ g[q].ino = n.ino => g[q] = n

LEMMA PutFacts ==
    ASSUME NEW g, IsDisk(g), NEW p \in Path, NEW n \in Node, Fits(g, n),
           NEW f, Put(g, p, n, f)
    PROVE  /\ IsDisk(f) /\ f[p] = n /\ n # None
           /\ \A q \in Path : q # p => f[q] = g[q]
<1>1. g \in [Path -> Node \cup {None}] /\ n # None
  BY NodeAssumption DEF IsDisk
<1>2. f \in [Path -> Node \cup {None}] /\ f[p] = n /\ \A q \in Path : q # p => f[q] = g[q]
  BY <1>1 DEF Put
<1>3. ASSUME NEW q \in Path, NEW r \in Path, f[q] # None, f[r] # None, f[q].ino = f[r].ino
      PROVE  f[q] = f[r]
  <2>1. CASE q = p \/ r = p
    BY <1>2, <1>3, <2>1 DEF Fits
  <2>2. CASE q # p /\ r # p
    BY SMTT(40), <1>2, <1>3, <2>2 DEF IsDisk
  <2>. QED BY <2>1, <2>2
<1>. QED BY <1>1, <1>2, <1>3 DEF IsDisk

LEMMA RemoveFacts ==
    ASSUME NEW g, IsDisk(g), NEW p \in Path, NEW f, Put(g, p, None, f)
    PROVE  /\ IsDisk(f) /\ f[p] = None
           /\ \A q \in Path : q # p => f[q] = g[q]
<1>1. g \in [Path -> Node \cup {None}]
  BY DEF IsDisk
<1>2. f \in [Path -> Node \cup {None}] /\ f[p] = None /\ \A q \in Path : q # p => f[q] = g[q]
  BY <1>1 DEF Put
<1>3. ASSUME NEW q \in Path, NEW r \in Path, f[q] # None, f[r] # None, f[q].ino = f[r].ino
      PROVE  f[q] = f[r]
  BY <1>2, <1>3 DEF IsDisk
<1>. QED BY <1>2, <1>3 DEF IsDisk

LEMMA AppliedCases ==
    ASSUME NEW op \in Operation, NEW c, NEW f, f = Applied(op, c), f # fs
    PROVE  \/ op.op \in {"create", "update"} /\ Put(fs, op.path, File(StagedIno, c), f)
           \/ op.op \in {"delete", "rmdir"} /\ Put(fs, op.path, None, f)
           \/ /\ op.op = "rename" /\ fs[op.path] # None
              /\ Put([fs EXCEPT ![op.path] = None], op.to, fs[op.path], f)
           \/ /\ op.op = "hardlink" /\ fs[op.path] # None
              /\ Put(fs, op.to, fs[op.path], f) /\ fs[op.to] = None
           \/ op.op = "mkdir" /\ Put(fs, op.path, Dir(NewIno), f) /\ fs[op.path] = None
           \/ /\ op.op = "write_directory"
              /\ f = [q \in Path |-> CASE q = op.path -> Dir(StagedIno)
                                       [] q \in Below(op.path) -> File(StagedIno + 1, c)
                                       [] OTHER -> fs[q]]
<1>0. op.op \in OpName
  BY OperationFacts
<1>1. CASE op.op \in {"create", "update"}
  BY <1>1 DEF Applied, Put
<1>2. CASE op.op = "delete"
  BY <1>2 DEF Applied, Put
<1>3. CASE op.op = "rename"
  BY <1>3 DEF Applied, Put, Present
<1>4. CASE op.op = "hardlink"
  BY <1>4 DEF Applied, Put, Present
<1>5. CASE op.op = "mkdir"
  BY <1>5 DEF Applied, Put
<1>6. CASE op.op = "rmdir"
  BY <1>6 DEF Applied, Put
<1>7. CASE op.op = "write_directory"
  BY <1>7 DEF Applied, Put
<1>. QED BY <1>0, <1>1, <1>2, <1>3, <1>4, <1>5, <1>6, <1>7 DEF OpName

\* The paths whose content an operation replaces or removes.
Replaced(op) ==
    {op.path} \cup (IF op.op = "rename" THEN {op.to} ELSE {})
              \cup (IF op.op = "write_directory" THEN Below(op.path) ELSE {})

LEMMA ReplacedFacts ==
    ASSUME NEW op \in Operation
    PROVE  Replaced(op) \subseteq Paths(op) /\ Replaced(op) \subseteq Path
BY OperationFacts DEF Replaced, Below

\* What apply makes of the workspace: only the operation's paths change, what was
\* there before only where the operation replaces it, and the target's file gets
\* no second name.
ApplyOK(op, f) ==
    /\ IsDisk(f)
    /\ \A q \in Path \ Paths(op) : f[q] = fs[q]
    /\ \A q \in Path : fs[q] # None /\ f[q] # fs[q] => q \in Replaced(op)
    /\ Target \notin Paths(op) /\ Alone(fs) => Alone(f)

LEMMA OnePathApplied ==
    ASSUME IsDisk(fs), NEW op \in Operation, NEW p \in {op.path, op.to}, NEW f, IsDisk(f),
           \A q \in Path : q # p => f[q] = fs[q],
           fs[p] # None => p = op.path,
           f[p] # None /\ fs[Target] # None /\ p # Target /\ Alone(fs) =>
               f[p].ino # fs[Target].ino
    PROVE  ApplyOK(op, f)
<1>1. op.path \in Path /\ op.to \in Path /\ p \in Path /\ p \in Paths(op)
  BY OperationFacts
<1>2. \A q \in Path \ Paths(op) : f[q] = fs[q]
  BY <1>1
<1>3. \A q \in Path : fs[q] # None /\ f[q] # fs[q] => q \in Replaced(op)
  BY <1>1 DEF Replaced
<1>4. ASSUME Target \notin Paths(op), Alone(fs)
      PROVE  Alone(f)
  <2>1. p # Target /\ f[Target] = fs[Target]
    BY <1>1, <1>4, TargetAssumption
  <2>. QED BY <1>1, <1>4, <2>1 DEF Alone
<1>. QED BY <1>2, <1>3, <1>4 DEF ApplyOK

LEMMA AppliedFacts ==
    ASSUME IsDisk(fs), \A q \in Path : fs[q] # None => fs[q].ino \in Inos,
           NEW op \in Operation, NEW c \in Content \cup {None}, NEW f, f = Applied(op, c), f # fs
    PROVE  ApplyOK(op, f)
<1>. DEFINE p == op.path
<1>0. /\ p \in Path /\ op.to \in Path /\ p \in Paths(op) /\ op.to \in Paths(op)
      /\ Below(p) \subseteq Paths(op) /\ Target \in Path
      /\ fs \in [Path -> Node \cup {None}]
  BY OperationFacts, TargetAssumption DEF IsDisk
<1>1. CASE op.op \in {"create", "update"} /\ Put(fs, p, File(StagedIno, c), f)
  <2>. DEFINE n == File(StagedIno, c)
  <2>1. n \in Node /\ n.ino \notin Inos
    <3>1. StagedIno \in Nat /\ StagedIno \notin Inos
      BY InoFacts
    <3>2. n \in Node /\ n.ino = StagedIno
      BY <3>1, NodeFacts
    <3>. QED BY <3>1, <3>2
  <2>. HIDE DEF n
  <2>2. /\ IsDisk(f) /\ f[p] = n
        /\ \A q \in Path : q # p => f[q] = fs[q]
    <3>1. Put(fs, p, n, f)
      BY <1>1 DEF n
    <3>2. Fits(fs, n)
      BY <2>1 DEF Fits
    <3>. QED BY SMTT(40), <1>0, <2>1, <3>1, <3>2, PutFacts
  <2>. QED BY <1>0, <2>1, <2>2, OnePathApplied
<1>2. CASE op.op \in {"delete", "rmdir"} /\ Put(fs, p, None, f)
  <2>1. /\ IsDisk(f) /\ f[p] = None
        /\ \A q \in Path : q # p => f[q] = fs[q]
    BY SMTT(40), <1>0, <1>2, RemoveFacts
  <2>. QED BY <1>0, <2>1, OnePathApplied
<1>3. CASE /\ op.op = "rename" /\ fs[p] # None
           /\ Put([fs EXCEPT ![p] = None], op.to, fs[p], f)
  <2>. DEFINE g == [fs EXCEPT ![p] = None]
  <2>1. Put(fs, p, None, g) /\ Put(g, op.to, fs[p], f)
    BY <1>3 DEF Put
  <2>2. IsDisk(g) /\ g[p] = None /\ \A q \in Path : q # p => g[q] = fs[q]
    BY <1>0, <2>1, RemoveFacts
  <2>. HIDE DEF g
  <2>3. fs[p] \in Node /\ Fits(g, fs[p])
    <3>1. fs[p] \in Node
      BY <1>0, <1>3
    <3>2. \A q \in Path : g[q] # None => g[q] = fs[q]
      BY <2>2
    <3>. QED BY SMTT(40), <1>0, <1>3, <3>1, <3>2 DEF IsDisk, Fits
  <2>4. IsDisk(f) /\ f[op.to] = fs[p] /\ \A q \in Path : q # op.to => f[q] = g[q]
    BY SMTT(40), <1>0, <2>1, <2>2, <2>3, PutFacts
  <2>5. \A q \in Path : q \notin {p, op.to} => f[q] = fs[q]
    BY <2>2, <2>4
  <2>6. {p, op.to} = Replaced(op)
    BY <1>3 DEF Replaced
  <2>7. ASSUME Target \notin Paths(op), Alone(fs)
        PROVE  Alone(f)
    <3>1. Target \notin {p, op.to} /\ f[Target] = fs[Target]
      BY <1>0, <2>5, <2>7
    <3>2. \A q \in Path : f[q] # None => f[q] = fs[q] \/ q = op.to
      BY <2>2, <2>4
    <3>. QED BY SMTT(40), <1>0, <1>3, <2>4, <2>7, <3>1, <3>2 DEF Alone
  <2>. QED BY <1>0, <2>4, <2>5, <2>6, <2>7 DEF ApplyOK
<1>4. CASE /\ op.op = "hardlink" /\ fs[p] # None
           /\ Put(fs, op.to, fs[p], f) /\ fs[op.to] = None
  <2>1. fs[p] \in Node /\ Fits(fs, fs[p])
    <3>1. fs[p] \in Node
      BY <1>0, <1>4
    <3>. QED BY <1>0, <1>4, <3>1 DEF IsDisk, Fits
  <2>2. IsDisk(f) /\ f[op.to] = fs[p] /\ \A q \in Path : q # op.to => f[q] = fs[q]
    BY SMTT(40), <1>0, <1>4, <2>1, PutFacts
  <2>3. ASSUME Target \notin Paths(op), Alone(fs)
        PROVE  Alone(f)
    BY SMTT(40), <1>0, <1>4, <2>2, <2>3 DEF Alone
  <2>. QED BY <1>0, <1>4, <2>2, <2>3 DEF ApplyOK
<1>5. CASE op.op = "mkdir" /\ Put(fs, p, Dir(NewIno), f) /\ fs[p] = None
  <2>. DEFINE n == Dir(NewIno)
  <2>1. NewIno \in Nat /\ \A q \in Path : fs[q] # None => fs[q].ino # NewIno
    BY NewInoFacts, InoFacts
  <2>2. n \in Node /\ n.ino = NewIno
    BY <2>1, NodeFacts
  <2>. HIDE DEF n
  <2>3. IsDisk(f) /\ f[p] = n /\ \A q \in Path : q # p => f[q] = fs[q]
    <3>1. Put(fs, p, n, f)
      BY <1>5 DEF n
    <3>2. Fits(fs, n)
      BY <2>1, <2>2 DEF Fits
    <3>. QED BY SMTT(40), <1>0, <2>2, <3>1, <3>2, PutFacts
  <2>. QED BY <1>0, <1>5, <2>1, <2>2, <2>3, OnePathApplied
<1>6. CASE /\ op.op = "write_directory"
           /\ f = [q \in Path |-> CASE q = p -> Dir(StagedIno)
                                    [] q \in Below(p) -> File(StagedIno + 1, c)
                                    [] OTHER -> fs[q]]
  <2>. DEFINE d == Dir(StagedIno)
              n == File(StagedIno + 1, c)
  <2>1. /\ d \in Node /\ d.ino = StagedIno /\ d # None
        /\ n \in Node /\ n.ino = StagedIno + 1 /\ n # None
    BY SMTT(40), InoFacts, NodeFacts
  <2>2. \A q \in Path : /\ q = p => f[q] = d
                        /\ q # p /\ q \in Below(p) => f[q] = n
                        /\ q # p /\ q \notin Below(p) => f[q] = fs[q]
    <3>. SUFFICES ASSUME NEW q \in Path
                  PROVE  /\ q = p => f[q] = d
                         /\ q # p /\ q \in Below(p) => f[q] = n
                         /\ q # p /\ q \notin Below(p) => f[q] = fs[q]
      OBVIOUS
    <3>1. f[q] = CASE q = p -> d [] q \in Below(p) -> n [] OTHER -> fs[q]
      BY <1>6
    <3>2. p \notin Below(p)
      BY <1>0, ParentAssumption DEF Below
    <3>. HIDE DEF d, n
    <3>. QED BY <3>1, <3>2
  <2>3. f = [q \in Path |-> f[q]]
    BY <1>6
  <2>. HIDE DEF d, n
  <2>4. f \in [Path -> Node \cup {None}]
    <3>1. \A q \in Path : f[q] \in Node \cup {None}
      BY <1>0, <2>1, <2>2
    <3>. QED BY <2>3, <3>1
  <2>5. ASSUME NEW q \in Path, NEW r \in Path, f[q] # None, f[r] # None, f[q].ino = f[r].ino
        PROVE  f[q] = f[r]
    <3>1. /\ q \notin {p} \cup Below(p) => f[q].ino \in Inos /\ f[q] = fs[q]
          /\ r \notin {p} \cup Below(p) => f[r].ino \in Inos /\ f[r] = fs[r]
      BY <2>2, <2>5
    <3>2. CASE q \in {p} \cup Below(p) \/ r \in {p} \cup Below(p)
      BY SMTT(40), <2>1, <2>2, <2>5, <3>1, <3>2, InoFacts
    <3>3. CASE q \notin {p} \cup Below(p) /\ r \notin {p} \cup Below(p)
      BY <2>5, <3>1, <3>3 DEF IsDisk
    <3>. QED BY <3>2, <3>3
  <2>6. \A q \in Path \ Paths(op) : f[q] = fs[q]
    BY <1>0, <2>2
  <2>7. \A q \in Path : fs[q] # None /\ f[q] # fs[q] => q \in Replaced(op)
    BY <1>6, <2>2 DEF Replaced
  <2>8. ASSUME Target \notin Paths(op), Alone(fs)
        PROVE  Alone(f)
    <3>1. f[Target] = fs[Target]
      BY <1>0, <2>6, <2>8
    <3>2. \A q \in Path : f[q] # None => f[q] = fs[q] \/ f[q].ino \notin Inos
      BY <2>1, <2>2, InoFacts
    <3>. QED BY <1>0, <2>8, <3>1, <3>2 DEF Alone
  <2>. QED BY <2>4, <2>5, <2>6, <2>7, <2>8 DEF ApplyOK, IsDisk
<1>. QED BY SMTT(40), <1>1, <1>2, <1>3, <1>4, <1>5, <1>6, AppliedCases

\* The operation does not take its own result for what it started from.
LEMMA AppliedIsSeen ==
    ASSUME IsDisk(fs), NEW op \in Operation, NEW c \in Content \cup {None},
           NEW f, f = Applied(op, c), f # fs,
           NEW pre, pre # {}, \A o \in pre : o.kind \in {"object", "tree"} => o.id \in Inos
    PROVE  ObserveOperation(f, op) # pre
<1>. SUFFICES ASSUME pre = ObserveOperation(f, op) PROVE FALSE
  OBVIOUS
<1>. DEFINE p == op.path
<1>0. /\ p \in Path /\ op.to \in Path /\ fs \in [Path -> Node \cup {None}]
      /\ Observed(f, op, pre)
  BY OperationFacts, ObservedFacts DEF IsDisk
<1>1. Object(f, p).kind = "object" /\ Object(f, p).id = f[p].ino
  BY DEF Object
<1>2. Tree(f, p).kind = "tree" /\ Tree(f, p).id = f[p].ino
  BY DEF Tree
<1>3. /\ File(StagedIno, c) # None /\ File(StagedIno, c).ino = StagedIno
      /\ Dir(StagedIno).ino = StagedIno /\ StagedIno \notin Inos
  BY SMTT(40), InoFacts, NodeFacts
<1>4. CASE op.op \in {"create", "update"} /\ Put(fs, p, File(StagedIno, c), f)
  <2>1. f[p] = File(StagedIno, c)
    BY <1>0, <1>4 DEF Put
  <2>2. CASE op.op = "create"
    BY <1>0, <1>3, <2>1, <2>2 DEF Observed
  <2>3. CASE op.op = "update"
    <3>1. Object(f, p) \in pre
      BY <1>0, <2>3 DEF Observed
    <3>. QED BY <1>1, <1>3, <2>1, <3>1
  <2>. QED BY <1>4, <2>2, <2>3
<1>5. CASE op.op \in {"delete", "rmdir"} /\ Put(fs, p, None, f)
  <2>1. f[p] = None
    BY <1>0, <1>5 DEF Put
  <2>. QED BY <1>0, <1>5, <2>1 DEF Observed, Present
<1>6. CASE op.op = "rename" /\ fs[p] # None /\ Put([fs EXCEPT ![p] = None], op.to, fs[p], f)
  <2>1. op.to # p /\ f[p] # None
    BY <1>0, <1>6 DEF Observed, Present
  <2>. QED BY <1>0, <1>6, <2>1 DEF Put
<1>7. CASE op.op = "hardlink" /\ fs[p] # None /\ Put(fs, op.to, fs[p], f)
  <2>1. f[op.to] = None
    BY <1>0, <1>7 DEF Observed
  <2>. QED BY <1>0, <1>7, <2>1 DEF Put
<1>8. CASE op.op = "mkdir" /\ Put(fs, p, Dir(NewIno), f)
  <2>1. f[p] = Dir(NewIno)
    BY <1>0, <1>8 DEF Put
  <2>2. NewIno \in Nat
    BY NewInoFacts, InoFacts
  <2>3. Dir(NewIno) # None
    BY <2>2, NodeFacts
  <2>. QED BY <1>0, <1>8, <2>1, <2>3 DEF Observed
<1>9. CASE /\ op.op = "write_directory"
           /\ f = [q \in Path |-> CASE q = p -> Dir(StagedIno)
                                    [] q \in Below(p) -> File(StagedIno + 1, c)
                                    [] OTHER -> fs[q]]
  <2>1. p \notin Below(p)
    BY <1>0, ParentAssumption DEF Below
  <2>2. f[p] = CASE p = p -> Dir(StagedIno)
                 [] p \in Below(p) -> File(StagedIno + 1, c)
                 [] OTHER -> fs[p]
    BY <1>0, <1>9
  <2>3. f[p] = Dir(StagedIno)
    BY <2>1, <2>2
  <2>4. Tree(f, p) \in pre
    BY <1>0, <1>9 DEF Observed
  <2>. QED BY <1>2, <1>3, <2>3, <2>4
<1>. QED BY SMTT(40), <1>4, <1>5, <1>6, <1>7, <1>8, <1>9, AppliedCases

\* replace_directory half way
LEMMA LostFacts ==
    ASSUME IsDisk(fs), NEW op \in Operation, op.op = "write_directory", NEW f, f = Lost(op),
           NEW pre, pre # {}
    PROVE  ApplyOK(op, f) /\ ObserveOperation(f, op) # pre
<1>0. /\ op.path \in Path /\ op.path \in Paths(op) /\ Below(op.path) \subseteq Paths(op)
      /\ fs \in [Path -> Node \cup {None}] /\ Target \in Path
  BY OperationFacts, TargetAssumption DEF IsDisk
<1>1. \A q \in Path : IF q \in {op.path} \cup Below(op.path) THEN f[q] = None ELSE f[q] = fs[q]
  BY DEF Lost
<1>2. f \in [Path -> Node \cup {None}]
  BY <1>0 DEF Lost
<1>3. IsDisk(f)
  <2>1. ASSUME NEW q \in Path, NEW r \in Path, f[q] # None, f[r] # None, f[q].ino = f[r].ino
        PROVE  f[q] = f[r]
    <3>1. f[q] = fs[q] /\ f[r] = fs[r]
      BY <1>1, <2>1
    <3>. QED BY <2>1, <3>1 DEF IsDisk
  <2>. QED BY <1>2, <2>1 DEF IsDisk
<1>4. \A q \in Path \ Paths(op) : f[q] = fs[q]
  BY <1>0, <1>1
<1>5. \A q \in Path : fs[q] # None /\ f[q] # fs[q] => q \in Replaced(op)
  BY <1>1 DEF Replaced
<1>6. ASSUME Target \notin Paths(op), Alone(fs)
      PROVE  Alone(f)
  <2>1. f[Target] = fs[Target] /\ \A q \in Path : f[q] # None => f[q] = fs[q]
    BY <1>0, <1>1, <1>4, <1>6
  <2>. QED BY <1>0, <1>6, <2>1 DEF Alone
<1>7. ASSUME pre = ObserveOperation(f, op)
      PROVE  FALSE
  <2>1. Observed(f, op, pre) /\ f[op.path] = None
    BY <1>0, <1>1, <1>7, ObservedFacts
  <2>. QED BY <2>1 DEF Observed, Present
<1>. QED BY <1>3, <1>4, <1>5, <1>6, <1>7 DEF ApplyOK

\* The last look before apply: whatever the operation would replace is described
\* by the observations its permit rests on.
LEMMA LookDescribes ==
    ASSUME NEW op \in Operation, NEW pre, pre = ObserveOperation(fs, op), pre # {},
           NEW q \in Replaced(op), fs[q] # None
    PROVE  Describes(pre, q)
<1>. DEFINE p == op.path
<1>0. p \in Path /\ op.to \in Path /\ p # Git /\ op.op \in OpName /\ Observed(fs, op, pre)
  BY OperationFacts, ObservedFacts, TargetAssumption
<1>1. /\ Object(fs, p).kind = "object" /\ Object(fs, p).id = fs[p].ino
      /\ Object(fs, p).state = fs[p].data
  BY DEF Object
<1>2. /\ Tree(fs, p).kind = "tree" /\ Tree(fs, p).id = fs[p].ino /\ Tree(fs, p).path = p
      /\ \A r \in Below(p) : fs[r] # None => <<r, fs[r]>> \in Tree(fs, p).state
  BY DEF Tree
<1>3. CASE op.op \in {"create", "mkdir"}
  BY <1>0, <1>3 DEF Observed, Replaced
<1>4. CASE op.op \in {"update", "delete", "rename", "hardlink"}
  <2>1. q = p
    BY <1>0, <1>4 DEF Observed, Replaced
  <2>2. Object(fs, p) \in pre
    BY <1>0, <1>4 DEF Observed
  <2>. QED BY <1>1, <2>1, <2>2 DEF Describes
<1>5. CASE op.op \in {"rmdir", "write_directory"}
  <2>1. q = p \/ q \in Below(p)
    BY <1>5 DEF Replaced
  <2>2. Tree(fs, p) \in pre /\ Present(fs, p, "dir")
    BY <1>0, <1>5 DEF Observed
  <2>. QED BY <1>0, <1>2, <2>1, <2>2 DEF Describes
<1>. QED BY <1>0, <1>3, <1>4, <1>5 DEF OpName

-----------------------------------------------------------------------------
(* What is true of the wrappers together *)

\* The sandbox between its permit and its report.
Permitted ==
    {"populate", "command", "look", "apply", "validate", "childfailed", "error", "succeeded",
     "success", "failed_known", "uncertain"}

\* Where it cannot have changed anything yet, and where it has.
Unapplied ==
    {"start", "read", "prepare", "again", "wait", "populate", "command", "look", "apply",
     "childfailed"}
AppliedAt == {"validate", "succeeded", "success"}

OldFiles(f) == \A p \in Path : f[p] # None => f[p].ino \in Inos

FilesOK ==
    /\ IsDisk(fs) /\ edits \in Nat
    /\ sb.did = "no" => OldFiles(fs)
    /\ sb.did = "no" \/ Target \notin Paths(sb.op) => Alone(fs)

SandboxShape ==
    sb = [pc |-> sb.pc, op |-> sb.op, pre |-> sb.pre, current |-> sb.current,
          data |-> sb.data, did |-> sb.did, post |-> sb.post, blind |-> sb.blind]

SandboxOK ==
    /\ SandboxShape
    /\ sb.op \in Operation
    /\ sb.data \in Content \cup {None}
    /\ sb.pc \in Unapplied => sb.did = "no"
    /\ sb.pc \in AppliedAt => sb.did # "no"
    /\ sb.pc \notin {"start", "failed", "done"} => sb.pre # {}
    /\ \A o \in sb.pre : o.kind \in {"object", "tree"} => o.id \in Inos

\* While a change stands it is seen, so a failure is reported only of a change
\* that was not made, or was undone, or could not be looked at.
Reports ==
    /\ sb.pc = "failed_known" => sb.did # "yes" \/ sb.blind
    /\ sb.pc \in Permitted /\ sb.did = "yes" => ObserveOperation(fs, sb.op) # sb.pre
    /\ outcome["sandbox"] = "completed" => sb.did # "no"
    /\ outcome["sandbox"] = "failed" => sb.did # "yes" \/ sb.blind

CoordShape ==
    /\ lease = [t \in Task |-> lease[t]] /\ known = [t \in Task |-> known[t]]
    /\ outcome \in [Attempt -> Verdict]

\* A permitted sandbox has its paths leased, and the commit task has no evidence
\* of them.
SandboxHolds ==
    sb.pc \in Permitted =>
        /\ outcome["sandbox"] = "executing"
        /\ Paths(sb.op) \subseteq lease["sandbox"]
        /\ \A o \in known["commit"] : o.path \notin Paths(sb.op)

HookHolds == cm.pc = "hookwrite" => outcome["hook"] = "executing" /\ Target \in lease["commit"]

Leases == lease["sandbox"] \cap lease["commit"] = {} /\ SandboxHolds /\ HookHolds

\* The looks that come before a change, for as long as they are good.
Looked ==
    sb.pc = "apply" /\ "sandbox" \notin late =>
        \A q \in Replaced(sb.op) : fs[q] # None => Describes(sb.pre, q)

SeenBy(obs) ==
    \E o \in obs : o.kind = "object" /\ o.id = fs[Target].ino /\ o.state = fs[Target].data

HookLooked ==
    /\ \/ cm.pc \in {"hookread", "hookwrite"}
       \/ cm.pc = "hookprepare" /\ cm.post \subseteq known["commit"]
    /\ "commit" \notin late
    => (fs[Target] # None => SeenBy(cm.batch))

\* From the index to the write of the hooks' changes.
Indexed == {"hooks", "recheck", "cas", "sync", "post", "success", "uncertain", "apply",
            "hookread", "hookprepare", "hookwrite"}
Hooked == {"hookread", "hookprepare", "hookwrite"}

CommitShape ==
    /\ cm = [pc |-> cm.pc, batch |-> cm.batch, at |-> cm.at, copy |-> cm.copy,
             temp |-> cm.temp, post |-> cm.post]
    /\ cm.pc \in {"hooks", "recheck", "cas"} =>
         cm.temp = [file |-> cm.temp.file, other |-> cm.temp.other]

HookOK ==
    /\ CommitShape
    /\ cm.copy \in Content \cup {None}
    /\ cm.pc \in Indexed => cm.temp.file \in Content \cup {None}
    /\ \A o \in cm.batch : o.kind # "tree" => o.path = Target
    /\ cm.pc \notin {"observe", "err", "dead"} => Tracked(cm.batch) # {}
    /\ cm.pc \in Hooked => cm.post = Tracked(cm.batch)

WInv ==
    /\ FilesOK /\ SandboxOK /\ Reports /\ CoordShape /\ Leases /\ Looked /\ HookOK
    /\ HookLooked

-----------------------------------------------------------------------------
(* The coordinator's answers *)

\* What a request of task t may change of the leases and the evidence.
CoordStep(t) ==
    /\ CoordShape'
    /\ \A u \in Task : u # t => lease'[u] = lease[u] /\ known'[u] \subseteq known[u]
    /\ \A o \in known'[t] : o \in known[t] \/ ~InFlight(t, o.path)
    /\ lease'["sandbox"] \cap lease'["commit"] = {}
    /\ \A a \in Attempt : Owner[a] # t => outcome'[a] = outcome[a]

LEMMA OwnerFacts ==
    /\ \A a \in Attempt : Owner[a] \in Task
    /\ Owner["sandbox"] = "sandbox" /\ Owner["commit"] = "commit" /\ Owner["hook"] = "commit"
    /\ "sandbox" \in Task /\ "commit" \in Task /\ \A t \in Task : t \in {"sandbox", "commit"}
    /\ "sandbox" \in Attempt /\ "commit" \in Attempt /\ "hook" \in Attempt
BY DEF Owner, Attempt, Task

\* A step that asks the coordinator nothing.
LEMMA QuietCoord ==
    ASSUME CoordShape, lease["sandbox"] \cap lease["commit"] = {}, NEW t \in Task,
           lease' = lease, known' = known, outcome' = outcome
    PROVE  CoordStep(t)
BY DEF CoordStep, CoordShape

\* sync_observations
LEMMA RecordedCoord ==
    ASSUME CoordShape, lease["sandbox"] \cap lease["commit"] = {}, NEW t \in Task, NEW obs,
           lease' = lease, known' = Recorded(t, obs), outcome' = outcome
    PROVE  CoordStep(t)
<1>1. \A u \in Task :
        known'[u] = {o \in known[u] : <<o.kind, o.path>> \in Keys(obs) => o \in obs}
                      \cup {o \in obs : u = t /\ ~InFlight(t, o.path)}
  BY DEF Recorded
<1>2. known' = [u \in Task |-> known'[u]]
  BY DEF Recorded
<1>3. \A u \in Task : u # t => known'[u] \subseteq known[u]
  BY <1>1
<1>4. \A o \in known'[t] : o \in known[t] \/ ~InFlight(t, o.path)
  BY <1>1
<1>. QED BY <1>2, <1>3, <1>4 DEF CoordStep, CoordShape

\* write.prepare
Permits(t, a, paths, obs) ==
    /\ CoordStep(t)
    /\ paths \subseteq lease'[t] /\ outcome'[a] = "executing"
    /\ obs \subseteq known[t] /\ known'[t] = known[t]
    /\ \A u \in Task : u # t => \A o \in known'[u] : o.path \notin paths
    /\ fs' = fs /\ edits' = edits

LEMMA ReadyCoord ==
    ASSUME CoordShape, lease["sandbox"] \cap lease["commit"] = {}, NEW a \in Attempt,
           NEW paths, NEW obs, Ready(a, paths, obs), NEW t, t = Owner[a]
    PROVE  Permits(t, a, paths, obs)
<1>0. /\ t \in Task /\ lease = [u \in Task |-> lease[u]] /\ outcome \in [Attempt -> Verdict]
      /\ \A u \in Task : u # t => lease[u] \cap paths = {}
      /\ lease' = [lease EXCEPT ![t] = @ \cup paths]
      /\ known' = Revoked(Task \ {t}, paths)
      /\ outcome' = [outcome EXCEPT ![a] = "executing"]
      /\ obs \subseteq known[t] /\ fs' = fs /\ edits' = edits
  BY OwnerFacts DEF Ready, CoordShape, Contended, files
<1>1. /\ lease' = [u \in Task |-> lease'[u]]
      /\ lease'[t] = lease[t] \cup paths
      /\ \A u \in Task : u # t => lease'[u] = lease[u]
  BY <1>0
<1>2. \A u \in Task : known'[u] = {o \in known[u] : u \in Task \ {t} => o.path \notin paths}
  BY <1>0 DEF Revoked
<1>3. known' = [u \in Task |-> known'[u]]
  BY <1>0 DEF Revoked
<1>4. /\ known'[t] = known[t]
      /\ \A u \in Task : u # t => known'[u] \subseteq known[u] /\ \A o \in known'[u] : o.path \notin paths
  <2>1. t \in Task
    BY <1>0
  <2>. QED BY <1>2, <2>1
<1>5. outcome' \in [Attempt -> Verdict] /\ outcome'[a] = "executing"
        /\ \A b \in Attempt : b # a => outcome'[b] = outcome[b]
  BY <1>0 DEF Verdict
<1>6. lease'["sandbox"] \cap lease'["commit"] = {}
  <2>1. t = "sandbox" \/ t = "commit"
    BY <1>0, OwnerFacts
  <2>. QED BY <1>0, <1>1, <2>1, OwnerFacts
<1>7. \A b \in Attempt : Owner[b] # t => outcome'[b] = outcome[b]
  BY <1>5
<1>8. CoordStep(t)
  BY <1>1, <1>3, <1>4, <1>5, <1>6, <1>7 DEF CoordStep, CoordShape
<1>. QED BY <1>0, <1>1, <1>4, <1>5, <1>8 DEF Permits

\* write.complete
LEMMA CompleteCoord ==
    ASSUME CoordShape, lease["sandbox"] \cap lease["commit"] = {}, NEW a \in Attempt,
           NEW start, NEW post, NEW status \in {"completed", "failed", "uncertain"},
           Complete(a, status, start, post), NEW t, t = Owner[a]
    PROVE  CoordStep(t) /\ outcome'[a] = status /\ fs' = fs /\ edits' = edits
<1>0. t \in Task /\ lease = [u \in Task |-> lease[u]] /\ outcome \in [Attempt -> Verdict]
  BY OwnerFacts DEF CoordShape
<1>1. /\ outcome' = [outcome EXCEPT ![a] = status]
      /\ lease' = lease \/ lease' = [lease EXCEPT ![t] = {}]
      /\ \/ known' = Recorded(t, post)
         \/ known' = known
         \/ known' = Revoked(Task, {o.path : o \in start})
      /\ fs' = fs /\ edits' = edits
  BY DEF Complete, files
<1>2. /\ lease' = [u \in Task |-> lease'[u]]
      /\ lease'[t] \subseteq lease[t]
      /\ \A u \in Task : u # t => lease'[u] = lease[u]
  BY <1>0, <1>1
<1>3. /\ known' = [u \in Task |-> known'[u]]
      /\ \A u \in Task : u # t => known'[u] \subseteq known[u]
      /\ \A o \in known'[t] : o \in known[t] \/ ~InFlight(t, o.path)
  <2>1. CASE known' = Recorded(t, post)
    <3>1. \A u \in Task :
            known'[u] = {o \in known[u] : <<o.kind, o.path>> \in Keys(post) => o \in post}
                          \cup {o \in post : u = t /\ ~InFlight(t, o.path)}
      BY <2>1 DEF Recorded
    <3>2. known' = [u \in Task |-> known'[u]]
      BY <2>1 DEF Recorded
    <3>. QED BY <1>0, <3>1, <3>2
  <2>2. CASE known' = known
    BY <1>0, <2>2 DEF CoordShape
  <2>3. CASE known' = Revoked(Task, {o.path : o \in start})
    <3>1. \A u \in Task : known'[u] \subseteq known[u]
      BY <2>3 DEF Revoked
    <3>2. known' = [u \in Task |-> known'[u]]
      BY <2>3 DEF Revoked
    <3>. QED BY <1>0, <3>1, <3>2
  <2>. QED BY <1>1, <2>1, <2>2, <2>3
<1>4. outcome' \in [Attempt -> Verdict] /\ outcome'[a] = status
        /\ \A b \in Attempt : b # a => outcome'[b] = outcome[b]
  BY <1>0, <1>1 DEF Verdict
<1>5. lease'["sandbox"] \cap lease'["commit"] = {}
  <2>1. t = "sandbox" \/ t = "commit"
    BY <1>0, OwnerFacts
  <2>. QED BY <1>2, <2>1, OwnerFacts
<1>6. \A b \in Attempt : Owner[b] # t => outcome'[b] = outcome[b]
  BY <1>4
<1>7. CoordStep(t)
  BY <1>2, <1>3, <1>4, <1>5, <1>6 DEF CoordStep, CoordShape
<1>. QED BY <1>1, <1>4, <1>7

-----------------------------------------------------------------------------
(* The sandbox *)

\* A step of the sandbox that leaves the files alone.
SandboxStays ==
    /\ fs' = fs /\ edits' = edits /\ late' = late /\ cm' = cm
    /\ sb'.op = sb.op /\ sb'.did = sb.did
    /\ CoordStep("sandbox")
    /\ SandboxOK' /\ Reports' /\ SandboxHolds' /\ Looked'

LEMMA SandboxStaysStep == WInv /\ SandboxStays => WInv'
<1>. SUFFICES ASSUME WInv, SandboxStays PROVE WInv'
  OBVIOUS
<1>0. /\ "commit" \in Task /\ "hook" \in Attempt /\ Owner["hook"] # "sandbox"
      /\ fs' = fs /\ edits' = edits /\ late' = late /\ cm' = cm
      /\ sb'.op = sb.op /\ sb'.did = sb.did
  BY OwnerFacts DEF SandboxStays
<1>1. FilesOK'
  BY <1>0 DEF WInv, FilesOK
<1>2. /\ CoordShape' /\ lease'["sandbox"] \cap lease'["commit"] = {}
      /\ lease'["commit"] = lease["commit"] /\ known'["commit"] \subseteq known["commit"]
      /\ outcome'["hook"] = outcome["hook"]
  BY <1>0 DEF SandboxStays, CoordStep
<1>3. HookHolds'
  BY <1>0, <1>2 DEF WInv, Leases, HookHolds
<1>4. HookOK'
  BY <1>0 DEF WInv, HookOK, CommitShape
<1>5. HookLooked'
  <2>1. cm.post \subseteq known'["commit"] => cm.post \subseteq known["commit"]
    BY <1>2
  <2>2. SeenBy(cm.batch)' = SeenBy(cm.batch)
    BY <1>0 DEF SeenBy
  <2>. QED BY <1>0, <2>1, <2>2 DEF WInv, HookLooked
<1>. QED BY <1>1, <1>2, <1>3, <1>4, <1>5 DEF SandboxStays, WInv, Leases

\* The sandbox keeps what it has seen and done.
SandboxKeeps(l) ==
    /\ SandboxShape' /\ sb'.pc = l
    /\ sb'.op = sb.op /\ sb'.pre = sb.pre /\ sb'.did = sb.did
    /\ sb'.data \in Content \cup {None}

LEMMA SandboxLabel ==
    ASSUME SandboxOK, NEW l, sb' = [sb EXCEPT !.pc = l]
    PROVE  /\ SandboxKeeps(l) /\ sb'.blind = sb.blind
           /\ sb'.current = sb.current /\ sb'.post = sb.post
BY DEF SandboxOK, SandboxShape, SandboxKeeps

\* The steps between the first look and the report that ask nothing.
LooksOn(l) ==
    /\ l \in Unapplied => sb.pc \in Unapplied
    /\ l \in AppliedAt => sb.pc \in AppliedAt
    /\ l \in Permitted => sb.pc \in Permitted
    /\ sb.pc \in {"start", "failed", "done"} => l = "failed"
    /\ l # "failed_known"
    /\ l = "apply" => ObserveOperation(fs, sb.op) = sb.pre

LEMMA LabelOnly ==
    ASSUME WInv, OnlySandbox, cm' = cm, late' = late, NEW l, SandboxKeeps(l),
           sb'.blind = sb.blind, LooksOn(l)
    PROVE  WInv'
<1>0. /\ fs' = fs /\ edits' = edits /\ lease' = lease /\ known' = known /\ outcome' = outcome
      /\ "sandbox" \in Task
  BY OwnerFacts DEF OnlySandbox, shared, files
<1>1. /\ SandboxShape' /\ sb'.pc = l
      /\ sb'.op = sb.op /\ sb'.pre = sb.pre /\ sb'.did = sb.did
      /\ sb'.data \in Content \cup {None} /\ sb'.blind = sb.blind
  BY DEF SandboxKeeps
<1>2. CoordStep("sandbox")
  BY <1>0, QuietCoord DEF WInv, Leases
<1>3. SandboxOK'
  BY <1>1 DEF WInv, SandboxOK, LooksOn
<1>4. Reports'
  BY <1>0, <1>1 DEF WInv, Reports, LooksOn
<1>5. SandboxHolds'
  BY <1>0, <1>1 DEF WInv, Leases, SandboxHolds, LooksOn
<1>6. Looked'
  <2>. SUFFICES ASSUME l = "apply", NEW q \in Replaced(sb.op), fs[q] # None
                PROVE  Describes(sb.pre, q)'
    BY <1>0, <1>1 DEF Looked
  <2>1. sb.pre = ObserveOperation(fs, sb.op) /\ sb.pre # {} /\ sb.op \in Operation
    BY <1>1, <1>3 DEF LooksOn, SandboxOK
  <2>2. Describes(sb.pre, q)
    BY <2>1, LookDescribes
  <2>. QED BY <1>0, <1>1, <2>2 DEF Describes
<1>. QED BY <1>0, <1>1, <1>2, <1>3, <1>4, <1>5, <1>6, SandboxStaysStep DEF SandboxStays

LEMMA ReportStep ==
    ASSUME WInv, OnlySandbox, cm' = cm, late' = late, sb.pc \in Permitted, NEW l, NEW post,
           Report(l, post), l \in {"success", "failed_known", "uncertain"},
           l = "success" => sb.pc \in AppliedAt,
           l = "failed_known" => sb.did # "yes" \/ post = NoObservation
    PROVE  WInv'
<1>0. /\ fs' = fs /\ edits' = edits /\ lease' = lease /\ known' = known /\ outcome' = outcome
      /\ "sandbox" \in Task
  BY OwnerFacts DEF OnlySandbox, shared, files
<1>1. /\ SandboxShape' /\ sb'.pc = l
      /\ sb'.op = sb.op /\ sb'.pre = sb.pre /\ sb'.did = sb.did /\ sb'.data = sb.data
      /\ sb'.blind = (post = NoObservation)
  BY DEF Report, WInv, SandboxOK, SandboxShape
<1>2. CoordStep("sandbox")
  BY <1>0, QuietCoord DEF WInv, Leases
<1>3. l \notin Unapplied /\ l \in Permitted /\ l # "apply"
        /\ (l \in AppliedAt => l = "success") /\ sb.pc \notin {"start", "failed", "done"}
  BY DEF Unapplied, Permitted, AppliedAt
<1>4. SandboxOK'
  BY <1>1, <1>3 DEF WInv, SandboxOK
<1>5. Reports'
  <2>1. outcome'["sandbox"] = "executing"
    BY <1>0 DEF WInv, Leases, SandboxHolds
  <2>2. l = "failed_known" => sb.did # "yes" \/ sb'.blind
    BY <1>1
  <2>3. sb'.did = "yes" => ObserveOperation(fs', sb'.op) # sb'.pre
    BY <1>0, <1>1 DEF WInv, Reports
  <2>. QED BY <1>1, <2>1, <2>2, <2>3 DEF Reports
<1>6. SandboxHolds'
  BY <1>0, <1>1 DEF WInv, Leases, SandboxHolds
<1>7. Looked'
  BY <1>1, <1>3 DEF Looked
<1>. QED BY <1>0, <1>1, <1>2, <1>4, <1>5, <1>6, <1>7, SandboxStaysStep DEF SandboxStays

\* run_staged_mutation up to the permit: the identities in pre_resources are of
\* files that the sandbox did not make.
LEMMA SandboxObserves ==
    ASSUME WInv, OnlySandbox, cm' = cm, late' = late, ObservePre
    PROVE  WInv'
<1>0. /\ fs' = fs /\ edits' = edits /\ lease' = lease /\ known' = known /\ outcome' = outcome
      /\ "sandbox" \in Task
  BY OwnerFacts DEF OnlySandbox, shared, files
<1>1. sb.pc = "start" /\ sb.op \in Operation /\ OldFiles(fs) /\ sb.did = "no"
  BY DEF WInv, SandboxOK, FilesOK, ObservePre, Unapplied
<1>2. PICK obs \in Sees(ObserveOperation(fs, sb.op)) :
        sb' = [sb EXCEPT !.pc = IF obs = NoObservation THEN "failed" ELSE "read",
                         !.pre = obs, !.current = obs]
  BY DEF ObservePre
<1>3. obs = {} \/ obs = ObserveOperation(fs, sb.op)
  BY DEF Sees, NoObservation
<1>4. /\ SandboxShape' /\ sb'.pc = (IF obs = {} THEN "failed" ELSE "read")
      /\ sb'.op = sb.op /\ sb'.pre = obs /\ sb'.did = sb.did /\ sb'.data = sb.data
      /\ sb'.blind = sb.blind
  BY <1>2 DEF WInv, SandboxOK, SandboxShape, NoObservation
<1>5. ASSUME NEW o \in obs, o.kind \in {"object", "tree"}
      PROVE  o.id \in Inos
  <2>1. o \in ObserveOperation(fs, sb.op) /\ sb.op.path \in Path
    BY <1>1, <1>3, <1>5, OperationFacts
  <2>2. fs[sb.op.path] # None /\ o.id = fs[sb.op.path].ino
    BY <1>1, <1>5, <2>1, ObservedIds
  <2>. QED BY <1>1, <2>1, <2>2 DEF OldFiles
<1>6. CoordStep("sandbox")
  BY <1>0, QuietCoord DEF WInv, Leases
<1>7. sb'.pc \in {"failed", "read"} /\ (sb'.pc = "read" => obs # {})
  BY <1>4
<1>8. SandboxOK'
  BY <1>1, <1>4, <1>5, <1>7 DEF WInv, SandboxOK, AppliedAt
<1>9. Reports' /\ SandboxHolds' /\ Looked'
  BY <1>0, <1>1, <1>4, <1>7 DEF WInv, Reports, SandboxHolds, Looked, Permitted
<1>. QED BY <1>0, <1>4, <1>6, <1>8, <1>9, SandboxStaysStep DEF SandboxStays

\* The sandbox's requests: a read and a permit before anything is applied, ...
LEMMA SandboxAsks ==
    ASSUME WInv, cm' = cm, late' = late, RecordRead \/ Prepare
    PROVE  WInv'
<1>0. /\ CoordShape /\ lease["sandbox"] \cap lease["commit"] = {} /\ SandboxOK
      /\ "sandbox" \in Task /\ "sandbox" \in Attempt /\ Owner["sandbox"] = "sandbox"
      /\ "commit" \in Task
  BY OwnerFacts DEF WInv, Leases
<1>1. CASE RecordRead
  <2>1. /\ sb.pc = "read" /\ SandboxKeeps("prepare") /\ sb'.blind = sb.blind
        /\ fs' = fs /\ edits' = edits /\ outcome' = outcome
        /\ CoordStep("sandbox")
    BY <1>0, <1>1, RecordedCoord, SandboxLabel DEF RecordRead, SB, files
  <2>2. SandboxOK'
    BY <1>0, <2>1 DEF SandboxOK, SandboxKeeps, Unapplied, AppliedAt
  <2>3. Reports' /\ SandboxHolds' /\ Looked'
    BY <2>1 DEF WInv, SandboxKeeps, Reports, SandboxHolds, Looked, Permitted
  <2>. QED BY <2>1, <2>2, <2>3, SandboxStaysStep DEF SandboxStays, SandboxKeeps
<1>2. CASE Ready("sandbox", Paths(sb.op), sb.current) /\ sb.pc = "prepare" /\ SB("populate")
  <2>1. /\ CoordStep("sandbox")
        /\ Paths(sb.op) \subseteq lease'["sandbox"] /\ outcome'["sandbox"] = "executing"
        /\ \A o \in known'["commit"] : o.path \notin Paths(sb.op)
        /\ fs' = fs /\ edits' = edits
    <3>1. Permits("sandbox", "sandbox", Paths(sb.op), sb.current)
      BY <1>0, <1>2, ReadyCoord
    <3>. QED BY <1>0, <3>1 DEF Permits
  <2>2. SandboxKeeps("populate") /\ sb'.blind = sb.blind
    BY <1>0, <1>2, SandboxLabel DEF SB
  <2>3. SandboxOK' /\ sb'.did = "no"
    BY <1>0, <1>2, <2>2 DEF SandboxOK, SandboxKeeps, Unapplied, AppliedAt
  <2>4. Reports' /\ SandboxHolds' /\ Looked'
    BY <2>1, <2>2, <2>3 DEF SandboxKeeps, Reports, SandboxHolds, Looked, Permitted
  <2>. QED BY <2>1, <2>2, <2>3, <2>4, SandboxStaysStep DEF SandboxStays, SandboxKeeps
<1>3. CASE OnlySandbox /\ sb.pc = "prepare" /\ (SB("again") \/ SB("wait") \/ SB("failed"))
  <2>1. PICK l \in {"again", "wait", "failed"} : SB(l)
    BY <1>3
  <2>2. SandboxKeeps(l) /\ sb'.blind = sb.blind
    BY <1>0, <2>1, SandboxLabel DEF SB
  <2>3. LooksOn(l)
    BY <1>3, <2>1 DEF LooksOn, Unapplied, AppliedAt, Permitted
  <2>. QED BY <1>3, <2>2, <2>3, LabelOnly
<1>. QED BY <1>1, <1>2, <1>3 DEF Prepare

\* ... and one result, of which the coordinator believes as much as is true.
LEMMA SandboxCompletes ==
    ASSUME WInv, cm' = cm, late' = late, SendComplete
    PROVE  WInv'
<1>0. /\ CoordShape /\ lease["sandbox"] \cap lease["commit"] = {} /\ SandboxOK
      /\ "sandbox" \in Task /\ "sandbox" \in Attempt /\ Owner["sandbox"] = "sandbox"
  BY OwnerFacts DEF WInv, Leases
<1>1. PICK status : /\ status \in {"completed", "failed", "uncertain"}
                    /\ status = "completed" => sb.pc = "success"
                    /\ status = "failed" => sb.pc = "failed_known"
                    /\ Complete("sandbox", status, sb.current, sb.post)
  BY SMTT(40), ResolvedFacts DEF SendComplete
<1>2. CoordStep("sandbox") /\ outcome'["sandbox"] = status /\ fs' = fs /\ edits' = edits
  BY <1>0, <1>1, CompleteCoord
<1>3. SandboxKeeps("done") /\ sb'.blind = sb.blind
  BY <1>0, SandboxLabel DEF SendComplete, SB
<1>4. SandboxOK'
  BY <1>0, <1>3 DEF SandboxOK, SandboxKeeps, Unapplied, AppliedAt
<1>5. /\ status = "completed" => sb.did # "no"
      /\ status = "failed" => sb.did # "yes" \/ sb.blind
  BY <1>0, <1>1 DEF WInv, SandboxOK, Reports, AppliedAt
<1>6. Reports' /\ SandboxHolds' /\ Looked'
  BY <1>2, <1>3, <1>5 DEF SandboxKeeps, Reports, SandboxHolds, Looked, Permitted
<1>. QED BY <1>2, <1>3, <1>4, <1>6, SandboxStaysStep DEF SandboxStays, SandboxKeeps

\* The steps that only look, wait, or run the command in the stage.
LEMMA SandboxLooks ==
    ASSUME WInv, cm' = cm, late' = late,
           \/ ObserveAgain \/ OfferTimesOut \/ Populate \/ RunCommand \/ FinalLook
           \/ ValidatePost \/ SandboxDies
    PROVE  WInv'
<1>0. SandboxOK /\ SandboxShape /\ OnlySandbox /\ sb.data \in Content \cup {None}
  BY DEF WInv, SandboxOK, ObserveAgain, OfferTimesOut, Populate, RunCommand, FinalLook,
                    ValidatePost, SandboxDies
<1>. SUFFICES \E l : SandboxKeeps(l) /\ sb'.blind = sb.blind /\ LooksOn(l)
  BY <1>0, LabelOnly
<1>1. CASE ObserveAgain
  <2>1. PICK obs : sb' = [sb EXCEPT !.pc = IF obs = NoObservation THEN "failed" ELSE "read",
                                    !.current = obs]
    BY <1>1 DEF ObserveAgain
  <2>. DEFINE l == IF obs = NoObservation THEN "failed" ELSE "read"
  <2>2. SandboxKeeps(l) /\ sb'.blind = sb.blind
    BY <1>0, <2>1 DEF SandboxKeeps, SandboxShape
  <2>3. sb.pc \in {"again", "wait"} /\ l \in {"failed", "read"}
    BY <1>1 DEF ObserveAgain
  <2>. HIDE DEF l
  <2>4. LooksOn(l)
    BY <2>3 DEF LooksOn, Unapplied, AppliedAt, Permitted
  <2>. QED BY <2>2, <2>4
<1>2. CASE RunCommand
  <2>0. sb.pc = "command"
    BY <1>2 DEF RunCommand
  <2>1. CASE SB("childfailed") \/ SB("error")
    <3>1. PICK l \in {"childfailed", "error"} : SB(l)
      BY <2>1
    <3>2. SandboxKeeps(l) /\ sb'.blind = sb.blind
      BY <1>0, <3>1, SandboxLabel DEF SB
    <3>3. LooksOn(l)
      BY <2>0, <3>1 DEF LooksOn, Unapplied, AppliedAt, Permitted
    <3>. QED BY <3>2, <3>3
  <2>2. CASE \E c \in Content \cup {None} : sb' = [sb EXCEPT !.pc = "look", !.data = c]
    <3>1. SandboxKeeps("look") /\ sb'.blind = sb.blind
      BY <1>0, <2>2 DEF SandboxKeeps, SandboxShape
    <3>2. LooksOn("look")
      BY <2>0 DEF LooksOn, Unapplied, AppliedAt, Permitted
    <3>. QED BY <3>1, <3>2
  <2>. QED BY <1>2, <2>1, <2>2 DEF RunCommand
<1>3. CASE FinalLook
  <2>1. PICK obs \in Sees(ObserveOperation(fs, sb.op)) : SB(IF obs = sb.pre THEN "apply" ELSE "error")
    BY <1>3 DEF FinalLook
  <2>. DEFINE l == IF obs = sb.pre THEN "apply" ELSE "error"
  <2>2. SandboxKeeps(l) /\ sb'.blind = sb.blind
    BY <1>0, <2>1, SandboxLabel DEF SB
  <2>3. obs = {} \/ obs = ObserveOperation(fs, sb.op)
    BY DEF Sees, NoObservation
  <2>4. sb.pc = "look" /\ sb.pre # {}
    BY <1>0, <1>3 DEF FinalLook, SandboxOK
  <2>5. l \in {"apply", "error"} /\ (l = "apply" => ObserveOperation(fs, sb.op) = sb.pre)
    BY <2>3, <2>4
  <2>. HIDE DEF l
  <2>6. LooksOn(l)
    BY <2>4, <2>5 DEF LooksOn, Unapplied, AppliedAt, Permitted
  <2>. QED BY <2>2, <2>6
<1>4. CASE OfferTimesOut \/ Populate \/ ValidatePost \/ SandboxDies
  <2>1. PICK l : SB(l) /\ \/ sb.pc = "wait" /\ l = "failed"
                          \/ sb.pc = "populate" /\ l \in {"error", "command"}
                          \/ sb.pc = "validate" /\ l \in {"succeeded", "error"}
                          \/ l = "failed"
    BY <1>4 DEF OfferTimesOut, Populate, ValidatePost, SandboxDies
  <2>2. SandboxKeeps(l) /\ sb'.blind = sb.blind
    BY <1>0, <2>1, SandboxLabel DEF SB
  <2>3. LooksOn(l)
    BY <2>1 DEF LooksOn, Unapplied, AppliedAt, Permitted
  <2>. QED BY <2>2, <2>3
<1>. QED BY <1>1, <1>2, <1>3, <1>4

\* The reports.  A failure of anything but the command is a known one only if
\* the operation still sees its pre-state, or nothing.
LEMMA SandboxReports ==
    ASSUME WInv, cm' = cm, late' = late, ReportSuccess \/ ReportChildFailure \/ ReportError
    PROVE  WInv'
<1>0. SandboxOK /\ OnlySandbox
  BY DEF WInv, ReportSuccess, ReportChildFailure, ReportError
<1>1. CASE ReportSuccess
  <2>1. PICK post : Report(IF post = NoObservation THEN "uncertain" ELSE "success", post)
    BY <1>1 DEF ReportSuccess
  <2>. DEFINE l == IF post = NoObservation THEN "uncertain" ELSE "success"
  <2>2. l \in {"uncertain", "success"} /\ sb.pc \in AppliedAt /\ sb.pc \in Permitted
    BY <1>1 DEF ReportSuccess, AppliedAt, Permitted
  <2>3. Report(l, post)
    BY <2>1
  <2>. HIDE DEF l
  <2>. QED BY <1>0, <2>2, <2>3, ReportStep
<1>2. CASE ReportChildFailure
  <2>1. PICK post : Report("failed_known", post)
    BY <1>2 DEF ReportChildFailure
  <2>2. sb.pc \in Permitted /\ sb.did = "no"
    BY <1>0, <1>2 DEF ReportChildFailure, SandboxOK, Unapplied, Permitted
  <2>. QED BY <1>0, <2>1, <2>2, ReportStep
<1>3. CASE ReportError
  <2>1. PICK post \in Sees(ObserveOperation(fs, sb.op)) :
          Report(IF post \in {sb.pre, NoObservation} THEN "failed_known" ELSE "uncertain", post)
    BY <1>3 DEF ReportError
  <2>. DEFINE l == IF post \in {sb.pre, NoObservation} THEN "failed_known" ELSE "uncertain"
  <2>2. post = {} \/ post = ObserveOperation(fs, sb.op)
    BY DEF Sees, NoObservation
  <2>3. sb.pc = "error" /\ sb.pc \in Permitted
    BY <1>3 DEF ReportError, Permitted
  <2>4. sb.did = "yes" => ObserveOperation(fs, sb.op) # sb.pre
    BY <2>3 DEF WInv, Reports
  <2>5. /\ l \in {"failed_known", "uncertain"}
        /\ l = "failed_known" => sb.did # "yes" \/ post = NoObservation
    BY <2>2, <2>4 DEF NoObservation
  <2>6. Report(l, post)
    BY <2>1
  <2>. HIDE DEF l
  <2>. QED BY <1>0, <2>3, <2>5, <2>6, ReportStep
<1>. QED BY <1>1, <1>2, <1>3

-----------------------------------------------------------------------------
(* Changes to the files *)

LateStep == late' = late \cup {t \in Task : \E p \in Unprotected(t) : fs'[p] # fs[p]}

LEMMA LateFacts ==
    ASSUME LateStep
    PROVE  /\ late \subseteq late' /\ (fs' = fs => late' = late)
           /\ "sandbox" \notin late' /\ sb.pc = "apply" /\ edits' # edits =>
                \A q \in Paths(sb.op) : fs'[q] = fs[q]
           /\ \/ "commit" \notin late' /\ cm.pc = "hookread"
              \/ "commit" \notin late' /\ cm.pc \in Hooked /\ edits' # edits
              => fs'[Target] = fs[Target]
<1>1. late \subseteq late' /\ (fs' = fs => late' = late)
  BY DEF LateStep
<1>2. \A t \in Task : t \notin late' => \A p \in Unprotected(t) : fs'[p] = fs[p]
  BY DEF LateStep
<1>3. "sandbox" \in Task /\ "commit" \in Task
  BY OwnerFacts
<1>4. /\ sb.pc = "apply" /\ edits' # edits => Unprotected("sandbox") = Paths(sb.op)
      /\ cm.pc = "hookread" \/ (cm.pc \in Hooked /\ edits' # edits) =>
           Unprotected("commit") = {Target}
  BY DEF Unprotected, Hooked
<1>. QED BY <1>1, <1>2, <1>3, <1>4

\* The sandbox's lease keeps the hooks' target out of its paths, and its permit
\* the evidence of it.
LEMMA TargetIsElsewhere ==
    ASSUME WInv, sb.pc \in Permitted,
           \/ cm.pc = "hookwrite"
           \/ cm.pc = "hookprepare" /\ cm.post \subseteq known["commit"]
    PROVE  Target \notin Paths(sb.op)
<1>1. /\ Paths(sb.op) \subseteq lease["sandbox"]
      /\ \A o \in known["commit"] : o.path \notin Paths(sb.op)
      /\ lease["sandbox"] \cap lease["commit"] = {}
  BY DEF WInv, Leases, SandboxHolds
<1>2. CASE cm.pc = "hookwrite"
  BY <1>1, <1>2 DEF WInv, Leases, HookHolds
<1>3. CASE cm.pc = "hookprepare" /\ cm.post \subseteq known["commit"]
  <2>1. /\ cm.post = Tracked(cm.batch) /\ Tracked(cm.batch) # {}
        /\ \A o \in cm.batch : o.kind # "tree" => o.path = Target
    BY <1>3 DEF WInv, HookOK, Hooked
  <2>2. PICK o \in Tracked(cm.batch) : o \in known["commit"]
    BY <1>3, <2>1
  <2>3. o.path = Target
    BY <2>1, <2>2 DEF Tracked
  <2>. QED BY <1>1, <2>2, <2>3
<1>. QED BY <1>2, <1>3

\* PrivateStage::apply
LEMMA ApplyStep ==
    ASSUME WInv, Apply, cm' = cm, LateStep
    PROVE  WInv'
<1>0. /\ edits' = edits /\ known' = known /\ lease' = lease /\ outcome' = outcome
      /\ sb.pc = "apply" /\ sb.pc \in Permitted /\ sb.pc \in Unapplied
      /\ head' = head /\ index' = index /\ draining' = draining
  BY DEF Apply, Permitted, Unapplied
<1>1. /\ IsDisk(fs) /\ OldFiles(fs) /\ Alone(fs) /\ edits \in Nat /\ sb.did = "no"
      /\ SandboxOK /\ SandboxShape /\ sb.op \in Operation /\ sb.data \in Content \cup {None}
      /\ sb.pre # {} /\ \A o \in sb.pre : o.kind \in {"object", "tree"} => o.id \in Inos
  BY <1>0 DEF WInv, FilesOK, SandboxOK
<1>2. CASE SB("error") /\ fs' = fs
  <2>1. SandboxKeeps("error") /\ sb'.blind = sb.blind
    BY <1>1, <1>2, SandboxLabel DEF SB
  <2>2. LooksOn("error")
    BY <1>0 DEF LooksOn, Unapplied, AppliedAt, Permitted
  <2>3. OnlySandbox /\ late' = late
    BY <1>0, <1>2, LateFacts DEF OnlySandbox, shared, files
  <2>. QED BY <2>1, <2>2, <2>3, LabelOnly
<1>3. CASE /\ \/ fs' = Applied(sb.op, sb.data) /\ fs' # fs
              \/ fs' = Lost(sb.op) /\ sb.op.op = "write_directory"
           /\ \E l \in {"validate", "error"} : sb' = [sb EXCEPT !.pc = l, !.did = "yes"]
  <2>1. /\ SandboxShape' /\ sb'.pc \in {"validate", "error"} /\ sb'.did = "yes"
        /\ sb'.op = sb.op /\ sb'.pre = sb.pre /\ sb'.data = sb.data
    BY <1>1, <1>3 DEF SandboxShape
  <2>2. ApplyOK(sb.op, fs')
    <3>1. CASE fs' = Applied(sb.op, sb.data) /\ fs' # fs
      BY SMTT(40), <1>1, <3>1, AppliedFacts DEF OldFiles
    <3>2. CASE fs' = Lost(sb.op) /\ sb.op.op = "write_directory"
      BY <1>1, <3>2, LostFacts
    <3>. QED BY <1>3, <3>1, <3>2
  <2>3. ObserveOperation(fs', sb.op) # sb.pre
    <3>1. CASE fs' = Applied(sb.op, sb.data) /\ fs' # fs
      BY <1>1, <3>1, AppliedIsSeen
    <3>2. CASE fs' = Lost(sb.op) /\ sb.op.op = "write_directory"
      BY <1>1, <3>2, LostFacts
    <3>. QED BY <1>3, <3>1, <3>2
  <2>4. FilesOK'
    BY <1>0, <1>1, <2>1, <2>2 DEF FilesOK, ApplyOK
  <2>5. sb'.pc \notin Unapplied /\ sb'.pc # "apply" /\ sb'.pc # "failed_known"
          /\ sb'.pc \notin {"start", "failed", "done"}
    BY <2>1 DEF Unapplied
  <2>6. SandboxOK'
    BY <1>1, <2>1, <2>5 DEF SandboxOK
  <2>7. Reports' /\ Leases' /\ CoordShape'
    <3>1. outcome["sandbox"] = "executing" /\ SandboxHolds /\ HookHolds /\ CoordShape
            /\ lease["sandbox"] \cap lease["commit"] = {}
      BY <1>0 DEF WInv, Leases, SandboxHolds
    <3>2. Reports'
      BY <1>0, <2>1, <2>3, <2>5, <3>1 DEF Reports
    <3>3. SandboxHolds' /\ HookHolds' /\ CoordShape'
      BY <1>0, <2>1, <3>1 DEF SandboxHolds, HookHolds, CoordShape
    <3>. QED BY <1>0, <3>1, <3>2, <3>3 DEF Leases
  <2>8. Looked' /\ HookOK'
    BY <2>5 DEF WInv, Looked, HookOK, CommitShape
  <2>9. HookLooked'
    <3>. SUFFICES ASSUME \/ cm.pc \in {"hookread", "hookwrite"}
                         \/ cm.pc = "hookprepare" /\ cm.post \subseteq known["commit"],
                         "commit" \notin late', fs'[Target] # None
                  PROVE  SeenBy(cm.batch)'
      BY <1>0 DEF HookLooked
    <3>1. fs'[Target] = fs[Target]
      <4>1. CASE cm.pc = "hookread"
        BY <4>1, LateFacts
      <4>2. CASE cm.pc # "hookread"
        <5>1. Target \notin Paths(sb.op)
          BY <1>0, <4>2, TargetIsElsewhere
        <5>. QED BY <2>2, <5>1, TargetAssumption DEF ApplyOK
      <4>. QED BY <4>1, <4>2
    <3>2. "commit" \notin late
      BY LateFacts
    <3>3. SeenBy(cm.batch)
      BY <3>1, <3>2 DEF WInv, HookLooked
    <3>. QED BY <3>1, <3>3 DEF SeenBy
  <2>. QED BY <2>4, <2>6, <2>7, <2>8, <2>9 DEF WInv
<1>. QED BY <1>2, <1>3 DEF Apply

-----------------------------------------------------------------------------
(* The structured commit *)

\* A step of the commit that leaves the files alone.
CommitStays ==
    /\ fs' = fs /\ edits' = edits /\ late' = late /\ sb' = sb
    /\ CoordStep("commit")
    /\ HookOK' /\ HookHolds' /\ HookLooked'

LEMMA CommitStaysStep == WInv /\ CommitStays => WInv'
<1>. SUFFICES ASSUME WInv, CommitStays PROVE WInv'
  OBVIOUS
<1>0. /\ "sandbox" \in Task /\ "sandbox" \in Attempt /\ Owner["sandbox"] = "sandbox"
      /\ "sandbox" # "commit" /\ "commit" \in Task
      /\ fs' = fs /\ edits' = edits /\ late' = late /\ sb' = sb
  BY OwnerFacts DEF CommitStays
<1>1. /\ CoordShape' /\ lease'["sandbox"] \cap lease'["commit"] = {}
      /\ lease'["sandbox"] = lease["sandbox"]
      /\ \A o \in known'["commit"] : o \in known["commit"] \/ ~InFlight("commit", o.path)
      /\ outcome'["sandbox"] = outcome["sandbox"]
  BY <1>0 DEF CommitStays, CoordStep
<1>2. FilesOK' /\ SandboxOK' /\ Looked'
  BY <1>0 DEF WInv, FilesOK, SandboxOK, SandboxShape, Looked, Describes
<1>3. Reports'
  BY <1>0, <1>1 DEF WInv, Reports
<1>4. SandboxHolds'
  <2>. SUFFICES ASSUME sb.pc \in Permitted
                PROVE  /\ outcome'["sandbox"] = "executing"
                       /\ Paths(sb.op) \subseteq lease'["sandbox"]
                       /\ \A o \in known'["commit"] : o.path \notin Paths(sb.op)
    BY <1>0 DEF SandboxHolds
  <2>1. /\ outcome["sandbox"] = "executing" /\ Paths(sb.op) \subseteq lease["sandbox"]
        /\ \A o \in known["commit"] : o.path \notin Paths(sb.op)
    BY DEF WInv, Leases, SandboxHolds
  <2>2. \A p \in Paths(sb.op) : InFlight("commit", p)
    BY <1>0, <2>1 DEF InFlight
  <2>. QED BY <1>1, <2>1, <2>2
<1>. QED BY <1>1, <1>2, <1>3, <1>4 DEF CommitStays, WInv, Leases

\* The labels the command may take from k, for all that HookOK says of them.
MovesOn(k, l) ==
    /\ l \in Indexed => k \in Indexed
    /\ l \in Staged => k \in Staged
    /\ l \in Hooked => k \in Hooked
    /\ k \in {"observe", "err", "dead"} => l \in {"observe", "err", "dead"}

LEMMA CommitLabel ==
    ASSUME HookOK, NEW l, CM(l), MovesOn(cm.pc, l)
    PROVE  HookOK' /\ cm'.pc = l /\ cm'.batch = cm.batch /\ cm'.post = cm.post
<1>1. /\ cm' = [pc |-> l, batch |-> cm.batch, at |-> cm.at, copy |-> cm.copy,
                temp |-> cm.temp, post |-> cm.post]
  BY DEF CM, HookOK, CommitShape
<1>2. /\ cm'.pc = l /\ cm'.batch = cm.batch /\ cm'.copy = cm.copy /\ cm'.temp = cm.temp
      /\ cm'.post = cm.post
      /\ cm' = [pc |-> cm'.pc, batch |-> cm'.batch, at |-> cm'.at, copy |-> cm'.copy,
                temp |-> cm'.temp, post |-> cm'.post]
  BY <1>1
<1>3. CommitShape'
  BY <1>2 DEF HookOK, CommitShape, MovesOn, Staged
<1>. QED BY <1>2, <1>3 DEF HookOK, MovesOn, Tracked

\* Outside the write of the hooks' changes nothing depends on a look.
LEMMA CommitMoves ==
    ASSUME WInv, fs' = fs, edits' = edits, sb' = sb, LateStep, CoordStep("commit"), HookOK',
           cm'.pc \notin Hooked
    PROVE  WInv'
<1>1. late' = late
  BY LateFacts
<1>2. HookHolds' /\ HookLooked'
  BY DEF HookHolds, HookLooked, Hooked
<1>. QED BY <1>1, <1>2, CommitStaysStep DEF CommitStays

\* A step of the commit that keeps the coordinator's tables.
LEMMA CommitQuiet ==
    ASSUME WInv, fs' = fs, edits' = edits, lease' = lease, known' = known, outcome' = outcome
    PROVE  CoordStep("commit")
BY QuietCoord, OwnerFacts DEF WInv, Leases

LEMMA OnlyCommitFacts ==
    ASSUME OnlyCommit
    PROVE  /\ fs' = fs /\ edits' = edits /\ lease' = lease /\ known' = known
           /\ outcome' = outcome
BY DEF OnlyCommit, shared, files

\* The commit's requests to the coordinator, and the steps that only take
\* another label.
CommitGoesTo(l) ==
    /\ CM(l) /\ MovesOn(cm.pc, l) /\ l \notin Hooked
    /\ CoordStep("commit") /\ fs' = fs /\ edits' = edits

LEMMA CommitGoes ==
    ASSUME WInv, sb' = sb, LateStep, NEW l, CommitGoesTo(l)
    PROVE  WInv'
<1>1. HookOK' /\ cm'.pc = l
  BY CommitLabel DEF CommitGoesTo, WInv
<1>. QED BY <1>1, CommitMoves DEF CommitGoesTo

LEMMA CommitAsks ==
    ASSUME WInv, sb' = sb, LateStep,
           RecordBatchRead \/ PrepareCommit \/ TakeOffer \/ CompleteCommit \/ CompleteHook
    PROVE  WInv'
<1>0. /\ CoordShape /\ lease["sandbox"] \cap lease["commit"] = {}
      /\ "commit" \in Task /\ "commit" \in Attempt /\ "hook" \in Attempt
      /\ Owner["commit"] = "commit" /\ Owner["hook"] = "commit"
  BY OwnerFacts DEF WInv, Leases
<1>1. OnlyCommit => CoordStep("commit") /\ fs' = fs /\ edits' = edits
  BY CommitQuiet, OnlyCommitFacts
<1>2. \A obs : known' = Recorded("commit", obs) /\ UNCHANGED <<files, lease, draining, outcome>>
        => CoordStep("commit") /\ fs' = fs /\ edits' = edits
  <2>. TAKE obs
  <2>. HAVE known' = Recorded("commit", obs) /\ UNCHANGED <<files, lease, draining, outcome>>
  <2>1. lease' = lease /\ outcome' = outcome /\ fs' = fs /\ edits' = edits
    BY DEF files
  <2>. QED BY <1>0, <2>1, RecordedCoord
<1>3. \A paths, obs :
        Ready("commit", paths, obs) => CoordStep("commit") /\ fs' = fs /\ edits' = edits
  BY <1>0, ReadyCoord DEF Permits
<1>4. ASSUME NEW a \in {"commit", "hook"}, NEW k, NEW valid, NEW same, NEW start, NEW post,
             Complete(a, Resolved(k, valid, same), start, post)
      PROVE  CoordStep("commit") /\ fs' = fs /\ edits' = edits
  <2>1. a \in Attempt /\ "commit" = Owner[a]
    BY <1>0
  <2>. DEFINE status == Resolved(k, valid, same)
  <2>2. status \in {"completed", "failed", "uncertain"} /\ Complete(a, status, start, post)
    BY <1>4 DEF Resolved
  <2>. HIDE DEF status
  <2>. QED BY SMTT(40), <1>0, <2>1, <2>2, CompleteCoord
<1>5. CASE RecordBatchRead
  <2>1. MovesOn(cm.pc, "prepare") /\ "prepare" \notin Hooked
    BY <1>5 DEF RecordBatchRead, MovesOn, Indexed, Staged, Hooked
  <2>2. CommitGoesTo("prepare")
    BY <1>2, <1>5, <2>1 DEF RecordBatchRead, CommitGoesTo
  <2>. QED BY <2>2, CommitGoes
<1>6. CASE PrepareCommit
  <2>1. \A l \in {"ensure", "observe", "wait", "err"} : MovesOn(cm.pc, l) /\ l \notin Hooked
    BY <1>6 DEF PrepareCommit, MovesOn, Indexed, Staged, Hooked
  <2>2. \E l \in {"ensure", "observe", "wait", "err"} :
          CM(l) /\ (OnlyCommit \/ Ready("commit", CommitPaths, cm.batch))
    BY <1>6 DEF PrepareCommit
  <2>3. \E l : CommitGoesTo(l)
    BY <1>1, <1>3, <2>1, <2>2 DEF CommitGoesTo
  <2>. QED BY <2>3, CommitGoes
<1>7. CASE TakeOffer
  <2>1. \A l \in {"observe", "err"} : MovesOn(cm.pc, l) /\ l \notin Hooked
    BY <1>7 DEF TakeOffer, MovesOn, Indexed, Staged, Hooked
  <2>2. \E l \in {"observe", "err"} :
          /\ CM(l)
          /\ \/ OnlyCommit
             \/ /\ known' = Recorded("commit", ObserveCommitBatch)
                /\ UNCHANGED <<files, lease, draining, outcome>>
    BY <1>7 DEF TakeOffer
  <2>3. \E l : CommitGoesTo(l)
    BY <1>1, <1>2, <2>1, <2>2 DEF CommitGoesTo
  <2>. QED BY <2>3, CommitGoes
<1>8. CASE CompleteCommit
  <2>. DEFINE l == IF cm.pc \in {"success", "uncertain"} THEN "apply" ELSE "err"
  <2>1. MovesOn(cm.pc, l) /\ l \notin Hooked
    BY <1>8 DEF CompleteCommit, MovesOn, Indexed, Staged, Hooked
  <2>2. CM(l) /\ CoordStep("commit") /\ fs' = fs /\ edits' = edits
    BY <1>1, <1>4, <1>8 DEF CompleteCommit
  <2>3. CommitGoesTo(l)
    BY <2>1, <2>2 DEF CommitGoesTo
  <2>. QED BY <2>3, CommitGoes
<1>9. CASE CompleteHook
  <2>1. MovesOn(cm.pc, "ok") /\ "ok" \notin Hooked
    BY <1>9 DEF CompleteHook, MovesOn, Indexed, Staged, Hooked
  <2>2. CM("ok") /\ CoordStep("commit") /\ fs' = fs /\ edits' = edits
    BY <1>4, <1>9 DEF CompleteHook
  <2>3. CommitGoesTo("ok")
    BY <2>1, <2>2 DEF CommitGoesTo
  <2>. QED BY <2>3, CommitGoes
<1>. QED BY <1>5, <1>6, <1>7, <1>8, <1>9

LEMMA CommitLabels ==
    ASSUME WInv, sb' = sb, LateStep,
           \/ EnsureBatchUnchanged("ensure", "private") \/ EnsureBatchUnchanged("recheck", "cas")
           \/ UpdateHeadCas \/ SynchronizePrimaryIndex \/ CommitDies
    PROVE  WInv'
<1>1. /\ fs' = fs /\ edits' = edits /\ CoordStep("commit")
  BY CommitQuiet, OnlyCommitFacts
     DEF EnsureBatchUnchanged, UpdateHeadCas, SynchronizePrimaryIndex, CommitDies
<1>2. CASE EnsureBatchUnchanged("ensure", "private")
  <2>1. \E l \in {"private", "failing"} : CM(l)
    BY <1>2 DEF EnsureBatchUnchanged
  <2>2. \A l \in {"private", "failing"} : MovesOn(cm.pc, l) /\ l \notin Hooked
    BY <1>2 DEF EnsureBatchUnchanged, MovesOn, Indexed, Staged, Hooked
  <2>. QED BY <1>1, <2>1, <2>2, CommitGoes DEF CommitGoesTo
<1>3. CASE EnsureBatchUnchanged("recheck", "cas")
  <2>1. \E l \in {"cas", "failing"} : CM(l)
    BY <1>3 DEF EnsureBatchUnchanged
  <2>2. \A l \in {"cas", "failing"} : MovesOn(cm.pc, l) /\ l \notin Hooked
    BY <1>3 DEF EnsureBatchUnchanged, MovesOn, Indexed, Staged, Hooked
  <2>. QED BY <1>1, <2>1, <2>2, CommitGoes DEF CommitGoesTo
<1>4. CASE UpdateHeadCas
  <2>1. \E l \in {"sync", "failing"} : CM(l)
    BY <1>4 DEF UpdateHeadCas
  <2>2. \A l \in {"sync", "failing"} : MovesOn(cm.pc, l) /\ l \notin Hooked
    BY <1>4 DEF UpdateHeadCas, MovesOn, Indexed, Staged, Hooked
  <2>. QED BY <1>1, <2>1, <2>2, CommitGoes DEF CommitGoesTo
<1>5. CASE SynchronizePrimaryIndex
  <2>1. CM("post") /\ MovesOn(cm.pc, "post") /\ "post" \notin Hooked
    BY <1>5 DEF SynchronizePrimaryIndex, MovesOn, Indexed, Staged, Hooked
  <2>. QED BY <1>1, <2>1, CommitGoes DEF CommitGoesTo
<1>6. CASE CommitDies
  <2>1. CM("dead") /\ MovesOn(cm.pc, "dead") /\ "dead" \notin Hooked
    BY <1>6 DEF CommitDies, MovesOn, Indexed, Staged, Hooked
  <2>. QED BY <1>1, <2>1, CommitGoes DEF CommitGoesTo
<1>. QED BY <1>2, <1>3, <1>4, <1>5, <1>6

\* What the commit's observations are about.
LEMMA BatchFacts ==
    ASSUME NEW obs \in Sees(ObserveCommitBatch)
    PROVE  /\ \A o \in obs : o.kind # "tree" => o.path = Target
           /\ ValidCommit(Target, obs) => Tracked(obs) # {}
<1>1. \A o \in ObserveCommitTarget : o.path = Target
  BY SMTT(40) DEF ObserveCommitTarget, ObserveAbsentEntry, ObserveExistingFile, Object, Entry
<1>2. GitMetadata.kind = "tree"
  BY DEF GitMetadata
<1>3. \A o \in obs : o \in ObserveCommitTarget \/ o = GitMetadata
  BY DEF Sees, NoObservation, ObserveCommitBatch, And
<1>4. \A o \in obs : o.kind # "tree" => o.path = Target
  BY <1>1, <1>2, <1>3
<1>5. ASSUME ValidCommit(Target, obs) PROVE Tracked(obs) # {}
  <2>1. PICK o \in obs : o.kind = "entry"
    BY <1>5 DEF ValidCommit, Has
  <2>2. o.kind # "tree"
    BY <2>1
  <2>. QED BY <2>2 DEF Tracked
<1>. QED BY <1>4, <1>5

\* A look at the target that equals the one the permit rests on.
LEMMA TargetSeen ==
    ASSUME NEW obs \in Sees(ObserveCommitTarget), NEW batch, obs = Tracked(batch), obs # {},
           fs[Target] # None
    PROVE  SeenBy(batch)
<1>1. obs = ObserveExistingFile(fs, Target)
  BY DEF Sees, NoObservation, ObserveCommitTarget
<1>2. Object(fs, Target) \in batch
  BY <1>1 DEF ObserveExistingFile, Tracked
<1>3. /\ Object(fs, Target).kind = "object" /\ Object(fs, Target).id = fs[Target].ino
      /\ Object(fs, Target).state = fs[Target].data
  BY DEF Object
<1>. QED BY <1>2, <1>3 DEF SeenBy

LEMMA CommitLooks ==
    ASSUME WInv, sb' = sb, LateStep, ObserveBatch \/ ObservePost \/ ObserveFailed
    PROVE  WInv'
<1>0. /\ fs' = fs /\ edits' = edits /\ CoordStep("commit")
      /\ HookOK /\ CommitShape
      /\ cm = [pc |-> cm.pc, batch |-> cm.batch, at |-> cm.at, copy |-> cm.copy,
              temp |-> cm.temp, post |-> cm.post]
  BY CommitQuiet, OnlyCommitFacts
     DEF ObserveBatch, ObservePost, ObserveFailed, WInv, HookOK, CommitShape
<1>. SUFFICES HookOK' /\ cm'.pc \notin Hooked
  BY <1>0, CommitMoves
<1>1. CASE ObserveBatch
  <2>1. PICK obs \in Sees(ObserveCommitBatch) :
          cm' = [cm EXCEPT !.pc = IF ValidCommit(Target, obs) THEN "read" ELSE "err",
                           !.batch = obs, !.at = head]
    BY <1>1 DEF ObserveBatch
  <2>. DEFINE l == IF ValidCommit(Target, obs) THEN "read" ELSE "err"
  <2>3. l \in {"read", "err"} /\ (l = "read" => ValidCommit(Target, obs))
    OBVIOUS
  <2>. HIDE DEF l
  <2>0. cm' = [cm EXCEPT !.pc = l, !.batch = obs, !.at = head]
    BY <2>1 DEF l
  <2>2. /\ cm' = [pc |-> cm'.pc, batch |-> cm'.batch, at |-> cm'.at, copy |-> cm'.copy,
                  temp |-> cm'.temp, post |-> cm'.post]
        /\ cm'.pc = l /\ cm'.batch = obs /\ cm'.copy = cm.copy
    BY <1>0, <2>0
  <2>4. cm'.pc \notin Indexed /\ cm'.pc \notin Hooked /\ cm'.pc \notin {"hooks", "recheck", "cas"}
          /\ (cm'.pc \notin {"observe", "err", "dead"} => ValidCommit(Target, obs))
    BY <2>2, <2>3 DEF Indexed, Hooked
  <2>. QED BY <1>0, <2>2, <2>4, BatchFacts DEF HookOK, CommitShape, Tracked
<1>2. CASE ObservePost
  <2>1. /\ cm.pc = "post"
        /\ \E post : \E l \in {"success", "uncertain"} : cm' = [cm EXCEPT !.post = post, !.pc = l]
    BY <1>2 DEF ObservePost
  <2>2. PICK post : \E l \in {"success", "uncertain"} : cm' = [cm EXCEPT !.post = post, !.pc = l]
    BY <2>1
  <2>3. PICK l \in {"success", "uncertain"} : cm' = [cm EXCEPT !.post = post, !.pc = l]
    BY <2>2
  <2>5. /\ cm' = [pc |-> cm'.pc, batch |-> cm'.batch, at |-> cm'.at, copy |-> cm'.copy,
                  temp |-> cm'.temp, post |-> cm'.post]
        /\ cm'.pc = l /\ cm'.batch = cm.batch /\ cm'.copy = cm.copy /\ cm'.temp = cm.temp
    BY <1>0, <2>3
  <2>6. /\ cm'.pc \notin Hooked /\ cm.pc \in Indexed
        /\ cm'.pc \notin {"hooks", "recheck", "cas"}
        /\ cm.pc \notin {"observe", "err", "dead"}
    BY <2>1, <2>5 DEF Indexed, Hooked
  <2>. QED BY <1>0, <2>5, <2>6 DEF HookOK, CommitShape, Tracked
<1>3. CASE ObserveFailed
  <2>1. /\ cm.pc = "failing"
        /\ \E post : \E l \in {"failed_known", "failed_uncertain"} : cm' = [cm EXCEPT !.post = post, !.pc = l]
    BY <1>3 DEF ObserveFailed
  <2>2. PICK post : \E l \in {"failed_known", "failed_uncertain"} : cm' = [cm EXCEPT !.post = post, !.pc = l]
    BY <2>1
  <2>3. PICK l \in {"failed_known", "failed_uncertain"} : cm' = [cm EXCEPT !.post = post, !.pc = l]
    BY <2>2
  <2>5. /\ cm' = [pc |-> cm'.pc, batch |-> cm'.batch, at |-> cm'.at, copy |-> cm'.copy,
                  temp |-> cm'.temp, post |-> cm'.post]
        /\ cm'.pc = l /\ cm'.batch = cm.batch /\ cm'.copy = cm.copy /\ cm'.temp = cm.temp
    BY <1>0, <2>3
  <2>6. /\ cm'.pc \notin Hooked /\ cm'.pc \notin Indexed
        /\ cm'.pc \notin {"hooks", "recheck", "cas"}
        /\ cm.pc \notin {"observe", "err", "dead"}
    BY <2>1, <2>5 DEF Indexed, Hooked
  <2>. QED BY <1>0, <2>5, <2>6 DEF HookOK, CommitShape, Tracked
<1>. QED BY <1>1, <1>2, <1>3

\* The private copy, and the index it is staged in.
LEMMA CommitBuilds ==
    ASSUME WInv, sb' = sb, LateStep, CreatePrivate \/ FromHead \/ RunHooks
    PROVE  WInv'
<1>0. /\ fs' = fs /\ edits' = edits /\ CoordStep("commit")
      /\ HookOK /\ CommitShape
      /\ cm = [pc |-> cm.pc, batch |-> cm.batch, at |-> cm.at, copy |-> cm.copy,
              temp |-> cm.temp, post |-> cm.post]
  BY CommitQuiet, OnlyCommitFacts DEF CreatePrivate, FromHead, RunHooks, WInv, HookOK, CommitShape
<1>1. CASE CreatePrivate
  <2>. DEFINE c == DataAt(Target)
  <2>. HIDE DEF c
  <2>0. cm.pc = "private" /\ cm' = [cm EXCEPT !.pc = "index", !.copy = c]
    BY <1>1 DEF CreatePrivate, c
  <2>1. /\ cm' = [pc |-> cm'.pc, batch |-> cm'.batch, at |-> cm'.at, copy |-> cm'.copy,
                  temp |-> cm'.temp, post |-> cm'.post]
        /\ cm'.pc = "index" /\ cm'.batch = cm.batch /\ cm'.copy = c
    BY <1>0, <2>0
  <2>2. c \in Content \cup {None}
    <3>1. fs[Target] \in Node \cup {None}
      BY TargetAssumption DEF WInv, FilesOK, IsDisk
    <3>. QED BY <3>1 DEF c, DataAt, Present, Node
  <2>3. cm'.pc \notin Hooked /\ cm'.pc \notin Indexed /\ cm'.pc \notin {"hooks", "recheck", "cas"}
          /\ cm.pc \notin {"observe", "err", "dead"}
    BY <2>0, <2>1 DEF Indexed, Hooked
  <2>4. HookOK'
    BY <1>0, <2>1, <2>2, <2>3 DEF HookOK, CommitShape, Tracked
  <2>. QED BY <1>0, <2>3, <2>4, CommitMoves
<1>2. CASE FromHead
  <2>0. PICK t, x : /\ cm.pc = "index" /\ t = [file |-> cm.copy, other |-> x]
                    /\ cm' = [cm EXCEPT !.pc = "hooks", !.temp = t]
    BY <1>2 DEF FromHead
  <2>1. /\ cm' = [pc |-> cm'.pc, batch |-> cm'.batch, at |-> cm'.at, copy |-> cm'.copy,
                  temp |-> cm'.temp, post |-> cm'.post]
        /\ cm'.pc = "hooks" /\ cm'.batch = cm.batch /\ cm'.copy = cm.copy /\ cm'.temp = t
    BY <1>0, <2>0
  <2>2. cm'.temp = [file |-> cm'.temp.file, other |-> cm'.temp.other] /\ cm'.temp.file = cm.copy
    <3>1. t = [file |-> t.file, other |-> t.other] /\ t.file = cm.copy
      BY <2>0
    <3>. QED BY <2>1, <3>1
  <2>3. cm'.pc \notin Hooked /\ cm.pc \notin {"observe", "err", "dead"}
    BY <2>0, <2>1 DEF Hooked
  <2>4. HookOK'
    BY <1>0, <2>1, <2>2, <2>3 DEF HookOK, CommitShape, Tracked
  <2>. QED BY <1>0, <2>3, <2>4, CommitMoves
<1>3. CASE RunHooks /\ CM("failing")
  <2>1. MovesOn(cm.pc, "failing") /\ "failing" \notin Hooked
    <3>1. cm.pc = "hooks"
      BY <1>3 DEF RunHooks
    <3>. QED BY <3>1 DEF MovesOn, Indexed, Staged, Hooked
  <2>. QED BY <1>0, <1>3, <2>1, CommitGoes DEF CommitGoesTo
<1>4. CASE RunHooks /\ ~CM("failing")
  <2>1. PICK after : /\ cm' = [cm EXCEPT !.pc = "recheck", !.temp = after]
                     /\ after = [file |-> after.file, other |-> after.other]
                     /\ after.file \in Content \cup {None}
    BY <1>4, HookedIndex
  <2>2. cm.pc = "hooks"
    BY <1>4 DEF RunHooks
  <2>3. /\ cm' = [pc |-> cm'.pc, batch |-> cm'.batch, at |-> cm'.at, copy |-> cm'.copy,
                  temp |-> cm'.temp, post |-> cm'.post]
        /\ cm'.pc = "recheck" /\ cm'.batch = cm.batch /\ cm'.copy = cm.copy
        /\ cm'.temp = after
    BY <1>0, <2>1
  <2>4. /\ cm'.temp = [file |-> cm'.temp.file, other |-> cm'.temp.other]
        /\ cm'.temp.file \in Content \cup {None}
    BY <2>1, <2>3
  <2>5. cm'.pc \notin Hooked /\ cm.pc \notin {"observe", "err", "dead"}
    BY <2>2, <2>3 DEF Hooked
  <2>6. HookOK'
    BY <1>0, <2>3, <2>4, <2>5 DEF HookOK, CommitShape, Tracked
  <2>. QED BY <1>0, <2>5, <2>6, CommitMoves
<1>. QED BY <1>1, <1>2, <1>3, <1>4

\* apply_hook_changes up to its permit.
LEMMA HookLooks ==
    ASSUME WInv, sb' = sb, LateStep, HookTargetUnchanged
    PROVE  WInv'
<1>0. /\ fs' = fs /\ edits' = edits /\ CoordStep("commit") /\ late' = late
      /\ HookOK /\ CommitShape
      /\ cm = [pc |-> cm.pc, batch |-> cm.batch, at |-> cm.at, copy |-> cm.copy,
               temp |-> cm.temp, post |-> cm.post]
  BY CommitQuiet, OnlyCommitFacts, LateFacts
     DEF HookTargetUnchanged, WInv, HookOK, CommitShape
<1>1. PICK obs \in Sees(ObserveCommitTarget) :
        cm' = [cm EXCEPT !.post = Tracked(cm.batch),
                         !.pc = IF cm.temp.file = cm.copy \/ obs # Tracked(cm.batch)
                                THEN "ok" ELSE "hookread"]
  BY DEF HookTargetUnchanged
<1>. DEFINE l == IF cm.temp.file = cm.copy \/ obs # Tracked(cm.batch) THEN "ok" ELSE "hookread"
<1>2. l \in {"ok", "hookread"} /\ (l = "hookread" => obs = Tracked(cm.batch))
        /\ cm' = [cm EXCEPT !.post = Tracked(cm.batch), !.pc = l]
  BY <1>1
<1>. HIDE DEF l
<1>3. /\ cm' = [pc |-> cm'.pc, batch |-> cm'.batch, at |-> cm'.at, copy |-> cm'.copy,
                temp |-> cm'.temp, post |-> cm'.post]
      /\ cm'.pc = l /\ cm'.batch = cm.batch /\ cm'.copy = cm.copy /\ cm'.temp = cm.temp
      /\ cm'.post = Tracked(cm.batch)
  BY <1>0, <1>2
<1>4. cm.pc = "apply"
  BY DEF HookTargetUnchanged
<1>5. /\ l \notin {"hooks", "recheck", "cas"} /\ l \notin {"observe", "err", "dead"}
      /\ l # "hookwrite" /\ l # "hookprepare" /\ (l = "ok" => l \notin Hooked)
      /\ cm.pc \in Indexed /\ cm.pc \notin {"observe", "err", "dead"}
  BY <1>2, <1>4 DEF Indexed, Hooked
<1>6. HookOK'
  BY <1>0, <1>3, <1>5 DEF HookOK, CommitShape, Tracked
<1>7. HookHolds'
  BY <1>3, <1>5 DEF HookHolds
<1>8. HookLooked'
  <2>. SUFFICES ASSUME l = "hookread", fs[Target] # None PROVE SeenBy(cm.batch)'
    BY <1>0, <1>2, <1>3, <1>5 DEF HookLooked, SeenBy
  <2>1. Tracked(cm.batch) # {}
    BY <1>0, <1>5 DEF HookOK
  <2>2. SeenBy(cm.batch)
    BY <1>2, <2>1, TargetSeen
  <2>. QED BY <1>0, <1>3, <2>2 DEF SeenBy
<1>. QED BY <1>0, <1>6, <1>7, <1>8, CommitStaysStep DEF CommitStays

LEMMA HookAsks ==
    ASSUME WInv, sb' = sb, LateStep, RecordHookRead \/ PrepareHook
    PROVE  WInv'
<1>0. /\ CoordShape /\ lease["sandbox"] \cap lease["commit"] = {} /\ HookOK
      /\ "commit" \in Task /\ "hook" \in Attempt /\ Owner["hook"] = "commit"
  BY OwnerFacts DEF WInv, Leases
<1>1. CASE RecordHookRead
  <2>1. /\ fs' = fs /\ edits' = edits /\ lease' = lease /\ outcome' = outcome
        /\ known' = Recorded("commit", cm.post) /\ CM("hookprepare") /\ cm.pc = "hookread"
    BY <1>1 DEF RecordHookRead, files
  <2>2. CoordStep("commit") /\ late' = late
    BY <1>0, <2>1, RecordedCoord, LateFacts
  <2>3. MovesOn(cm.pc, "hookprepare")
    BY <2>1 DEF MovesOn, Indexed, Staged, Hooked
  <2>4. HookOK' /\ cm'.pc = "hookprepare" /\ cm'.batch = cm.batch
    BY <1>0, <2>1, <2>3, CommitLabel
  <2>5. HookHolds'
    BY <2>4 DEF HookHolds
  <2>6. HookLooked'
    <3>1. "commit" \notin late /\ fs[Target] # None => SeenBy(cm.batch)
      BY <2>1 DEF WInv, HookLooked
    <3>. QED BY <2>1, <2>2, <2>4, <3>1 DEF HookLooked, SeenBy
  <2>. QED BY <2>1, <2>2, <2>4, <2>5, <2>6, CommitStaysStep DEF CommitStays
<1>2. CASE PrepareHook /\ CM("ok") /\ OnlyCommit
  <2>1. cm.pc = "hookprepare"
    BY <1>2 DEF PrepareHook
  <2>2. MovesOn(cm.pc, "ok") /\ "ok" \notin Hooked
    BY <2>1 DEF MovesOn, Indexed, Staged, Hooked
  <2>3. CommitGoesTo("ok")
    BY <1>2, <2>2, CommitQuiet, OnlyCommitFacts DEF CommitGoesTo
  <2>. QED BY <2>3, CommitGoes
<1>3. CASE PrepareHook /\ Ready("hook", {Target}, cm.post) /\ CM("hookwrite")
  <2>1. cm.pc = "hookprepare"
    BY <1>3 DEF PrepareHook
  <2>2. Permits("commit", "hook", {Target}, cm.post)
    BY <1>0, <1>3, ReadyCoord
  <2>3. /\ fs' = fs /\ edits' = edits /\ CoordStep("commit") /\ outcome'["hook"] = "executing"
        /\ Target \in lease'["commit"] /\ cm.post \subseteq known["commit"]
    BY <2>2 DEF Permits
  <2>4. late' = late
    BY <2>3, LateFacts
  <2>5. MovesOn(cm.pc, "hookwrite")
    BY <2>1 DEF MovesOn, Indexed, Staged, Hooked
  <2>6. HookOK' /\ cm'.pc = "hookwrite" /\ cm'.batch = cm.batch
    BY <1>0, <1>3, <2>5, CommitLabel
  <2>7. HookHolds'
    BY <2>3 DEF HookHolds
  <2>8. HookLooked'
    <3>1. "commit" \notin late /\ fs[Target] # None => SeenBy(cm.batch)
      BY <2>1, <2>3 DEF WInv, HookLooked
    <3>. QED BY <2>3, <2>4, <2>6, <3>1 DEF HookLooked, SeenBy
  <2>. QED BY <2>3, <2>4, <2>6, <2>7, <2>8, CommitStaysStep DEF CommitStays
<1>. QED BY <1>1, <1>2, <1>3 DEF PrepareHook

-----------------------------------------------------------------------------
(* Writes in place *)

\* A write in place gives the target's file no second name.
LEMMA WriteAlone ==
    ASSUME IsDisk(fs), NEW p \in Path, NEW f, WriteOK(p, f)
    PROVE  /\ Alone(fs) => Alone(f)
           /\ OldFiles(fs) => OldFiles(f)
           /\ \A q \in Path : fs[q] # None /\ f[q] # fs[q] => fs[p] # None /\ fs[q] = fs[p]
<1>0. Target \in Path
  BY TargetAssumption
<1>1. ASSUME Alone(fs), f[Target] # None
      PROVE  /\ f[Target].kind = "file" /\ f[Target].ino \in Inos
             /\ \A q \in Path : q # Target /\ f[q] # None => f[q].ino # f[Target].ino
  <2>1. CASE fs[Target] # None
    <3>1. /\ fs[Target].kind = "file" /\ fs[Target].ino \in Inos /\ f[Target].ino = fs[Target].ino
          /\ \A q \in Path : q # Target /\ fs[q] # None => fs[q].ino # fs[Target].ino
      BY <1>0, <1>1, <2>1 DEF Alone, WriteOK
    <3>2. f[Target].kind = "file"
      <4>1. CASE f[Target] = fs[Target]
        BY <3>1, <4>1
      <4>2. CASE f[Target] # fs[Target]
        <5>1. Target = p
          BY <1>0, <3>1, <4>2 DEF WriteOK
        <5>. QED BY <5>1 DEF WriteOK
      <4>. QED BY <4>1, <4>2
    <3>3. ASSUME NEW q \in Path, q # Target, f[q] # None PROVE f[q].ino # fs[Target].ino
      <4>1. CASE fs[q] # None
        BY <3>1, <3>3, <4>1 DEF WriteOK
      <4>2. CASE fs[q] = None
        <5>1. q = p
          BY <3>3, <4>2 DEF WriteOK
        <5>. QED BY <1>0, <2>1, <4>2, <5>1 DEF WriteOK
      <4>. QED BY <4>1, <4>2
    <3>. QED BY <3>1, <3>2, <3>3
  <2>2. CASE fs[Target] = None
    <3>1. p = Target
      BY <1>0, <1>1, <2>2 DEF WriteOK
    <3>2. \A q \in Path : q # Target /\ f[q] # None => fs[q] # None
      BY <3>1 DEF WriteOK
    <3>. QED BY <1>0, <2>2, <3>1, <3>2 DEF WriteOK
  <2>. QED BY <2>1, <2>2
<1>2. ASSUME OldFiles(fs), NEW q \in Path, f[q] # None PROVE f[q].ino \in Inos
  <2>1. CASE fs[q] # None
    BY <1>2, <2>1 DEF OldFiles, WriteOK
  <2>2. CASE fs[q] = None
    BY <1>2, <2>2 DEF WriteOK
  <2>. QED BY <2>1, <2>2
<1>3. ASSUME NEW q \in Path, fs[q] # None, f[q] # fs[q]
      PROVE  fs[p] # None /\ fs[q] = fs[p]
  BY <1>3 DEF WriteOK, IsDisk
<1>. QED BY <1>1, <1>2, <1>3 DEF Alone, OldFiles

\* The sandbox's observations do not see a write to a target that is not its own.
LEMMA WriteUnseen ==
    ASSUME IsDisk(fs), Alone(fs), NEW f, WriteOK(Target, f), NEW op \in Operation,
           Target \notin Paths(op)
    PROVE  ObserveOperation(f, op) = ObserveOperation(fs, op)
<1>0. Target \in Path /\ Alone(f)
  BY TargetAssumption, WriteAlone
<1>1. \A q \in Path : q # Target => f[q] = fs[q]
  BY <1>0 DEF WriteOK, Alone
<1>2. ~Present(fs, Target, "dir") /\ ~Present(f, Target, "dir")
  <2>1. \A n : n.kind = "file" => n.kind # "dir"
    OBVIOUS
  <2>. QED BY <1>0, <2>1 DEF Present, Alone
<1>3. ASSUME NEW q \in Path, q # Target, fs[q] # None
      PROVE  Links(f, fs[q].ino) = Links(fs, fs[q].ino)
  <2>1. f[q] = fs[q] /\ f[q] # None
    BY <1>1, <1>3
  <2>2. /\ fs[Target] # None => fs[Target].ino # fs[q].ino
        /\ f[Target] # None => f[Target].ino # fs[q].ino
    BY <1>0, <1>3, <2>1 DEF Alone
  <2>3. {p \in Path : f[p] # None /\ f[p].ino = fs[q].ino}
          = {p \in Path : fs[p] # None /\ fs[p].ino = fs[q].ino}
    BY <1>1, <2>2
  <2>. QED BY <2>3 DEF Links
<1>. QED BY <1>1, <1>2, <1>3, SameOperation

LEMMA WriteHookStep ==
    ASSUME WInv, sb' = sb, LateStep, WriteHookChange
    PROVE  WInv'
<1>0. /\ edits' = edits /\ known' = known /\ lease' = lease /\ outcome' = outcome
      /\ cm.pc = "hookwrite" /\ HookOK
  BY DEF WriteHookChange, WInv
<1>1. /\ cm.pc \in Indexed /\ MovesOn(cm.pc, "hookwritten") /\ MovesOn(cm.pc, "hookunwritten")
      /\ "hookwritten" \notin Hooked /\ "hookunwritten" \notin Hooked
  BY <1>0 DEF MovesOn, Indexed, Staged, Hooked
<1>2. CASE fs' = fs /\ CM("hookunwritten")
  <2>1. CommitGoesTo("hookunwritten")
    BY <1>0, <1>1, <1>2, CommitQuiet DEF CommitGoesTo
  <2>. QED BY <2>1, CommitGoes
<1>3. ASSUME NEW c \in Content \cup {None}, fs' = Written(Target, c),
             CM("hookwritten") \/ CM("hookunwritten")
      PROVE  WInv'
  <2>1. HookOK' /\ cm'.pc \in {"hookwritten", "hookunwritten"}
    BY <1>0, <1>1, <1>3, CommitLabel
  <2>2. IsDisk(fs) /\ edits \in Nat /\ SandboxOK /\ Target \in Path
    BY TargetAssumption DEF WInv, FilesOK
  <2>3. WriteOK(Target, fs')
    BY <1>3, <2>2, WrittenFacts
  <2>4. IsDisk(fs') /\ (Alone(fs) => Alone(fs')) /\ (OldFiles(fs) => OldFiles(fs'))
    BY <2>2, <2>3, WriteAlone DEF WriteOK
  <2>5. FilesOK'
    BY <1>0, <2>4 DEF WInv, FilesOK
  <2>6. sb.pc \in Permitted => Target \notin Paths(sb.op) /\ Alone(fs)
    BY <1>0, TargetIsElsewhere DEF WInv, FilesOK
  <2>7. Reports'
    <3>1. sb.pc \in Permitted => ObserveOperation(fs', sb.op) = ObserveOperation(fs, sb.op)
      BY <2>2, <2>3, <2>6, WriteUnseen DEF SandboxOK
    <3>. QED BY <1>0, <3>1 DEF WInv, Reports
  <2>8. Looked'
    <3>. SUFFICES ASSUME sb.pc = "apply", "sandbox" \notin late, NEW q \in Replaced(sb.op),
                         fs'[q] # None
                  PROVE  Describes(sb.pre, q)'
      BY LateFacts DEF Looked
    <3>1. sb.pc \in Permitted
      BY DEF Permitted
    <3>2. q \in Paths(sb.op) /\ q \in Path /\ Target \notin Paths(sb.op) /\ Alone(fs)
      BY <2>2, <2>6, <3>1, ReplacedFacts DEF SandboxOK
    <3>3. fs'[q] = fs[q]
      BY <2>2, <2>3, <3>2 DEF WriteOK, Alone
    <3>4. Describes(sb.pre, q)
      BY <3>3 DEF WInv, Looked
    <3>. QED BY <3>3, <3>4 DEF Describes, Present
  <2>9. CoordShape' /\ Leases' /\ HookLooked' /\ SandboxOK'
    <3>1. HookHolds' /\ HookLooked'
      BY <2>1 DEF HookHolds, HookLooked
    <3>2. SandboxHolds' /\ CoordShape' /\ SandboxOK'
      BY <1>0 DEF WInv, Leases, SandboxHolds, CoordShape, SandboxOK, SandboxShape
    <3>. QED BY <1>0, <3>1, <3>2 DEF WInv, Leases
  <2>. QED BY <2>1, <2>5, <2>7, <2>8, <2>9 DEF WInv
<1>4. cm.temp.file \in Content \cup {None}
  BY <1>0, <1>1 DEF HookOK
<1>. QED BY <1>2, <1>3, <1>4 DEF WriteHookChange

LEMMA CommitStepInv ==
    ASSUME WInv, sb' = sb, LateStep, CommitStep
    PROVE  WInv'
BY CommitAsks, CommitLabels, CommitLooks, CommitBuilds, HookLooks, HookAsks,
   WriteHookStep DEF CommitStep

-----------------------------------------------------------------------------
(* Everybody's steps *)

\* Only apply changes a file.
LEMMA SandboxLeavesFiles ==
    ASSUME SandboxStep, ~Apply
    PROVE  fs' = fs
<1>1. OnlySandbox => fs' = fs
  BY DEF OnlySandbox, shared, files
<1>2. \A a, paths, obs : Ready(a, paths, obs) => fs' = fs
  BY DEF Ready, files
<1>3. \A a, status, start, post : Complete(a, status, start, post) => fs' = fs
  BY DEF Complete, files
<1>4. CASE ObservePre \/ RecordRead \/ Prepare \/ ObserveAgain \/ OfferTimesOut
  BY <1>1, <1>2, <1>4 DEF ObservePre, RecordRead, Prepare, ObserveAgain, OfferTimesOut, files
<1>5. CASE Populate \/ RunCommand \/ FinalLook \/ ValidatePost \/ SandboxDies
  BY <1>1, <1>5 DEF Populate, RunCommand, FinalLook, ValidatePost, SandboxDies
<1>6. CASE ReportSuccess \/ ReportChildFailure \/ ReportError \/ SendComplete
  BY <1>1, <1>3, <1>6 DEF ReportSuccess, ReportChildFailure, ReportError, SendComplete
<1>. QED BY <1>4, <1>5, <1>6 DEF SandboxStep

LEMMA SandboxStepInv ==
    ASSUME WInv, cm' = cm, LateStep, SandboxStep
    PROVE  WInv'
<1>1. CASE Apply
  BY <1>1, ApplyStep
<1>2. CASE ~Apply
  <2>1. late' = late
    BY <1>2, SandboxLeavesFiles, LateFacts
  <2>2. ObservePre => OnlySandbox
    BY DEF ObservePre
  <2>. QED BY <1>2, <2>1, <2>2, SandboxObserves, SandboxAsks, SandboxCompletes,
              SandboxLooks, SandboxReports DEF SandboxStep
<1>. QED BY <1>1, <1>2

\* An edit made beside the protocol, which the wrappers' next look would see.
LEMMA EditStep ==
    ASSUME WInv, LateStep, cm' = cm, known' = known, lease' = lease, outcome' = outcome,
           edits' = edits + 1, NEW p \in Path, EditedFile(p),
           sb' = [sb EXCEPT !.did = IF @ = "yes" /\ ObserveOperation(fs', sb.op) = sb.pre
                                    THEN "undone" ELSE @]
    PROVE  WInv'
<1>0. IsDisk(fs) /\ edits \in Nat /\ SandboxOK /\ SandboxShape
  BY DEF WInv, FilesOK, SandboxOK
<1>1. edits' \in Nat /\ edits' # edits
  BY SMTT(40), <1>0
<1>. DEFINE d == IF sb.did = "yes" /\ ObserveOperation(fs', sb.op) = sb.pre THEN "undone"
                 ELSE sb.did
<1>2. /\ d = "yes" => sb.did = "yes" /\ ObserveOperation(fs', sb.op) # sb.pre
      /\ d = "no" <=> sb.did = "no"
      /\ sb' = [sb EXCEPT !.did = d]
  OBVIOUS
<1>. HIDE DEF d
<1>3. /\ SandboxShape' /\ sb'.pc = sb.pc /\ sb'.op = sb.op /\ sb'.pre = sb.pre
      /\ sb'.data = sb.data /\ sb'.did = d /\ sb'.blind = sb.blind
  BY <1>0, <1>2 DEF SandboxShape
<1>4. IsDisk(fs') /\ (Alone(fs) => Alone(fs')) /\ (OldFiles(fs) => OldFiles(fs'))
  <2>1. CASE \E c \in Content : fs' = Written(p, c)
    <3>0. PICK c \in Content \cup {None} : fs' = Written(p, c)
      BY <2>1
    <3>1. WriteOK(p, fs')
      BY <1>0, <3>0, WrittenFacts
    <3>. QED BY <1>0, <3>1, WriteAlone DEF WriteOK
  <2>2. CASE fs' = [fs EXCEPT ![p] = None]
    <3>0. Put(fs, p, None, fs')
      BY <2>2 DEF Put
    <3>1. IsDisk(fs') /\ fs'[p] = None /\ \A q \in Path : q # p => fs'[q] = fs[q]
      BY SMTT(40), <1>0, <3>0, RemoveFacts
    <3>. QED BY <3>1, TargetAssumption DEF Alone, OldFiles
  <2>. QED BY <2>1, <2>2 DEF EditedFile
<1>5. FilesOK'
  BY <1>1, <1>2, <1>3, <1>4 DEF WInv, FilesOK
<1>6. SandboxOK'
  BY <1>0, <1>2, <1>3 DEF SandboxOK
<1>7. Reports'
  BY <1>2, <1>3 DEF WInv, Reports
<1>8. CoordShape' /\ Leases' /\ HookOK'
  BY <1>3 DEF WInv, CoordShape, Leases, SandboxHolds, HookHolds, HookOK, CommitShape
<1>9. Looked'
  <2>. SUFFICES ASSUME sb.pc = "apply", "sandbox" \notin late', NEW q \in Replaced(sb.op),
                       fs'[q] # None
                PROVE  Describes(sb.pre, q)'
    BY <1>3 DEF Looked
  <2>1. q \in Paths(sb.op)
    BY <1>0, ReplacedFacts DEF SandboxOK
  <2>2. fs'[q] = fs[q] /\ "sandbox" \notin late
    BY <1>1, <2>1, LateFacts
  <2>3. Describes(sb.pre, q)
    BY <2>2 DEF WInv, Looked
  <2>. QED BY <1>3, <2>2, <2>3 DEF Describes, Present
<1>10. HookLooked'
  <2>. SUFFICES ASSUME \/ cm.pc \in {"hookread", "hookwrite"}
                       \/ cm.pc = "hookprepare" /\ cm.post \subseteq known["commit"],
                       "commit" \notin late', fs'[Target] # None
                PROVE  SeenBy(cm.batch)'
    BY DEF HookLooked
  <2>1. cm.pc \in Hooked
    BY DEF Hooked
  <2>2. fs'[Target] = fs[Target] /\ "commit" \notin late
    BY <1>1, <2>1, LateFacts
  <2>3. SeenBy(cm.batch)
    BY <2>2 DEF WInv, HookLooked
  <2>. QED BY <2>2, <2>3 DEF SeenBy
<1>. QED BY <1>5, <1>6, <1>7, <1>8, <1>9, <1>10 DEF WInv

\* Steps that neither a wrapper nor an edit makes.
LEMMA NobodysStep ==
    ASSUME WInv, cm' = cm, sb' = sb, fs' = fs, late' = late, edits' \in Nat, known' = known,
           outcome' = outcome, CoordShape', Leases'
    PROVE  WInv'
<1>1. FilesOK' /\ SandboxOK' /\ Reports'
  BY DEF WInv, FilesOK, SandboxOK, SandboxShape, Reports
<1>2. Looked' /\ HookOK'
  BY SMTT(40) DEF WInv, Looked, Describes, HookOK, CommitShape
<1>3. HookLooked'
  BY DEF WInv, HookLooked, SeenBy
<1>. QED BY <1>1, <1>2, <1>3 DEF WInv

LEMMA QuietLeases ==
    ASSUME WInv, cm' = cm, sb' = sb, known' = known, lease' = lease, outcome' = outcome
    PROVE  CoordShape' /\ Leases'
BY DEF WInv, CoordShape, Leases, SandboxHolds, HookHolds

\* A lease that ends has no write under it.
LEMMA ReleaseStep ==
    ASSUME WInv, cm' = cm, sb' = sb, NEW t \in Task, Releases(t)
    PROVE  CoordShape' /\ Leases'
<1>0. /\ known' = known /\ outcome' = outcome /\ lease' = [lease EXCEPT ![t] = {}]
      /\ \A a \in Attempt : Owner[a] = t => outcome[a] # "executing"
      /\ CoordShape /\ Leases
  BY DEF Releases, Executing, WInv
<1>1. lease = [u \in Task |-> lease[u]]
  BY <1>0 DEF CoordShape
<1>2. /\ lease' = [u \in Task |-> lease'[u]]
      /\ lease'[t] = {} /\ \A u \in Task : u # t => lease'[u] = lease[u]
  BY <1>0, <1>1
<1>3. /\ "sandbox" \in Task /\ "commit" \in Task
      /\ lease'["sandbox"] \subseteq lease["sandbox"] /\ lease'["commit"] \subseteq lease["commit"]
  BY <1>2, OwnerFacts
<1>4. t # "sandbox" => lease'["sandbox"] = lease["sandbox"]
  BY <1>2, <1>3
<1>5. t # "commit" => lease'["commit"] = lease["commit"]
  BY <1>2, <1>3
<1>6. SandboxHolds'
  BY <1>0, <1>4, OwnerFacts DEF Leases, SandboxHolds
<1>7. HookHolds'
  BY <1>0, <1>5, OwnerFacts DEF Leases, HookHolds
<1>8. lease'["sandbox"] \cap lease'["commit"] = {}
  BY <1>0, <1>3 DEF Leases
<1>. QED BY <1>0, <1>2, <1>6, <1>7, <1>8 DEF CoordShape, Leases

LEMMA WrappersNext == WInv /\ [Next]_vars => WInv'
<1>. SUFFICES ASSUME WInv, [Next]_vars PROVE WInv'
  OBVIOUS
<1>0. edits \in Nat
  BY DEF WInv, FilesOK
<1>1. CASE SandboxStep /\ cm' = cm /\ LateStep
  BY <1>1, SandboxStepInv
<1>2. CASE CommitStep /\ sb' = sb /\ LateStep
  BY <1>2, CommitStepInv
<1>3. CASE Outside /\ LateStep
  <2>1. cm' = cm /\ known' = known /\ lease' = lease /\ outcome' = outcome /\ edits' = edits + 1
    BY <1>3 DEF Outside
  <2>2. CASE EditedGit /\ sb' = sb
    <3>1. fs' = fs /\ late' = late /\ edits' \in Nat
      <4>1. fs' = fs
        BY <2>2 DEF EditedGit
      <4>2. edits' \in Nat
        BY SMTT(40), <1>0, <2>1
      <4>. QED BY <1>3, <4>1, <4>2, LateFacts
    <3>. QED BY <2>1, <2>2, <3>1, QuietLeases, NobodysStep
  <2>3. CASE \E p \in Path :
               /\ EditedFile(p)
               /\ sb' = [sb EXCEPT !.did = IF @ = "yes" /\ ObserveOperation(fs', sb.op) = sb.pre
                                           THEN "undone" ELSE @]
    BY <1>3, <2>1, <2>3, EditStep
  <2>. QED BY <1>3, <2>2, <2>3 DEF Outside
<1>4. CASE Coordinator /\ LateStep
  <2>1. PICK t \in Task : Drains(t) \/ Releases(t)
    BY <1>4 DEF Coordinator
  <2>2. sb' = sb /\ cm' = cm
    BY <1>4 DEF Coordinator
  <2>3. fs' = fs /\ edits' = edits /\ known' = known /\ outcome' = outcome
    BY <2>1 DEF Drains, Releases, files
  <2>4. Drains(t) => lease' = lease
    BY DEF Drains
  <2>5. CoordShape' /\ Leases'
    BY <2>1, <2>2, <2>3, <2>4, QuietLeases, ReleaseStep
  <2>6. late' = late
    BY <1>4, <2>3, LateFacts
  <2>. QED BY <1>0, <2>2, <2>3, <2>5, <2>6, NobodysStep
<1>5. CASE UNCHANGED vars
  <2>1. /\ fs' = fs /\ edits' = edits /\ known' = known /\ lease' = lease /\ outcome' = outcome
        /\ sb' = sb /\ cm' = cm /\ late' = late
    BY <1>5 DEF vars, shared, files
  <2>. QED BY <1>0, <2>1, QuietLeases, NobodysStep
<1>. QED BY <1>1, <1>2, <1>3, <1>4, <1>5 DEF Next, LateStep

\* There are at least two inodes: one path and one more.
LEMMA FirstInos == 1 \in Inos /\ 2 \in Inos
<1>1. Cardinality(Path) \in Nat /\ 1 \in 1 .. Cardinality(Path) + 1
  BY SMTT(40), NodeAssumption
<1>2. Cardinality(Path) # 0
  <2>. SUFFICES ASSUME Cardinality(Path) = 0 PROVE FALSE
    OBVIOUS
  <2>. DEFINE used == [p \in Path |-> 1]
  <2>1. used \in [Path -> 1 .. Cardinality(Path) + 1]
    BY <1>1
  <2>2. PICK i \in 1 .. Cardinality(Path) + 1 : \A p \in Path : used[p] # i
    BY <2>1, NodeAssumption
  <2>3. i = 1
    BY SMTT(40), <2>2
  <2>. QED BY <2>2, <2>3, TargetAssumption
<1>. QED BY SMTT(40), <1>1, <1>2 DEF Inos

LEMMA WrappersInit == Init => WInv
<1>. SUFFICES ASSUME Init PROVE WInv
  OBVIOUS
<1>1. PICK op \in Operation :
        sb = [pc |-> "start", op |-> op, pre |-> {}, current |-> {}, data |-> None,
              did |-> "no", post |-> {}, blind |-> FALSE]
  BY DEF Init, SandboxInit
<1>2. /\ sb.pc = "start" /\ sb.op = op /\ sb.pre = {} /\ sb.data = None /\ sb.did = "no"
      /\ SandboxShape
  BY <1>1 DEF SandboxShape
<1>3. /\ cm = [pc |-> "observe", batch |-> {}, at |-> <<>>, copy |-> None, temp |-> None,
               post |-> {}]
      /\ late = {} /\ edits = 0 /\ known = [t \in Task |-> {}] /\ lease = [t \in Task |-> {}]
      /\ outcome = [a \in Attempt |-> "none"]
  BY DEF Init, CommitInit, WorkspaceInit
<1>4. /\ cm.pc = "observe" /\ cm.batch = {} /\ cm.copy = None
      /\ cm = [pc |-> cm.pc, batch |-> cm.batch, at |-> cm.at, copy |-> cm.copy,
               temp |-> cm.temp, post |-> cm.post]
  BY <1>3
<1>5. PICK new \in Content :
        fs = [p \in Path |-> CASE p = Target -> File(1, new)
                               [] Below(p) # {} -> Dir(2)
                               [] OTHER -> None]
  BY DEF Init, WorkspaceInit
<1>6. /\ File(1, new) \in Node /\ File(1, new).kind = "file" /\ File(1, new).ino = 1
      /\ Dir(2) \in Node /\ Dir(2).ino = 2
  BY SMTT(40), NodeFacts
<1>. DEFINE F == File(1, new)
            D == Dir(2)
<1>7. /\ fs \in [Path -> {F, D, None}] /\ fs[Target] = F
      /\ \A p \in Path : p # Target => fs[p] \in {D, None}
  BY <1>5, TargetAssumption
<1>. HIDE DEF F, D
<1>8. F \in Node /\ F.kind = "file" /\ F.ino = 1 /\ D \in Node /\ D.ino = 2 /\ 1 # 2
  BY SMTT(40), <1>6 DEF F, D
<1>9. IsDisk(fs)
  <2>1. fs \in [Path -> Node \cup {None}]
    BY <1>7, <1>8
  <2>2. \A n, m \in {F, D, None} : n # None /\ m # None /\ n.ino = m.ino => n = m
    BY <1>8
  <2>. QED BY <1>7, <2>1, <2>2 DEF IsDisk
<1>10. OldFiles(fs) /\ Alone(fs)
  <2>1. \A p \in Path : fs[p] # None => fs[p].ino \in {1, 2}
    BY <1>7, <1>8
  <2>2. \A p \in Path : p # Target /\ fs[p] # None => fs[p].ino = 2
    BY <1>7, <1>8
  <2>3. OldFiles(fs)
    BY <2>1, FirstInos DEF OldFiles
  <2>. QED BY <1>7, <1>8, <2>2, <2>3, FirstInos DEF Alone
<1>11. FilesOK
  <2>1. edits \in Nat
    BY <1>3
  <2>. QED BY <1>9, <1>10, <2>1 DEF FilesOK
<1>12. SandboxOK
  BY <1>2 DEF SandboxOK, Unapplied, AppliedAt
<1>13. /\ CoordShape /\ lease["sandbox"] \cap lease["commit"] = {}
       /\ outcome["sandbox"] = "none"
  BY <1>3 DEF CoordShape, Verdict, Task, Attempt
<1>14. Reports
  BY <1>2, <1>13 DEF Reports, Permitted
<1>15. Leases /\ Looked
  BY <1>2, <1>4, <1>13 DEF Leases, SandboxHolds, HookHolds, Looked, Permitted
<1>16. HookOK /\ HookLooked
  BY <1>4 DEF HookOK, CommitShape, HookLooked, Indexed, Hooked
<1>. QED BY <1>11, <1>12, <1>13, <1>14, <1>15, <1>16 DEF WInv

-----------------------------------------------------------------------------

\* The wrappers' changes are to what they have seen.
LEMMA EditsAreSeen ==
    WInv /\ [Next]_vars =>
        \A p \in Path : fs[p] # None /\ fs'[p] # fs[p] =>
          /\ sb'.pc # sb.pc /\ "sandbox" \notin late => Describes(sb.pre, p)
          /\ cm'.pc # cm.pc /\ "commit" \notin late => Describes(cm.batch, p)
<1>. SUFFICES ASSUME WInv, [Next]_vars, NEW p \in Path, fs[p] # None, fs'[p] # fs[p]
              PROVE  /\ sb'.pc # sb.pc /\ "sandbox" \notin late => Describes(sb.pre, p)
                     /\ cm'.pc # cm.pc /\ "commit" \notin late => Describes(cm.batch, p)
  OBVIOUS
<1>0. IsDisk(fs) /\ SandboxOK /\ SandboxShape /\ sb.op \in Operation
  BY DEF WInv, FilesOK, SandboxOK
<1>1. CASE SandboxStep /\ cm' = cm
  <2>1. Apply
    BY <1>1, SandboxLeavesFiles
  <2>2. /\ sb.pc = "apply" /\ sb.pc \in Unapplied
        /\ \/ fs' = Applied(sb.op, sb.data)
           \/ fs' = Lost(sb.op) /\ sb.op.op = "write_directory"
    <3>1. sb.pc = "apply" /\ sb.pc \in Unapplied
      BY <2>1 DEF Apply, Unapplied
    <3>2. fs' # fs
      OBVIOUS
    <3>3. \/ fs' = Applied(sb.op, sb.data)
          \/ fs' = Lost(sb.op) /\ sb.op.op = "write_directory"
          \/ fs' = fs
      BY <2>1 DEF Apply
    <3>. QED BY <3>1, <3>2, <3>3
  <2>3. /\ OldFiles(fs) /\ Alone(fs) /\ sb.data \in Content \cup {None} /\ sb.pre # {}
    BY <1>0, <2>2 DEF WInv, FilesOK, SandboxOK
  <2>4. ApplyOK(sb.op, fs')
    <3>1. CASE fs' = Applied(sb.op, sb.data)
      BY SMTT(40), <1>0, <2>3, <3>1, AppliedFacts DEF OldFiles
    <3>2. CASE fs' = Lost(sb.op) /\ sb.op.op = "write_directory"
      BY <1>0, <2>3, <3>2, LostFacts
    <3>. QED BY <2>2, <3>1, <3>2
  <2>5. p \in Replaced(sb.op)
    BY <2>4 DEF ApplyOK
  <2>. QED BY <1>1, <2>2, <2>5 DEF WInv, Looked
<1>2. CASE CommitStep /\ sb' = sb
  <2>1. WriteHookChange
    <3>1. OnlyCommit => fs' = fs
      BY OnlyCommitFacts
    <3>2. \A a, paths, obs : Ready(a, paths, obs) => fs' = fs
      BY DEF Ready, files
    <3>3. \A a, status, start, post : Complete(a, status, start, post) => fs' = fs
      BY DEF Complete, files
    <3>4. ~(ObserveBatch \/ RecordBatchRead \/ PrepareCommit \/ TakeOffer)
      BY <3>1, <3>2 DEF ObserveBatch, RecordBatchRead, PrepareCommit, TakeOffer, files
    <3>5. ~(\/ EnsureBatchUnchanged("ensure", "private") \/ CreatePrivate \/ FromHead \/ RunHooks
            \/ EnsureBatchUnchanged("recheck", "cas"))
      BY <3>1 DEF EnsureBatchUnchanged, CreatePrivate, FromHead, RunHooks
    <3>6. ~(UpdateHeadCas \/ SynchronizePrimaryIndex \/ ObservePost \/ ObserveFailed)
      BY <3>1 DEF UpdateHeadCas, SynchronizePrimaryIndex, ObservePost, ObserveFailed
    <3>7. ~(\/ CompleteCommit \/ HookTargetUnchanged \/ RecordHookRead \/ PrepareHook
            \/ CompleteHook \/ CommitDies)
      BY <3>1, <3>2, <3>3 DEF CompleteCommit, HookTargetUnchanged, RecordHookRead,
         PrepareHook, CompleteHook, CommitDies, files
    <3>. QED BY <1>2, <3>4, <3>5, <3>6, <3>7 DEF CommitStep
  <2>2. cm.pc = "hookwrite"
    BY <2>1 DEF WriteHookChange
  <2>3. PICK c \in Content \cup {None} : fs' = Written(Target, c) /\ Target \in Path
    <3>1. cm.temp.file \in Content \cup {None}
      BY <2>2 DEF WInv, HookOK, Indexed
    <3>. QED BY <2>1, <3>1, TargetAssumption DEF WriteHookChange
  <2>4. WriteOK(Target, fs')
    BY <1>0, <2>2, <2>3, WrittenFacts
  <2>5. fs[Target] # None /\ fs[p] = fs[Target]
    BY <1>0, <2>3, <2>4, WriteAlone
  <2>6. "commit" \notin late => SeenBy(cm.batch)
    BY <2>2, <2>5 DEF WInv, HookLooked
  <2>. QED BY <1>2, <2>5, <2>6 DEF SeenBy, Describes
<1>3. CASE Outside
  <2>1. cm' = cm /\ sb'.pc = sb.pc
    <3>1. cm' = cm /\ \E d : sb' = [sb EXCEPT !.did = d] \/ sb' = sb
      BY <1>3 DEF Outside
    <3>. QED BY <1>0, <3>1 DEF SandboxShape
  <2>. QED BY <2>1
<1>4. CASE Coordinator \/ UNCHANGED vars
  BY <1>4 DEF Coordinator, Drains, Releases, vars, shared, files
<1>. QED BY <1>1, <1>2, <1>3, <1>4 DEF Next

-----------------------------------------------------------------------------
(* The theorems *)

\* update_head_cas: no commit that HEAD ever reached is lost, whoever commits
\* while the hooks run.
THEOREM CommitsAreKept == Spec => NoLostCommit
<1>. QED BY CommitInitInv, CommitNext, HeadGrows, PTL DEF Spec, NoLostCommit

\* TemporaryIndex::from_head: the structured commit takes every file but the
\* named one from the commit it is put on, which the compare-and-swap makes
\* sure is the one the temporary index was made from.
THEOREM CommitIsOfNamedPath == Spec => []CommitsNamedPathOnly
<1>1. CInv => CommitsNamedPathOnly
  BY DEF CInv
<1>. QED BY CommitInitInv, CommitNext, <1>1, PTL DEF Spec

\* sandbox.rs, commit.rs apply_hook_changes: what a wrapper overwrites or removes
\* is what the observations of its permit describe, however the two wrappers,
\* the people in the workspace and the ends of leases interleave, save for a
\* change between its last look and its own.
THEOREM EditsAreKept == Spec => NoLostEdit
<1>. QED BY WrappersInit, WrappersNext, EditsAreSeen, PTL DEF Spec, NoLostEdit

\* complete_success, complete_failure and the coordinator's own check of the
\* observations: a sandbox mutation recorded as completed has taken effect, one
\* recorded as failed has not or was undone by somebody, unless the wrapper
\* could not look; and of the commit's results the same.
THEOREM WrapperResultsAreTrue == Spec => []ResultsAreTrue
<1>1. CInv /\ WInv => ResultsAreTrue
  <2>1. CInv => CommitResultsAreTrue
    BY DEF CInv, Knows, CommitResultsAreTrue, Before, After
  <2>. QED BY <2>1 DEF WInv, Reports, ResultsAreTrue
<1>. QED BY CommitInitInv, CommitNext, WrappersInit, WrappersNext, <1>1, PTL DEF Spec
=============================================================================
