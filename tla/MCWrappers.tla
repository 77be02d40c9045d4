----------------------------- MODULE MCWrappers -----------------------------
(***************************************************************************)
(* The wrappers on a workspace with a tracked file f, a free path g and a  *)
(* directory d with one place x in it, and every operation of the sandbox. *)
(***************************************************************************)
EXTENDS Wrappers, TLC

CONSTANTS f, g, d, x, top, c1, c2

MCParent == (f :> top) @@ (g :> top) @@ (d :> top) @@ (x :> d)

One(o, p) == [op |-> o, path |-> p, to |-> p]

MCOperation ==
    {One("create", g), One("mkdir", g), One("update", f), One("delete", f),
     One("rmdir", d), One("write_directory", d)}
    \cup {[op |-> o, path |-> f, to |-> g] : o \in {"rename", "hardlink"}}

\* A wrapper that is finished, and whose attempts are decided, has forgotten its
\* observations and needs no evidence; the staged data is gone once it is
\* applied; and nobody but the commit looks at HEAD.
MCView ==
    LET over(a) == outcome[a] # "executing"
        sbOver  == sb.pc \in {"done", "failed"} /\ over("sandbox")
        cmOver  == cm.pc \in {"ok", "err", "dead"} /\ over("commit") /\ over("hook")
    IN  << fs, lease, draining, outcome, edits,
           IF sbOver
           THEN <<sb.pc, sb.did, sb.blind>>
           ELSE <<[sb EXCEPT !.data = IF sb.pc \in {"look", "apply"} THEN @ ELSE None],
                  known["sandbox"], "sandbox" \in late>>,
           IF cmOver
           THEN <<cm.pc, Committed>>
           ELSE <<[cm EXCEPT !.at = IF cm.pc = "cas" THEN @ ELSE <<>>],
                  known["commit"], "commit" \in late, head, index>> >>

MCSymmetry == Permutations(Content)
=============================================================================
