----------------------------- MODULE MCEvidence -----------------------------
(***************************************************************************)
(* Two tasks of two agents; the tree d stands for the file f.              *)
(***************************************************************************)
EXTENDS Evidence, TLC

CONSTANTS a1, a2, t1, t2, d, f

MCOwner == [t \in Task |-> IF t = t1 THEN a1 ELSE a2]

MCUnder == [r \in Resource |-> {f}]

MCOverlap == {<<q, r>> \in Resource \X Resource : MCUnder[q] \cap MCUnder[r] # {}}

MCWriteSets == {{r} : r \in Resource}

MCTarget == [t \in Task |-> IF t = t1 THEN {{f}} ELSE {{d}}]

MCSymmetry == Permutations(Attempt) \cup Permutations(Content)

MCView ==
  <<disk, resources, reads, evidence, known, client, db.leases,
    [q \in Requests(db) |-> IF q \in Queued(db) \cup Offered(db)
                            THEN db.requests[q] ELSE "settled"],
    [x \in Attempt |->
       CASE db.attempts[x].status = "executing" -> db.attempts[x]
         [] db.attempts[x].status = "unused" -> "unused"
         [] OTHER -> db.attempts[x].status = "uncertain"
                     /\ \E t \in Task : x \in db.leases[t].attempts]>>
=============================================================================
