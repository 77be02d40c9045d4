---------------------------- MODULE MCLeaseStore ----------------------------
(***************************************************************************)
(* Small instances of LeaseStore for TLC.  Either agent a1 owns tasks t1   *)
(* and t2 and agent a2 owns t3, or every task has an agent of its own.     *)
(* The resource d is a directory tree over the files f and g, which do not *)
(* overlap one another.                                                    *)
(***************************************************************************)
EXTENDS LeaseStore, TLC

CONSTANTS a1, a2, a3, t1, t2, t3, d, f, g

MCSharedOwner == [t \in Task |-> IF t = t3 THEN a2 ELSE a1]
MCOwnOwner == [t \in Task |-> CASE t = t1 -> a1 [] t = t2 -> a2 [] t = t3 -> a3]

MCOverlap == {<<r, r>> : r \in Resource} \cup {<<d, f>>, <<f, d>>, <<d, g>>, <<g, d>>}

MCTreeSets == {{f}, {g}, {d}}
MCFileSets == {{f}, {g}, {f, g}}
MCOneFile == {{f}}

MCAttemptSymmetry == Permutations(Attempt)

(***************************************************************************)
(* f and g play the same part in the overlap and in the write sets.        *)
(* Owners matter through equality alone: all tasks are alike if each has   *)
(* an agent of its own, t1 and t2 are alike if they share one.             *)
(***************************************************************************)
MCFullSymmetry == Permutations(Attempt) \cup Permutations(Task) \cup Permutations({f, g})
MCSharedSymmetry == Permutations(Attempt) \cup Permutations({t1, t2}) \cup Permutations({f, g})

(***************************************************************************)
(* The part of the state that later steps and the properties depend on:    *)
(* no command looks at the expiry of a task that is no longer active, at   *)
(* the fields of a settled request, or at the fields of a finished attempt *)
(* other than whether it is uncertain under a lease that is still held.    *)
(***************************************************************************)
MCView ==
  <<clock,
    [t \in Task |-> IF db.tasks[t].status = "active" THEN db.tasks[t]
                    ELSE <<db.tasks[t].status, db.tasks[t].terminal>>],
    db.leases,
    [q \in Requests(db) |-> IF q \in Queued(db) \cup Offered(db)
                            THEN db.requests[q] ELSE "settled"],
    [x \in Attempt |->
       CASE db.attempts[x].status = "executing" -> db.attempts[x]
         [] db.attempts[x].status = "unused" -> "unused"
         [] OTHER -> db.attempts[x].status = "uncertain"
                     /\ \E t \in Task : x \in db.leases[t].attempts]>>
=============================================================================
