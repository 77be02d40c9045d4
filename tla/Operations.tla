----------------------------- MODULE Operations -----------------------------
(***************************************************************************)
(* What a mutation looks like to the coordinator                           *)
(* (stateful-core/src/resource.rs): the observations a client takes of the *)
(* workspace before and after an operation, and the two checks on them,    *)
(* validate_operation_start and validate_operation_transition.             *)
(*                                                                         *)
(* A workspace is a function from paths to nodes.  A digest is the data it *)
(* is taken of; a directory snapshot is the set of nodes below.  An        *)
(* observation either sees one state of the workspace or fails (the code   *)
(* compares metadata before and after and reports UnstableObservation), and*)
(* the empty set stands for the failure.  Symbolic links are left out:     *)
(* the resolver rejects them except in entry_only operations, which the    *)
(* wrappers modelled here refuse.                                          *)
(***************************************************************************)
EXTENDS Naturals, FiniteSets

CONSTANTS
    Path,       \* canonical paths of the workspace
    Root,       \* its root directory
    Parent,     \* the directory of each path
    None

ASSUME ParentAssumption ==
    /\ Parent \in [Path -> Path \cup {Root}] /\ Root \notin Path
    /\ \A p \in Path : Parent[p] # p

File(i, c) == [kind |-> "file", ino |-> i, data |-> c]
Dir(i) == [kind |-> "dir", ino |-> i, data |-> None]

Present(fs, p, k) == fs[p] # None /\ fs[p].kind = k

\* reject_symlink_components, canonical_inside: the path leads into a directory.
Reachable(fs, p) == Parent[p] # Root => Present(fs, Parent[p], "dir")

Below(d) == {p \in Path : Parent[p] = d}

Links(fs, i) == Cardinality({p \in Path : fs[p] # None /\ fs[p].ino = i})

----------------------------------------------------------------------------
(* Observations *)

\* object_key, entry_key_from_lexical, directory_key: an object and a tree are
\* identified by their inode, an entry by the inode of its directory.
Object(fs, p) ==
    [kind |-> "object", path |-> p, id |-> fs[p].ino, state |-> fs[p].data]

Entry(fs, p) ==
    [kind |-> "entry", path |-> p,
     id |-> IF Parent[p] = Root THEN 0 ELSE fs[Parent[p]].ino,
     state |-> IF fs[p] = None THEN None ELSE [type |-> fs[p].kind, ino |-> fs[p].ino]]

Tree(fs, p) ==
    [kind |-> "tree", path |-> p, id |-> fs[p].ino,
     state |-> {<<q, fs[q]>> : q \in {r \in Below(p) : fs[r] # None}}]

ObserveExistingFile(fs, p) ==
    IF Reachable(fs, p) /\ Present(fs, p, "file")
    THEN {Object(fs, p), Entry(fs, p)} ELSE {}

ObserveAbsentEntry(fs, p) ==
    IF Reachable(fs, p) /\ fs[p] = None THEN {Entry(fs, p)} ELSE {}

\* hash_tree_entry refuses a tree with a hardlinked file.
ObserveDirectoryTree(fs, p) ==
    IF /\ Reachable(fs, p) /\ Present(fs, p, "dir")
       /\ \A q \in Below(p) : Present(fs, q, "file") => Links(fs, fs[q].ino) = 1
    THEN {Tree(fs, p)} ELSE {}

ObserveRmdir(fs, p) ==
    IF ObserveDirectoryTree(fs, p) = {} THEN {} ELSE {Tree(fs, p), Entry(fs, p)}

\* Both or neither.
And(a, b) == IF a = {} \/ b = {} THEN {} ELSE a \cup b

----------------------------------------------------------------------------
(* Shapes *)

\* require_shape: exactly one observation for each key, and no other.
RequireShape(obs, shape) ==
    /\ obs # {}
    /\ Cardinality(obs) = Cardinality(shape)
    /\ {<<o.kind, o.path>> : o \in obs} = shape

At(obs, k, p) == CHOOSE o \in obs : o.kind = k /\ o.path = p

Has(obs, k, p) == \E o \in obs : o.kind = k /\ o.path = p

\* require_same_resource: kind, identity and path.
SameResource(a, b) == a.kind = b.kind /\ a.path = b.path /\ a.id = b.id

\* validate_regular_file_from_set
RegularFile(obs, p) ==
    /\ Has(obs, "object", p) /\ Has(obs, "entry", p)
    /\ LET e == At(obs, "entry", p).state
       IN  e # None /\ e.type = "file" /\ e.ino = At(obs, "object", p).id

\* validate_absent_entry_from_set
AbsentEntry(obs, p) == Has(obs, "entry", p) /\ At(obs, "entry", p).state = None

\* validate_directory with require_empty
EmptyDirectory(obs, p) ==
    /\ RequireShape(obs, {<<"tree", p>>, <<"entry", p>>})
    /\ At(obs, "tree", p).state = {}
    /\ LET e == At(obs, "entry", p).state
       IN  e # None /\ e.type = "dir" /\ e.ino = At(obs, "tree", p).id

FileShape(p) == {<<"object", p>>, <<"entry", p>>}

----------------------------------------------------------------------------
(* Operations: [op, path, to]; to is the destination of the two-path ones *)

\* validate_operation_start
ValidStart(op, obs) ==
    LET p == op.path
    IN  CASE op.op \in {"create", "mkdir"} ->
               RequireShape(obs, {<<"entry", p>>}) /\ AbsentEntry(obs, p)
          [] op.op \in {"update", "delete"} ->
               RequireShape(obs, FileShape(p)) /\ RegularFile(obs, p)
          [] op.op \in {"rename", "hardlink"} ->
               /\ p # op.to
               /\ RequireShape(obs, FileShape(p) \cup {<<"entry", op.to>>})
               /\ RegularFile(obs, p) /\ AbsentEntry(obs, op.to)
          [] op.op = "rmdir" -> EmptyDirectory(obs, p)
          [] op.op = "write_directory" -> RequireShape(obs, {<<"tree", p>>})

\* validate_structured_commit_start, for the one tracked path of the model
ValidCommit(p, obs) ==
    /\ Has(obs, "entry", p)
    /\ IF AbsentEntry(obs, p)
       THEN RequireShape(obs, {<<"entry", p>>, <<"tree", "git">>})
       ELSE RequireShape(obs, FileShape(p) \cup {<<"tree", "git">>}) /\ RegularFile(obs, p)

\* ResourceResolver::observe_operation
ObserveOperation(fs, op) ==
    LET p   == op.path
        obs == CASE op.op \in {"create", "mkdir"} -> ObserveAbsentEntry(fs, p)
                 [] op.op \in {"update", "delete"} -> ObserveExistingFile(fs, p)
                 [] op.op \in {"rename", "hardlink"} ->
                      And(ObserveExistingFile(fs, p), ObserveAbsentEntry(fs, op.to))
                 [] op.op = "rmdir" -> ObserveRmdir(fs, p)
                 [] op.op = "write_directory" -> ObserveDirectoryTree(fs, p)
    IN  IF ValidStart(op, obs) THEN obs ELSE {}

----------------------------------------------------------------------------
(* Transitions *)

\* validate_expected_transition
ValidExpected(op, start, post) ==
    LET p == op.path
        q == op.to
    IN  CASE op.op = "create" ->
               /\ RequireShape(post, FileShape(p)) /\ RegularFile(post, p)
               /\ SameResource(At(start, "entry", p), At(post, "entry", p))
          [] op.op = "update" ->
               /\ RequireShape(post, FileShape(p)) /\ RegularFile(post, p)
               /\ SameResource(At(start, "entry", p), At(post, "entry", p))
               /\ \/ At(start, "object", p).id # At(post, "object", p).id
                  \/ At(start, "object", p).state # At(post, "object", p).state
          [] op.op \in {"delete", "rmdir"} ->
               /\ RequireShape(post, {<<"entry", p>>}) /\ AbsentEntry(post, p)
               /\ SameResource(At(start, "entry", p), At(post, "entry", p))
          [] op.op = "rename" ->
               /\ RequireShape(post, FileShape(q) \cup {<<"entry", p>>})
               /\ RegularFile(post, q) /\ AbsentEntry(post, p)
               /\ At(start, "object", p).id = At(post, "object", q).id
               /\ SameResource(At(start, "entry", p), At(post, "entry", p))
               /\ SameResource(At(start, "entry", q), At(post, "entry", q))
          [] op.op = "hardlink" ->
               /\ RequireShape(post, FileShape(p) \cup {<<"entry", q>>})
               /\ RegularFile(post, p)
               /\ SameResource(At(start, "object", p), At(post, "object", p))
               /\ SameResource(At(start, "entry", p), At(post, "entry", p))
               /\ SameResource(At(start, "entry", q), At(post, "entry", q))
               /\ At(post, "entry", q).state # None
               /\ At(post, "entry", q).state.ino = At(post, "object", p).id
          [] op.op = "mkdir" ->
               /\ EmptyDirectory(post, p)
               /\ SameResource(At(start, "entry", p), At(post, "entry", p))
          [] op.op = "write_directory" ->
               /\ RequireShape(post, {<<"tree", p>>})
               /\ SameResource(At(start, "tree", p), At(post, "tree", p))

\* validate_operation_transition
ValidTransition(op, start, expected, actual) ==
    ValidStart(op, start) /\ ValidExpected(op, start, expected) /\ expected = actual

\* validate_structured_commit_transition: the metadata changed, the files did not.
ValidCommitTransition(p, start, post) ==
    /\ ValidCommit(p, start) /\ ValidCommit(p, post)
    /\ SameResource(At(start, "tree", "git"), At(post, "tree", "git"))
    /\ At(start, "tree", "git").state # At(post, "tree", "git").state
    /\ \A o \in start : o.kind # "tree" => o \in post
=============================================================================
