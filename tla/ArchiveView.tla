---------------------------- MODULE ArchiveView ----------------------------
(***************************************************************************)
(* What a client of a mounted archive is promised about its tree.  It is   *)
(* there all at once: each path an item has, and each directory on the way *)
(* to one, with the attributes of the last item at that path.  A request   *)
(* is answered at some moment from this tree; nothing ever changes in it   *)
(* but the modification time of a path a client sets.                      *)
(***************************************************************************)
EXTENDS FiniteSets, SequencesExt

CONSTANTS
  Name,      \* the names that occur in paths
  Room,      \* the length from which a directory's name may be fatal
  NewTime,   \* the times a client may set
  Unset,     \* the attributes of a directory that no item describes
  NULL,
  PathOf(_), \* the path of an item
  Stored(_)  \* the attributes promised of it

VARIABLES
  archive,   \* the items, in archive order
  status,    \* "indexing", "mounted" or "crashed"
  files,     \* files[p]: the attributes of the path p, NULL while indexing
  pending,   \* the request being served, or NoRequest
  reply      \* its answer, NULL while it is served

vars == <<archive, status, files, pending, reply>>

NoRequest == [op |-> "none"]

Ways(path) == {SubSeq(path, 1, k) : k \in 1 .. Len(path)}

AllPaths == {<<>>} \cup UNION {Ways(PathOf(archive[i])) : i \in DOMAIN archive}

(* The last item at a path, if there is one, says what the path is.        *)
Shown(p) ==
  LET own == {i \in DOMAIN archive : PathOf(archive[i]) = p}
  IN  IF own = {} THEN Unset
      ELSE Stored(archive[CHOOSE i \in own : \A j \in own : j <= i])

Init ==
  /\ status = "indexing"
  /\ files = NULL
  /\ pending = NoRequest
  /\ reply = NULL

Mount ==
  /\ status = "indexing"
  /\ status' = "mounted"
  /\ files' = [p \in AllPaths |-> Shown(p)]
  /\ UNCHANGED <<archive, pending, reply>>

Op == {"getattr", "readdir", "utimens"}

(* Anything may be asked about what is there and what is named in it.      *)
Ask ==
  /\ status = "mounted"
  /\ pending = NoRequest
  /\ reply' = NULL
  /\ pending' \in [op : Op, path : {<<>>} \cup {Append(p, x) : p \in DOMAIN files, x \in Name}]
  /\ UNCHANGED <<archive, status, files>>

Pending(op) ==
  /\ status = "mounted"
  /\ pending.op = op

Answer(answer) ==
  /\ reply' = answer
  /\ pending' = NoRequest
  /\ UNCHANGED <<archive, status>>

Below(path) == {x \in Name : Append(path, x) \in DOMAIN files}

NotFound(op) ==
  /\ Pending(op)
  /\ pending.path \notin DOMAIN files
  /\ Answer([op |-> op, path |-> pending.path, err |-> "ENOENT"])
  /\ UNCHANGED files

GetAttr ==
  /\ Pending("getattr")
  /\ pending.path \in DOMAIN files
  /\ LET f == files[pending.path]
         entries == Cardinality(Below(pending.path))
     IN  Answer([op |-> "getattr", path |-> pending.path, err |-> "OK", dir |-> f.is_dir,
                 size |-> IF f.is_dir THEN entries ELSE f.size,
                 nlink |-> IF f.is_dir THEN 2 + entries ELSE 1,
                 A |-> f.A, C |-> f.C, M |-> f.M])
  /\ UNCHANGED files

ReadDir ==
  /\ Pending("readdir")
  /\ pending.path \in DOMAIN files
  /\ Answer([op |-> "readdir", path |-> pending.path, err |-> "OK",
             names |-> Below(pending.path)])
  /\ UNCHANGED files

UTimens(time) ==
  /\ Pending("utimens")
  /\ pending.path \in DOMAIN files
  /\ files' = [files EXCEPT ![pending.path].M.sec = time]
  /\ Answer([op |-> "utimens", path |-> pending.path, err |-> "OK"])

(* Only a request through a directory with too long a name may be fatal.   *)
Crash ==
  /\ status = "mounted"
  /\ pending # NoRequest
  /\ \E k \in 1 .. Len(pending.path) - 1 : Len(pending.path[k]) >= Room
  /\ status' = "crashed"
  /\ pending' = NoRequest
  /\ UNCHANGED <<archive, files, reply>>

Next ==
  \/ Mount
  \/ Ask
  \/ \E op \in Op : NotFound(op)
  \/ GetAttr \/ ReadDir
  \/ \E time \in NewTime : UTimens(time)
  \/ Crash

Spec == Init /\ [][Next]_vars
=============================================================================
