------------------------------ MODULE NodeTree ------------------------------
(***************************************************************************)
(* The node tree: the loop of the Fuse7z_lib7zip constructor that indexes  *)
(* the archive's items, Node::insert and Node::find, and the handlers that *)
(* look at the tree or change it (getattr, readdir, utimens).              *)
(*                                                                         *)
(* insert and find recurse along the path.  One action is one activation:  *)
(* call holds the path, the node `this' and how many components have been  *)
(* consumed.  A node's memory that no statement has set holds JUNK.        *)
(***************************************************************************)
EXTENDS ItemProperties, ItemPaths

CONSTANTS
  Name,      \* the names that occur, as sequences of chars
  Content,   \* the wide path "[Content]", given to items with no path
  DOT,       \* '.'
  POUET,     \* 255, the chars find() has room for, with the final zero
  NewTime,   \* the times a client may set
  Archives   \* the archives considered: sequences of items

(* What the archive handler says of an item.                               *)
Item ==
  [path : Seq(Nat) \cup {NULL}, dir : PropVariant, size : PropVariant,
   A : PropVariant, C : PropVariant, M : PropVariant]

FullPath(item) == IF item.path = NULL THEN Content ELSE item.path

(* The names root_node->insert is to follow or make for an item.           *)
PathOf(item) == Components(CString(Narrow(FullPath(item))))

ASSUME NodeTreeAssumption ==
  /\ Archives \subseteq Seq(Item)
  /\ Content \in Seq(Nat)
  /\ \A a \in Archives : \A i \in 1 .. Len(a) : PathOf(a[i]) \in Seq(Name)
  /\ POUET \in Nat \ {0}
  /\ NULL \notin Seq(Nat) \cup NewTime
  /\ JUNK \notin NewTime \cup {NULL}

VARIABLES
  archive,    \* the items, in archive order
  phase,      \* "indexing", "mounted" or "crashed"
  done,       \* i, the items indexed so far
  max_inode,  \* Node::max_inode
  node,       \* node[n]: the members of the node with inode number n
  childs,     \* childs[n][x]: the child of n named x, or NULL
  call,       \* the activation of insert or find that runs
  reply       \* the answer just given to a request, NULL while one is served

vars == <<archive, phase, done, max_inode, node, childs, call, reply>>

ROOT == 0

Idle == [op |-> "idle"]

Call(op, path, depth, at) == [op |-> op, path |-> path, depth |-> depth, at |-> at]

(* Mutant of NewNode: a new node is never a directory.                     *)
NewFile(parent, full, is_dir) ==
  [parent |-> parent, full |-> full, is_dir |-> FALSE,
   id |-> JUNK, size |-> JUNK, A |-> Timespec(JUNK), C |-> Timespec(JUNK), M |-> Timespec(JUNK)]

(* A node as its constructor leaves it; full is what fullname() spells.    *)
NewNode(parent, full, is_dir) ==
  [parent |-> parent, full |-> full, is_dir |-> is_dir,
   id |-> JUNK, size |-> JUNK, A |-> Timespec(JUNK), C |-> Timespec(JUNK), M |-> Timespec(JUNK)]

Extend(f, x, v) == [y \in DOMAIN f \cup {x} |-> IF y = x THEN v ELSE f[y]]

NoChilds == [x \in Name |-> NULL]

Init ==
  /\ archive \in Archives
  /\ phase = "indexing"
  /\ done = 0
  /\ max_inode = 1
  /\ node = [n \in {ROOT} |-> NewNode(NULL, <<>>, TRUE)]
  /\ childs = [n \in {ROOT} |-> NoChilds]
  /\ call = Idle
  /\ reply = NULL

-----------------------------------------------------------------------------
(* Indexing *)

(* The loop takes the next item and calls root_node->insert.               *)
NextItem ==
  /\ phase = "indexing"
  /\ call = Idle
  /\ done < Len(archive)
  /\ call' = Call("insert", PathOf(archive[done + 1]), 0, ROOT)
  /\ UNCHANGED <<archive, phase, done, max_inode, node, childs, reply>>

Component == call.path[call.depth + 1]
Child == childs[call.at][Component]
AtLeaf == call.depth + 1 = Len(call.path)

(* Mutant of Descend: the recursion goes on in the same node.              *)
DescendNowhere(n) == call' = [call EXCEPT !.depth = @ + 1]

Descend(n) == call' = [call EXCEPT !.depth = @ + 1, !.at = n]

(* Mutant of AddChild: max_inode++ is missing.                             *)
AddChildSameInode ==
  /\ childs' = Extend([childs EXCEPT ![call.at][Component] = max_inode], max_inode, NoChilds)
  /\ UNCHANGED max_inode

(* childs[child->name] = child, for the child numbered max_inode.          *)
AddChild ==
  /\ childs' = Extend([childs EXCEPT ![call.at][Component] = max_inode], max_inode, NoChilds)
  /\ max_inode' = max_inode + 1

ChildPath == Append(node[call.at].full, Component)

InsertBelow ==
  /\ call.op = "insert"
  /\ ~AtLeaf
  /\ Child # NULL
  /\ Descend(Child)
  /\ UNCHANGED <<archive, phase, done, max_inode, node, childs, reply>>

InsertSubdir ==
  /\ call.op = "insert"
  /\ ~AtLeaf
  /\ Child = NULL
  /\ AddChild
  /\ node' = Extend(node, max_inode, NewNode(call.at, ChildPath, TRUE))
  /\ Descend(max_inode)
  /\ UNCHANGED <<archive, phase, done, reply>>

(* What a getter leaves in the variable it was given, which held old.      *)
Local(got, old) == IF got = NULL THEN old ELSE got

(* What the loop body stores in the node insert returned.  A getter that   *)
(* fails leaves its variable alone: size is then JUNK, and time is what    *)
(* the getter before left there.                                           *)
Stored(item) ==
  LET a == Local(GetFileTimeProperty(item.A), JUNK)
      c == Local(GetFileTimeProperty(item.C), a)
      m == Local(GetFileTimeProperty(item.M), c)
  IN  [is_dir |-> IsDir(item.dir), size |-> OffT(Local(GetUInt64Property(item.size), JUNK)),
       A |-> Timespec(a), C |-> Timespec(c), M |-> Timespec(m)]

(* Mutant of Filled: the first of several items at a path wins.            *)
FilledOnce(n, item) ==
  LET v == Stored(item) IN
  IF n.id # JUNK THEN n
  ELSE [n EXCEPT !.id = done, !.is_dir = v.is_dir, !.size = v.size,
                 !.A = v.A, !.C = v.C, !.M = v.M]

(* The members set for the item numbered done.                             *)
Filled(n, item) ==
  LET v == Stored(item) IN
  [n EXCEPT !.id = done, !.is_dir = v.is_dir, !.size = v.size,
            !.A = v.A, !.C = v.C, !.M = v.M]

(* Mutant of ItemDone: the loop does not go on to the next item.           *)
ItemAgain == call' = Idle /\ UNCHANGED done

ItemDone == call' = Idle /\ done' = done + 1

InsertLeaf ==
  LET item == archive[done + 1] IN
  /\ call.op = "insert"
  /\ AtLeaf
  /\ \/ /\ Child = NULL
        /\ AddChild
        /\ node' = Extend(node, max_inode, Filled(NewNode(call.at, ChildPath, FALSE), item))
     \/ /\ Child # NULL
        /\ node' = [node EXCEPT ![Child] = Filled(@, item)]
        /\ UNCHANGED <<max_inode, childs>>
  /\ ItemDone
  /\ UNCHANGED <<archive, phase, reply>>

Mount ==
  /\ phase = "indexing"
  /\ call = Idle
  /\ done = Len(archive)
  /\ phase' = "mounted"
  /\ UNCHANGED <<archive, done, max_inode, node, childs, call, reply>>

-----------------------------------------------------------------------------
(* Requests *)

(* Names the kernel resolves itself or never sends.                        *)
Hidden == {<<>>, <<DOT>>, <<DOT, DOT>>}

Visible(path) == \A k \in 1 .. Len(path) : path[k] \notin Hidden

(* The kernel gets to n: every node above it is served as a directory.     *)
Walkable(n) ==
  /\ Visible(node[n].full)
  /\ \A k \in 0 .. Len(node[n].full) - 1 :
       \E m \in DOMAIN node : node[m].full = SubSeq(node[n].full, 1, k) /\ node[m].is_dir

(* What the kernel asks: getattr of the root or of any name in a directory *)
(* it has got to, utimens of what it found, readdir of what is a directory. *)
Asked(op, path) ==
  \/ path = <<>>
  \/ /\ \E n \in DOMAIN node, x \in Name \ Hidden :
          Walkable(n) /\ node[n].is_dir /\ path = Append(node[n].full, x)
     /\ op # "getattr" => \E n \in DOMAIN node :
                           node[n].full = path /\ (op = "readdir" => node[n].is_dir)

(* The handler calls root_node->find.                                      *)
Request(op, path) ==
  /\ phase = "mounted"
  /\ call = Idle
  /\ Asked(op, path)
  /\ call' = Call(op, path, 0, ROOT)
  /\ reply' = NULL
  /\ UNCHANGED <<archive, phase, done, max_inode, node, childs>>

Finding == call.op \in {"getattr", "readdir", "utimens"}

(* find returns n to its handler.                                          *)
Return(n) == call' = [op |-> "found", for |-> call.op, path |-> call.path, at |-> n]

FindRoot ==
  /\ Finding
  /\ call.path = <<>>
  /\ Return(call.at)
  /\ UNCHANGED <<archive, phase, done, max_inode, node, childs, reply>>

FindBelow ==
  /\ Finding
  /\ call.path # <<>> /\ ~AtLeaf
  /\ IF Child # NULL THEN Descend(Child) ELSE Return(NULL)
  /\ UNCHANGED <<archive, phase, done, max_inode, node, childs, reply>>

(* Mutant of Overruns: the last component is copied as well.               *)
OverrunsAnywhere == Len(Component) >= POUET

(* pouet[255] holds a component and its NUL, the last component is not     *)
(* copied.                                                                 *)
Overruns == ~AtLeaf /\ Len(Component) >= POUET

(* The copy runs over the stack, and may kill the process.                 *)
FindOverrun ==
  /\ Finding
  /\ call.path # <<>>
  /\ Overruns
  /\ phase' = "crashed"
  /\ call' = Idle
  /\ UNCHANGED <<archive, done, max_inode, node, childs, reply>>

FindLeaf ==
  /\ Finding
  /\ call.path # <<>> /\ AtLeaf
  /\ Return(Child)
  /\ UNCHANGED <<archive, phase, done, max_inode, node, childs, reply>>

(* Mutant of Listing: directories with no item of their own are left out.  *)
ListingOfItems(n) ==
  {x \in Name : childs[n][x] # NULL /\ node[childs[n][x]].id # JUNK}

Listing(n) == {x \in Name : childs[n][x] # NULL}

Found(op) == call.op = "found" /\ call.for = op

NotFound ==
  /\ call.op = "found"
  /\ call.at = NULL
  /\ reply' = [op |-> call.for, path |-> call.path, err |-> "ENOENT"]
  /\ call' = Idle
  /\ UNCHANGED <<archive, phase, done, max_inode, node, childs>>

GetAttr ==
  /\ Found("getattr")
  /\ call.at # NULL
  /\ reply' = LET n == node[call.at]
                  entries == Cardinality(Listing(call.at))
              IN  [op |-> "getattr", path |-> call.path, err |-> "OK", dir |-> n.is_dir,
                   size |-> IF n.is_dir THEN entries ELSE n.size,
                   nlink |-> IF n.is_dir THEN 2 + entries ELSE 1,
                   A |-> n.A, C |-> n.C, M |-> n.M]
  /\ call' = Idle
  /\ UNCHANGED <<archive, phase, done, max_inode, node, childs>>

ReadDir ==
  /\ Found("readdir")
  /\ call.at # NULL
  /\ reply' = [op |-> "readdir", path |-> call.path, err |-> "OK", names |-> Listing(call.at)]
  /\ call' = Idle
  /\ UNCHANGED <<archive, phase, done, max_inode, node, childs>>

(* Mutant of UTimens: the access time is set.                              *)
UTimensAccess(time) ==
  /\ Found("utimens")
  /\ call.at # NULL
  /\ node' = [node EXCEPT ![call.at].A.sec = time]
  /\ reply' = [op |-> "utimens", path |-> call.path, err |-> "OK"]
  /\ call' = Idle
  /\ UNCHANGED <<archive, phase, done, max_inode, childs>>

UTimens(time) ==
  /\ Found("utimens")
  /\ call.at # NULL
  /\ node' = [node EXCEPT ![call.at].M.sec = time]
  /\ reply' = [op |-> "utimens", path |-> call.path, err |-> "OK"]
  /\ call' = Idle
  /\ UNCHANGED <<archive, phase, done, max_inode, childs>>

Indexing == NextItem \/ InsertBelow \/ InsertSubdir \/ InsertLeaf \/ Mount

Requests ==
  \E op \in {"getattr", "readdir", "utimens"} :
    \/ Request(op, <<>>)
    \/ \E n \in DOMAIN node, x \in Name : Request(op, Append(node[n].full, x))

Serving ==
  \/ FindRoot \/ FindBelow \/ FindOverrun \/ FindLeaf
  \/ NotFound \/ GetAttr \/ ReadDir
  \/ \E time \in NewTime : UTimens(time)

Next == Indexing \/ Requests \/ Serving

(* The process runs its constructor and the handler it has entered.        *)
Spec == Init /\ [][Next]_vars /\ WF_vars(Indexing) /\ WF_vars(Serving)

-----------------------------------------------------------------------------
(* Properties *)

Inode == 0 .. max_inode - 1

Times == [sec : (0 .. WIDTH - 1) \cup {JUNK}, nsec : (0 .. GAIN * NSEC - 1) \cup {JUNK}]

Node ==
  [parent : Nat \cup {NULL}, full : Seq(Name), is_dir : BOOLEAN,
   id : Nat \cup {JUNK}, size : Int \cup {JUNK}, A : Times, C : Times,
   M : Times \cup [sec : NewTime, nsec : (0 .. GAIN * NSEC - 1) \cup {JUNK}]]

(* Every variable keeps its type: pointers stay inside the tree.           *)
TypeOK ==
  /\ archive \in Archives
  /\ phase \in {"indexing", "mounted", "crashed"}
  /\ done \in 0 .. Len(archive)
  /\ max_inode \in Nat \ {0}
  /\ node \in [Inode -> Node]
  /\ childs \in [Inode -> [Name -> Inode \cup {NULL}]]
  /\ call \in {Idle}
       \cup [op : {"insert", "getattr", "readdir", "utimens"}, path : Seq(Name),
             depth : Nat, at : Inode]
       \cup [op : {"found"}, for : {"getattr", "readdir", "utimens"}, path : Seq(Name),
             at : Inode \cup {NULL}]

IsProperPrefix(p, q) == Len(p) < Len(q) /\ p = SubSeq(q, 1, Len(p))

Items == 1 .. Len(archive)
Owners(path) == {i \in Items : PathOf(archive[i]) = path}
Heirs(path) == {i \in Items : IsProperPrefix(path, PathOf(archive[i]))}
IsLast(i, S) == i \in S /\ \A j \in S : j <= i

Answered(op) == reply # NULL /\ reply.op = op

(* A path is found exactly when the archive has an item there or below it: *)
(* the recursive find undoes the recursive insert, in whatever order the   *)
(* items of a directory and the directory itself come, duplicates included. *)
LookupFaithful ==
  reply # NULL =>
    (reply.err = "OK" <=> reply.path = <<>> \/ Owners(reply.path) \cup Heirs(reply.path) # {})

(* A time that the item has and that is not before 1970 is answered to the *)
(* unit.                                                                   *)
TimeKept(p, ts) == (p.vt = "FILETIME" /\ p.val >= BIAS) => Says(ts, p.val)

(* The attributes answered for a path are those of the last item there: a  *)
(* property it has is never another item's nor another property's, and a   *)
(* path with no item of its own is a directory.                            *)
AttributesFaithful ==
  Answered("getattr") /\ reply.err = "OK" =>
    /\ Owners(reply.path) = {} => reply.dir
    /\ \A i \in Items : IsLast(i, Owners(reply.path)) =>
         LET item == archive[i] IN
         /\ reply.dir = (item.dir.vt = "BOOL" /\ item.dir.val # 0)
         /\ (~reply.dir /\ item.size.vt \in {"UI4", "UI8"} /\ item.size.val < WIDTH \div 2) =>
              reply.size = item.size.val
         /\ TimeKept(item.A, reply.A)
         /\ TimeKept(item.C, reply.C)
         /\ NewTime = {} => TimeKept(item.M, reply.M)

(* A listing names each thing the archive has in the directory, and no     *)
(* other; the directory's size and link count follow from it.              *)
ListingFaithful ==
  reply # NULL =>
    LET names == {PathOf(archive[i])[Len(reply.path) + 1] : i \in Heirs(reply.path)} IN
    /\ Answered("readdir") /\ reply.err = "OK" => reply.names = names
    /\ Answered("getattr") /\ reply.err = "OK" /\ reply.dir =>
         reply.size = Cardinality(names) /\ reply.nlink = 2 + Cardinality(names)

(* The archive's own directories say so: no item lies below a file.        *)
Nested == \A i \in Items : Heirs(PathOf(archive[i])) # {} => IsDir(archive[i].dir)

(* In such an archive every item the kernel can name can be reached from   *)
(* the root through directories.                                           *)
ItemsReachable ==
  phase = "mounted" /\ Nested =>
    \A i \in Items : Visible(PathOf(archive[i])) =>
      \E n \in DOMAIN node : node[n].full = PathOf(archive[i]) /\ Walkable(n)

(* Once the archive is mounted, an item with a path of chars is the id of  *)
(* a node that fullname() spells exactly as the archive does, empty names  *)
(* included, unless a later item has that path or one that is not of chars, *)
(* which may become any.                                                   *)
NamesKept ==
  phase = "mounted" =>
    \A i \in Items :
      LET wpath == FullPath(archive[i]) IN
      (/\ Plain(wpath)
       /\ \A j \in i + 1 .. Len(archive) :
            Plain(FullPath(archive[j])) /\ FullPath(archive[j]) # wpath) =>
        \E n \in DOMAIN node : node[n].id = i - 1 /\ Spell(node[n].full) = wpath

(* Unless a directory has a name of 255 bytes or more, find() never leaves *)
(* its buffer.                                                             *)
FindSurvives ==
  (\A i \in Items : \A k \in 1 .. Len(PathOf(archive[i])) :
     Len(PathOf(archive[i])[k]) >= POUET => Heirs(SubSeq(PathOf(archive[i]), 1, k)) = {}
                                          /\ ~IsDir(archive[i].dir))
    => phase # "crashed"

(* What the handlers serve of a node.                                      *)
Shown(n) == [is_dir |-> n.is_dir, size |-> n.size, A |-> n.A, C |-> n.C, M |-> n.M]

(* What a directory with no item of its own keeps.                         *)
Unset == Shown(NewNode(NULL, <<>>, TRUE))

AllShown ==
  [p \in {node[n].full : n \in DOMAIN node} |->
     Shown(node[CHOOSE n \in DOMAIN node : node[n].full = p])]

Files == IF phase = "indexing" THEN NULL ELSE AllShown

Pending ==
  IF Finding THEN [op |-> call.op, path |-> call.path]
  ELSE IF call.op = "found" THEN [op |-> call.for, path |-> call.path]
  ELSE [op |-> "none"]

View == INSTANCE ArchiveView WITH
  Room <- POUET,
  status <- phase,
  files <- Files,
  pending <- Pending

(* To clients indexing is one step, whatever the archive: the tree is all  *)
(* there when it is mounted, every request is answered from it in one step, *)
(* and setting a path's time changes that time and nothing else.           *)
ImplementsArchiveView == View!Spec

(* Every archive is indexed, and every request is answered.                *)
Served == (call # Idle ~> call = Idle \/ phase = "crashed") /\ <>(phase # "indexing")

(* No request changes the tree once it is mounted.                         *)
ReadOnlyTree == [][phase = "mounted" => UNCHANGED <<node, childs>>]_vars
=============================================================================
