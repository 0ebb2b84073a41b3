--------------------------- MODULE NodeTreeProofs ----------------------------
(***************************************************************************)
(* Proofs about NodeTree, for every set of archives: items in any order,   *)
(* with any paths and properties, and any number of them.                  *)
(***************************************************************************)
EXTENDS NodeTree, ItemProofs, FiniteSetTheorems

-----------------------------------------------------------------------------
(* What is stored in a node                                                *)

(* Seconds and nanoseconds are in their ranges, whatever the time.         *)
LEMMA TimespecType ==
  ASSUME NEW t \in (0 .. WIDTH - 1) \cup {JUNK}
  PROVE  Timespec(t) \in Times
<1>1. CASE t = JUNK
  BY <1>1 DEF Timespec, Times
<1>2. CASE t # JUNK
  <2> DEFINE n == SinceEpoch(t)
             q == n \div GAIN
             r == n % GAIN
  <2>1. n \in 0 .. WIDTH - 1
    <3>1. t - BIAS \in Int
      BY <1>2, ItemPropertiesAssumption
    <3>2. \A a \in Int : a % WIDTH \in 0 .. WIDTH - 1
      BY ItemPropertiesAssumption, Z3
    <3> QED BY <3>1, <3>2 DEF SinceEpoch
  <2>2. n \in Nat
    BY <2>1, ItemPropertiesAssumption
  <2>3. q \in Nat /\ r \in 0 .. GAIN - 1 /\ n = GAIN * q + r
    BY <2>2, Division
  <2>4. Timespec(t) = [sec |-> q, nsec |-> r * NSEC]
    BY <1>2 DEF Timespec, Sec, Nsec
  <2> HIDE DEF n, q, r
  <2>5. r * NSEC \in 0 .. GAIN * NSEC - 1
    <3>1. \A x, y, z \in Nat : x <= y - 1 /\ z >= 1 => x * z >= 0 /\ x * z <= y * z - 1
      BY Z3
    <3>2. r \in Nat /\ GAIN \in Nat /\ NSEC \in Nat /\ NSEC >= 1 /\ r <= GAIN - 1
      BY <2>3, ItemPropertiesAssumption
    <3>3. r * NSEC >= 0 /\ r * NSEC <= GAIN * NSEC - 1 /\ r * NSEC \in Int /\ GAIN * NSEC \in Int
      BY <3>1, <3>2
    <3> QED BY <3>3
  <2>6. q \in 0 .. WIDTH - 1
    <3>1. \A x, y \in Nat : x >= 1 => x * y >= y
      BY Z3
    <3>2. GAIN \in Nat /\ GAIN >= 1 /\ GAIN * q \in Int
      BY <2>3, ItemPropertiesAssumption
    <3>3. q <= n
      BY <2>2, <2>3, <3>1, <3>2
    <3> QED BY <2>1, <2>3, <3>3, ItemPropertiesAssumption
  <2> QED BY <2>4, <2>5, <2>6 DEF Times
<1> QED BY <1>1, <1>2

(* A getter answers a value or leaves the variable alone.                  *)
LEMMA LocalType ==
  ASSUME NEW p \in PropVariant, NEW old \in (0 .. WIDTH - 1) \cup {JUNK}
  PROVE  /\ Local(GetFileTimeProperty(p), old) \in (0 .. WIDTH - 1) \cup {JUNK}
         /\ Local(GetUInt64Property(p), old) \in (0 .. WIDTH - 1) \cup {JUNK}
         /\ p.vt = "FILETIME" => Local(GetFileTimeProperty(p), old) = p.val
         /\ p.vt \in {"UI4", "UI8"} => Local(GetUInt64Property(p), old) = p.val
<1>1. p.val \in 0 .. WIDTH - 1 /\ p.val \in Int
  BY ItemPropertiesAssumption DEF PropVariant
<1>2. p.val # NULL
  BY <1>1, ItemPropertiesAssumption
<1> QED BY <1>1, <1>2 DEF Local, GetFileTimeProperty, GetUInt64Property

(* What the indexing loop stores of an item has the types of a node.       *)
LEMMA StoredType ==
  ASSUME NEW item \in Item
  PROVE  /\ Stored(item).is_dir = IsDir(item.dir) /\ Stored(item).is_dir \in BOOLEAN
         /\ Stored(item).size \in Int \cup {JUNK}
         /\ {Stored(item).A, Stored(item).C, Stored(item).M} \subseteq Times
<1> DEFINE a == Local(GetFileTimeProperty(item.A), JUNK)
           c == Local(GetFileTimeProperty(item.C), a)
           m == Local(GetFileTimeProperty(item.M), c)
           z == Local(GetUInt64Property(item.size), JUNK)
<1>1. item.A \in PropVariant /\ item.C \in PropVariant /\ item.M \in PropVariant
      /\ item.size \in PropVariant
  BY DEF Item
<1>2. a \in (0 .. WIDTH - 1) \cup {JUNK}
  BY <1>1, LocalType
<1>3. c \in (0 .. WIDTH - 1) \cup {JUNK}
  BY <1>1, <1>2, LocalType
<1>4. m \in (0 .. WIDTH - 1) \cup {JUNK}
  BY <1>1, <1>3, LocalType
<1>5. z \in (0 .. WIDTH - 1) \cup {JUNK}
  BY <1>1, LocalType
<1>6. Stored(item) = [is_dir |-> IsDir(item.dir), size |-> OffT(z),
                      A |-> Timespec(a), C |-> Timespec(c), M |-> Timespec(m)]
  BY DEF Stored
<1>7. OffT(z) \in Int \cup {JUNK}
  BY <1>5, ItemPropertiesAssumption DEF OffT
<1>8. Timespec(a) \in Times /\ Timespec(c) \in Times /\ Timespec(m) \in Times
  BY <1>2, <1>3, <1>4, TimespecType
<1> HIDE DEF a, c, m, z
<1> QED BY <1>6, <1>7, <1>8 DEF IsDir

(* A new node, and one filled for an item, are nodes.                      *)
LEMMA NewNodeType ==
  ASSUME NEW parent \in Nat \cup {NULL}, NEW full \in Seq(Name), NEW d \in BOOLEAN
  PROVE  /\ NewNode(parent, full, d) \in Node
         /\ NewNode(parent, full, d).full = full
         /\ NewNode(parent, full, d).is_dir = d
         /\ d => Shown(NewNode(parent, full, d)) = Unset
<1>1. Timespec(JUNK) \in Times
  BY TimespecType
<1>2. Shown(NewNode(parent, full, TRUE)) = Unset
  BY DEF NewNode, Shown, Unset
<1> QED BY <1>1, <1>2 DEF NewNode, Node

(* A node filled for an item keeps its path and says what is stored of it. *)
LEMMA FilledType ==
  ASSUME NEW n \in Node, NEW item \in Item, done \in Nat
  PROVE  /\ Filled(n, item) \in Node
         /\ Filled(n, item).full = n.full
         /\ Filled(n, item).id = done
         /\ Filled(n, item).is_dir = Stored(item).is_dir
         /\ Filled(n, item).size = Stored(item).size
         /\ Filled(n, item).A = Stored(item).A
         /\ Filled(n, item).C = Stored(item).C
         /\ Filled(n, item).M = Stored(item).M
<1> DEFINE v == Stored(item)
<1>1. /\ v.is_dir \in BOOLEAN /\ v.size \in Int \cup {JUNK}
      /\ v.A \in Times /\ v.C \in Times /\ v.M \in Times
  BY StoredType
<1>2. Filled(n, item) = [n EXCEPT !.id = done, !.is_dir = v.is_dir, !.size = v.size,
                                  !.A = v.A, !.C = v.C, !.M = v.M]
  BY DEF Filled
<1> HIDE DEF v
<1>3. Filled(n, item) = [parent |-> n.parent, full |-> n.full, is_dir |-> v.is_dir,
                         id |-> done, size |-> v.size, A |-> v.A, C |-> v.C, M |-> v.M]
  BY <1>2 DEF Node
<1>4. n.parent \in Nat \cup {NULL} /\ n.full \in Seq(Name)
  BY DEF Node
<1>5. Filled(n, item) \in Node
  BY <1>1, <1>3, <1>4 DEF Node
<1> QED BY <1>3, <1>5 DEF v

-----------------------------------------------------------------------------
(* The shape of the tree                                                   *)

Has(p) == \E n \in Inode : node[n].full = p

(* The root has the empty path, and nothing else has.  A child's path is   *)
(* its directory's and its name, and whatever has such a path is a child.  *)
(* The directories on the way to a node are there, and no path has two     *)
(* nodes.                                                                  *)
RootFirst == ROOT \in Inode /\ node[ROOT].full = <<>>

ChildsSpelled ==
  \A n \in Inode, x \in Name :
    childs[n][x] # NULL => node[childs[n][x]].full = Append(node[n].full, x)

ChildsKept ==
  \A n, m \in Inode, x \in Name :
    node[m].full = Append(node[n].full, x) => childs[n][x] = m

Closed == \A n \in Inode : \A k \in 0 .. Len(node[n].full) : Has(Ancestor(node[n].full, k))

Unique == \A n, m \in Inode : node[n].full = node[m].full => n = m

TreeShape == RootFirst /\ ChildsSpelled /\ ChildsKept /\ Closed /\ Unique

(* The part of the types the shape is about.                               *)
TreeTypes ==
  /\ max_inode \in Nat \ {0}
  /\ node \in [Inode -> Node]
  /\ childs \in [Inode -> [Name -> Inode \cup {NULL}]]

(* A step that changes no path and no child leaves the shape.              *)
LEMMA SamePaths ==
  ASSUME TreeTypes, TreeShape, UNCHANGED <<max_inode, childs>>, node' \in [Inode -> Node],
         \A n \in Inode : node'[n].full = node[n].full
  PROVE  TreeTypes' /\ TreeShape' /\ \A p : Has(p)' <=> Has(p)
<1>1. Inode' = Inode
  BY DEF Inode
<1>2. \A p : Has(p)' <=> Has(p)
  BY <1>1 DEF Has
<1>3. TreeTypes'
  BY <1>1 DEF TreeTypes
<1>4. RootFirst' /\ Unique'
  BY <1>1 DEF TreeShape, RootFirst, Unique
<1>5. Closed'
  BY <1>1, <1>2 DEF TreeShape, Closed, Has
<1>6. ChildsKept'
  <2> SUFFICES ASSUME NEW n \in Inode, NEW m \in Inode, NEW x \in Name,
                      node'[m].full = Append(node'[n].full, x)
               PROVE  childs'[n][x] = m
    BY <1>1 DEF ChildsKept
  <2>1. node[m].full = Append(node[n].full, x)
    OBVIOUS
  <2> QED BY <2>1 DEF TreeShape, ChildsKept
<1>7. ChildsSpelled'
  BY <1>1 DEF TreeTypes, TreeShape, ChildsSpelled
<1> QED BY <1>2, <1>3, <1>4, <1>5, <1>6, <1>7 DEF TreeShape

(* A child made where there was none leaves the shape; the nodes that were *)
(* there stay, and its path is the only new one.                           *)
LEMMA ChildAdded ==
  ASSUME TreeTypes, TreeShape, call.at \in Inode, Component \in Name, Child = NULL,
         AddChild, NEW v \in Node, v.full = ChildPath, node' = Extend(node, max_inode, v)
  PROVE  /\ TreeTypes' /\ TreeShape'
         /\ max_inode \in Inode' /\ Inode' = Inode \cup {max_inode} /\ max_inode \notin Inode
         /\ node'[max_inode] = v /\ \A n \in Inode : node'[n] = node[n]
         /\ \A p : Has(p)' <=> Has(p) \/ p = ChildPath
<1> DEFINE at == call.at
           x == Component
           new == max_inode
           full == Append(node[at].full, x)
<1>1. /\ new \in Nat \ {0} /\ max_inode' \in Nat \ {0}
      /\ new \in Inode' /\ Inode' = Inode \cup {new} /\ new \notin Inode
  BY DEF AddChild, TreeTypes, Inode
<1>2. /\ node' \in [Inode' -> Node]
      /\ node'[new] = v /\ \A n \in Inode : node'[n] = node[n]
  BY <1>1 DEF TreeTypes, Extend
<1>3. /\ childs' \in [Inode' -> [Name -> Inode' \cup {NULL}]]
      /\ \A y \in Name : childs'[new][y] = NULL
      /\ childs'[at][x] = new
      /\ \A n \in Inode, y \in Name : n # at \/ y # x => childs'[n][y] = childs[n][y]
  <2>1. DOMAIN childs = Inode /\ childs[at] \in [Name -> Inode \cup {NULL}]
    BY DEF TreeTypes
  <2> DEFINE c == [childs EXCEPT ![at][x] = new]
  <2>2. /\ c \in [Inode -> [Name -> Inode' \cup {NULL}]]
        /\ c[at][x] = new
        /\ \A n \in Inode, y \in Name : n # at \/ y # x => c[n][y] = childs[n][y]
    BY <1>1, <2>1 DEF TreeTypes
  <2>3. childs' = Extend(c, new, NoChilds)
    BY DEF AddChild
  <2>4. /\ childs' \in [Inode' -> [Name -> Inode' \cup {NULL}]]
        /\ childs'[new] = NoChilds /\ \A n \in Inode : childs'[n] = c[n]
    <3>1. NoChilds \in [Name -> Inode' \cup {NULL}]
      BY DEF NoChilds
    <3> HIDE DEF c
    <3> QED BY <1>1, <2>2, <2>3, <3>1 DEF Extend
  <2> HIDE DEF c
  <2>5. \A y \in Name : childs'[new][y] = NULL
    BY <2>4 DEF NoChilds
  <2>6. /\ childs'[at][x] = new
        /\ \A n \in Inode, y \in Name : n # at \/ y # x => childs'[n][y] = childs[n][y]
    BY <2>2, <2>4
  <2> QED BY <2>4, <2>5, <2>6
<1>4. v.full = full /\ node[at].full \in Seq(Name) /\ full \in Seq(Name)
  BY AppendProperties DEF ChildPath, TreeTypes, Node
<1>5. \A n \in Inode : node[n].full \in Seq(Name)
  BY DEF TreeTypes, Node
<1>6. \A p : (\E q \in Inode' : node'[q].full = p) <=> Has(p) \/ p = full
  BY <1>1, <1>2, <1>4 DEF Has
<1>7. \A m \in Inode : node[m].full # full
  <2> SUFFICES ASSUME NEW m \in Inode, node[m].full = full PROVE FALSE
    OBVIOUS
  <2>1. childs[at][x] = m
    BY DEF TreeShape, ChildsKept
  <2>2. m \in Int /\ NULL \notin Int
    BY ItemPropertiesAssumption DEF Inode
  <2> QED BY <2>1, <2>2 DEF Child
<1> HIDE DEF at, x, new, full
<1>8. TreeTypes'
  BY <1>1, <1>2, <1>3 DEF TreeTypes
<1>9. RootFirst'
  BY <1>1, <1>2 DEF TreeShape, RootFirst
<1>10. Unique'
  BY <1>1, <1>2, <1>4, <1>7 DEF TreeShape, Unique
<1>11. ChildsSpelled'
  <2> SUFFICES ASSUME NEW n \in Inode', NEW y \in Name, childs'[n][y] # NULL
               PROVE  node'[childs'[n][y]].full = Append(node'[n].full, y)
    BY DEF ChildsSpelled
  <2>1. n \in Inode
    BY <1>1, <1>3
  <2>2. CASE n = at /\ y = x
    BY <1>2, <1>3, <1>4, <2>1, <2>2 DEF full
  <2>3. CASE n # at \/ y # x
    <3>1. childs'[n][y] = childs[n][y] /\ childs[n][y] \in Inode
      BY <1>3, <2>1, <2>3 DEF TreeTypes
    <3> QED BY <1>2, <2>1, <3>1, SMTT(30) DEF TreeShape, ChildsSpelled
  <2> QED BY <2>2, <2>3
<1>12. Closed'
  <2> SUFFICES ASSUME NEW n \in Inode', NEW j \in 0 .. Len(node'[n].full)
               PROVE  \E q \in Inode' : node'[q].full = Ancestor(node'[n].full, j)
    BY DEF Closed, Has
  <2>1. CASE n \in Inode
    BY <1>2, <1>6, <2>1 DEF TreeShape, Closed
  <2>2. CASE n = new
    <3>1. Len(full) = Len(node[at].full) + 1 /\ Len(node[at].full) \in Nat
      BY <1>4, AppendProperties, LenProperties DEF full, x
    <3>2. node'[n].full = full
      BY <1>2, <1>4, <2>2
    <3>3. CASE j = Len(full)
      BY <1>4, <1>6, <3>2, <3>3, AncestorEnds
    <3>4. CASE j # Len(full)
      <4>1. j \in 0 .. Len(node[at].full)
        BY <3>1, <3>2, <3>4
      <4>2. Ancestor(full, j) = Ancestor(node[at].full, j)
        BY <1>4, <4>1, AncestorOfAppend DEF full, x
      <4>3. Has(Ancestor(node[at].full, j))
        BY <4>1 DEF TreeShape, Closed, at
      <4> QED BY <1>6, <3>2, <4>2, <4>3
    <3> QED BY <3>3, <3>4
  <2> QED BY <1>1, <2>1, <2>2
<1>13. ChildsKept'
  <2> SUFFICES ASSUME NEW n \in Inode', NEW m \in Inode', NEW y \in Name,
                      node'[m].full = Append(node'[n].full, y)
               PROVE  childs'[n][y] = m
    BY DEF ChildsKept
  <2>1. CASE n \in Inode /\ m \in Inode
    <3>1. node[m].full = Append(node[n].full, y) /\ childs[n][y] = m
      BY <1>2, <2>1 DEF TreeShape, ChildsKept
    <3>2. n # at \/ y # x
      BY <1>7, <2>1, <3>1 DEF full
    <3> QED BY <1>3, <2>1, <3>1, <3>2
  <2>2. CASE n \in Inode /\ m = new
    <3>1. Append(node[at].full, x) = Append(node[n].full, y)
      BY <1>2, <1>4, <2>2 DEF full
    <3>2. node[at].full = node[n].full /\ x = y
      <4> DEFINE p == node[at].full
                 q == node[n].full
      <4>1. p \in Seq(Name) /\ q \in Seq(Name) /\ x \in Name /\ y \in Name
        BY <1>4, <1>5, <2>2 DEF x
      <4>2. Append(p, x) = Append(q, y)
        BY <3>1
      <4> HIDE DEF p, q
      <4>3. p = q /\ x = y
        BY <4>1, <4>2, AppendSame
      <4> QED BY <4>3 DEF p, q
    <3>3. at = n
      BY <2>2, <3>2 DEF TreeShape, Unique, at
    <3> QED BY <1>3, <2>2, <3>2, <3>3
  <2>3. CASE n = new /\ m \in Inode
    <3>1. node[m].full = Append(full, y)
      BY <1>2, <1>4, <2>3
    <3>2. Len(full) \in Nat /\ Len(node[m].full) = Len(full) + 1
      BY <1>4, <3>1, AppendProperties, LenProperties
    <3>3. Has(Ancestor(node[m].full, Len(full)))
      BY <2>3, <3>2 DEF TreeShape, Closed
    <3>4. Ancestor(node[m].full, Len(full)) = full
      BY <1>4, <3>1, <3>2, AncestorOfAppend, AncestorEnds
    <3> QED BY <1>7, <3>3, <3>4 DEF Has
  <2>4. CASE n = new /\ m = new
    <3>1. full = Append(full, y)
      BY <1>2, <1>4, <2>4
    <3>2. Len(full) = Len(full) + 1 /\ Len(full) \in Nat
      BY <1>4, <3>1, AppendProperties, LenProperties
    <3> QED BY <3>2
  <2> QED BY <1>1, <2>1, <2>2, <2>3, <2>4
<1>14. TreeShape'
  BY <1>9, <1>10, <1>11, <1>12, <1>13 DEF TreeShape
<1>15. \A p : Has(p)' <=> Has(p) \/ p = ChildPath
  BY <1>6 DEF Has, full, at, x, ChildPath
<1> QED BY <1>1, <1>2, <1>8, <1>14, <1>15 DEF new

-----------------------------------------------------------------------------
(* The items indexed so far, the calls and the answers                     *)

(* Nodes are there for items and what they are in, and for every item that *)
(* has been indexed.                                                       *)
FromItems ==
  \A n \in Inode : node[n].full = <<>> \/ Owners(node[n].full) \cup Heirs(node[n].full) # {}

ItemsThere == \A i \in 1 .. done : Has(PathOf(archive[i]))

AllDone == phase # "indexing" => done = Len(archive)

(* The last of the first d items at p.                                     *)
LastAt(i, p, d) ==
  /\ i \in 1 .. d /\ PathOf(archive[i]) = p
  /\ \A j \in i + 1 .. d : PathOf(archive[j]) # p

SaysItem(n, item) ==
  /\ n.is_dir = Stored(item).is_dir
  /\ n.size = Stored(item).size
  /\ n.A = Stored(item).A
  /\ n.C = Stored(item).C
  /\ (phase = "indexing" \/ NewTime = {}) => n.M = Stored(item).M

(* A node no item has described: it is a directory, and nothing was stored *)
(* in it before a client set its time.                                     *)
Undescribed(n) == n.is_dir /\ (phase = "indexing" => Shown(n) = Unset)

(* A node has the number of the last item at its path, as far as items are *)
(* indexed, and says what that item does; if there is none, it is a        *)
(* directory.                                                              *)
Attributes ==
  \A n \in Inode :
    \/ Undescribed(node[n]) /\ \A i \in 1 .. done : PathOf(archive[i]) # node[n].full
    \/ \E i \in 1 .. done :
         LastAt(i, node[n].full, done) /\ node[n].id = i - 1 /\ SaysItem(node[n], archive[i])

(* An activation of insert or find is at the node of the components it has *)
(* consumed; find has found the node at its path, or there is none.        *)
InsertWay ==
  call.op = "insert" =>
    /\ phase = "indexing" /\ done < Len(archive)
    /\ call.path = PathOf(archive[done + 1])
    /\ call.depth \in 0 .. Len(call.path) - 1
    /\ node[call.at].full = Ancestor(call.path, call.depth)

ServedTo(p) ==
  \A k \in 0 .. Len(p) - 1 : \E m \in Inode : node[m].full = Ancestor(p, k) /\ node[m].is_dir

FindAt ==
  Finding =>
    /\ phase = "mounted"
    /\ ServedTo(call.path)
    /\ call.depth \in 0 .. Len(call.path)
    /\ call.path # <<>> => call.depth # Len(call.path)
    /\ node[call.at].full = Ancestor(call.path, call.depth)

FoundAt ==
  call.op = "found" =>
    /\ phase = "mounted"
    /\ IF call.at = NULL THEN ~Has(call.path) ELSE node[call.at].full = call.path

Calls == InsertWay /\ FindAt /\ FoundAt

(* What has been answered.                                                 *)
Replies ==
  reply # NULL =>
    phase # "indexing" /\ reply.path \in Seq(Name) /\ (reply.err = "OK" <=> Has(reply.path))

Indexed == FromItems /\ ItemsThere /\ AllDone /\ Attributes

Answers == Replies /\ AttributesFaithful /\ ListingFaithful /\ FindSurvives

TreeInv == TypeOK /\ TreeShape /\ Indexed /\ Calls /\ Answers

(* Node::insert is given a string, empty when the item's path is.          *)
LEMMA CharPath ==
  ASSUME NEW item \in Item
  PROVE  FullPath(item) \in String /\ CString(Narrow(FullPath(item))) \in String
<1>1. FullPath(item) \in Seq(Nat)
  <2>1. item.path \in Seq(Nat) \cup {NULL}
    BY DEF Item
  <2> QED BY <2>1, NodeTreeAssumption DEF FullPath
<1> QED BY <1>1, CStringType DEF String

(* What the assumptions say of the archive.                                *)
LEMMA ItemTypes ==
  ASSUME archive \in Archives
  PROVE  /\ Len(archive) \in Nat /\ archive \in Seq(Item)
         /\ \A i \in Items : archive[i] \in Item /\ PathOf(archive[i]) \in Seq(Name) \ {<<>>}
<1>1. archive \in Seq(Item)
  BY NodeTreeAssumption
<1>2. Len(archive) \in Nat /\ \A i \in 1 .. Len(archive) : archive[i] \in Item
  BY <1>1, LenProperties, ElementOfSeq
<1>3. ASSUME NEW i \in 1 .. Len(archive) PROVE PathOf(archive[i]) \in Seq(Name) \ {<<>>}
  <2>1. PathOf(archive[i]) \in Seq(Name)
    BY NodeTreeAssumption
  <2>2. PathOf(archive[i]) # <<>>
    BY <1>2, CharPath, PathKept DEF PathOf
  <2> QED BY <2>1, <2>2
<1> QED BY <1>1, <1>2, <1>3 DEF Items

(* No answer yet, or none any more.                                        *)
LEMMA Unanswered ==
  ASSUME FindSurvives, archive' = archive, reply' = NULL, phase' \in {phase, "indexing", "mounted"}
  PROVE  Answers'
<1>1. Replies' /\ AttributesFaithful' /\ ListingFaithful'
  BY DEF Replies, AttributesFaithful, ListingFaithful, Answered
<1>2. FindSurvives'
  BY DEF FindSurvives, Items, Heirs
<1> QED BY <1>1, <1>2 DEF Answers

(* The parts of an activation of insert or find.                           *)
LEMMA CallParts ==
  ASSUME TypeOK, call.op \in {"insert", "getattr", "readdir", "utimens"}
  PROVE  /\ call.path \in Seq(Name) /\ call.depth \in Nat /\ call.at \in Inode
         /\ Len(call.path) \in Nat
         /\ \A d, n : [call EXCEPT !.depth = d, !.at = n] =
                        [op |-> call.op, path |-> call.path, depth |-> d, at |-> n]
<1>1. call \in [op : {"insert", "getattr", "readdir", "utimens"}, path : Seq(Name),
                depth : Nat, at : Inode]
  BY DEF TypeOK, Idle
<1>2. call.path \in Seq(Name) /\ call.depth \in Nat /\ call.at \in Inode
  BY <1>1
<1>3. \A d, n : [call EXCEPT !.depth = d, !.at = n] =
                  [op |-> call.op, path |-> call.path, depth |-> d, at |-> n]
  <2> TAKE d, n
  <2> DEFINE c == [call EXCEPT !.depth = d, !.at = n]
  <2>1. c \in [op : {call.op}, path : {call.path}, depth : {d}, at : {n}]
    BY <1>1
  <2> HIDE DEF c
  <2>2. c = [op |-> call.op, path |-> call.path, depth |-> d, at |-> n]
    BY <2>1
  <2> QED BY <2>2 DEF c
<1> QED BY <1>2, <1>3, LenProperties

(* The parts of what find has returned.                                    *)
LEMMA FoundParts ==
  ASSUME TypeOK, call.op = "found"
  PROVE  /\ call.path \in Seq(Name) /\ call.at \in Inode \cup {NULL}
         /\ call.for \in {"getattr", "readdir", "utimens"}
BY DEF TypeOK, Idle

(* The child on the way, if there is one, is at one component more.        *)
LEMMA ChildOnWay ==
  ASSUME TypeOK, TreeShape, call.op \in {"insert", "getattr", "readdir", "utimens"},
         call.depth \in 0 .. Len(call.path) - 1,
         node[call.at].full = Ancestor(call.path, call.depth)
  PROVE  /\ Component \in Name
         /\ ChildPath = Ancestor(call.path, call.depth + 1)
         /\ Child \in Inode \cup {NULL}
         /\ Child # NULL => node[Child].full = ChildPath
         /\ Child = NULL => ~Has(ChildPath)
         /\ ~AtLeaf => call.depth + 1 \in 0 .. Len(call.path) - 1
         /\ AtLeaf => ChildPath = call.path
<1>1. call.path \in Seq(Name) /\ call.depth \in Nat /\ call.at \in Inode /\ Len(call.path) \in Nat
  BY CallParts
<1>2. Component \in Name /\ ChildPath = Ancestor(call.path, call.depth + 1)
  BY <1>1, AncestorStep DEF Component, ChildPath
<1>3. Child \in Inode \cup {NULL}
  BY <1>1, <1>2 DEF Child, TypeOK
<1>4. Child # NULL => node[Child].full = ChildPath
  BY <1>1, <1>2 DEF TreeShape, ChildsSpelled, Child, ChildPath
<1>5. ASSUME Child = NULL, NEW m \in Inode, node[m].full = ChildPath PROVE FALSE
  <2>1. Child = m
    BY <1>1, <1>2, <1>5 DEF TreeShape, ChildsKept, Child, ChildPath
  <2>2. m \in Int /\ NULL \notin Int
    BY ItemPropertiesAssumption DEF Inode
  <2> QED BY <1>5, <2>1, <2>2
<1>6. ~AtLeaf => call.depth + 1 \in 0 .. Len(call.path) - 1
  BY <1>1 DEF AtLeaf
<1>7. AtLeaf => ChildPath = call.path
  BY <1>1, <1>2, AncestorEnds DEF AtLeaf
<1> QED BY <1>2, <1>3, <1>4, <1>5, <1>6, <1>7 DEF Has

(* A step that leaves everything but the call, or that and the phase.      *)
LEMMA CallMoves ==
  ASSUME TreeInv, UNCHANGED <<archive, phase, done, max_inode, node, childs>>,
         reply' \in {reply, NULL}, Calls',
         call' \in {Idle}
           \cup [op : {"insert", "getattr", "readdir", "utimens"}, path : Seq(Name),
                 depth : Nat, at : Inode]
           \cup [op : {"found"}, for : {"getattr", "readdir", "utimens"}, path : Seq(Name),
                 at : Inode \cup {NULL}]
  PROVE  TreeInv'
<1>1. Inode' = Inode /\ Items' = Items
  BY DEF Inode, Items
<1>2. TypeOK'
  BY <1>1 DEF TreeInv, TypeOK
<1>3. TreeShape'
  BY <1>1 DEF TreeInv, TreeShape, RootFirst, ChildsSpelled, ChildsKept, Closed, Unique, Has
<1>4. Indexed'
  BY <1>1 DEF TreeInv, Indexed, FromItems, ItemsThere, AllDone, Attributes, Undescribed, LastAt,
          SaysItem, Has,
              Owners, Heirs
<1>5. ASSUME reply' = NULL PROVE Answers'
  BY <1>5, Unanswered DEF TreeInv, Answers
<1>6. ASSUME reply' = reply PROVE Answers'
  <2>1. Replies'
    BY <1>1, <1>6 DEF TreeInv, Answers, Replies, Has
  <2>2. AttributesFaithful'
    BY <1>1, <1>6 DEF TreeInv, Answers, AttributesFaithful, Answered, Owners
  <2>3. ListingFaithful'
    BY <1>1, <1>6 DEF TreeInv, Answers, ListingFaithful, Answered, Heirs
  <2>4. FindSurvives'
    BY <1>1 DEF TreeInv, Answers, FindSurvives, Heirs
  <2> QED BY <2>1, <2>2, <2>3, <2>4 DEF Answers
<1>7. Answers'
  BY <1>5, <1>6
<1> QED BY <1>2, <1>3, <1>4, <1>7 DEF TreeInv

-----------------------------------------------------------------------------
(* Indexing keeps the invariant                                            *)

(* An item is below p exactly when p is on the way to it.                  *)
LEMMA HeirOnWay ==
  ASSUME archive \in Archives, NEW i \in Items
  PROVE  /\ \A p : i \in Heirs(p) => /\ Len(p) < Len(PathOf(archive[i]))
                                     /\ p = Ancestor(PathOf(archive[i]), Len(p))
         /\ \A k \in 0 .. Len(PathOf(archive[i])) - 1 :
              i \in Heirs(Ancestor(PathOf(archive[i]), k))
<1> DEFINE q == PathOf(archive[i])
<1>1. q \in Seq(Name)
  BY ItemTypes
<1> HIDE DEF q
<1>2. ASSUME NEW k \in 0 .. Len(q) - 1 PROVE IsProperPrefix(Ancestor(q, k), q)
  <2>1. Len(q) \in Nat /\ k \in 0 .. Len(q) /\ k < Len(q)
    BY <1>1, LenProperties
  <2>2. Len(Ancestor(q, k)) = k
    BY <1>1, <2>1, AncestorIs
  <2> QED BY <2>1, <2>2 DEF IsProperPrefix, Ancestor
<1>3. \A p : IsProperPrefix(p, q) => Len(p) < Len(q) /\ p = Ancestor(q, Len(p))
  BY DEF IsProperPrefix, Ancestor
<1> QED BY <1>2, <1>3 DEF q, Heirs

(* The new directory on the way to an item is one that is below it, and no *)
(* item indexed before is there.                                           *)
LEMMA DirIndexed ==
  ASSUME TreeInv, call.op = "insert", ~AtLeaf, Child = NULL,
         UNCHANGED <<archive, phase, done>>,
         NEW c \in Inode', Inode' = Inode \cup {c}, c \notin Inode,
         node'[c].full = ChildPath, node'[c].is_dir, Shown(node'[c]) = Unset,
         \A n \in Inode : node'[n] = node[n]
  PROVE  Indexed'
<1> DEFINE q == PathOf(archive[done + 1])
<1>1. /\ phase = "indexing" /\ done \in Nat /\ done + 1 \in Items /\ call.path = q
      /\ call.depth \in 0 .. Len(q) - 1 /\ archive \in Archives
      /\ 1 .. done \subseteq Items
  BY ItemTypes DEF TreeInv, TypeOK, Calls, InsertWay, Items
<1>2. /\ ChildPath = Ancestor(q, call.depth + 1) /\ ~Has(ChildPath)
      /\ call.depth + 1 \in 0 .. Len(q) - 1
  BY <1>1, ChildOnWay DEF TreeInv, Calls, InsertWay
<1>3. done + 1 \in Heirs(ChildPath)
  BY <1>1, <1>2, HeirOnWay
<1> HIDE DEF q
<1>4. \A p : Owners(p)' = Owners(p) /\ Heirs(p)' = Heirs(p)
  BY DEF Owners, Heirs, Items
<1>5. FromItems'
  BY <1>3, <1>4 DEF FromItems, TreeInv, Indexed
<1>6. ItemsThere'
  BY DEF ItemsThere, Has, TreeInv, Indexed
<1>7. AllDone'
  BY DEF AllDone, TreeInv, Indexed
<1>8. \A i \in 1 .. done : PathOf(archive[i]) # ChildPath
  BY <1>2 DEF ItemsThere, TreeInv, Indexed
<1>9. Attributes'
  BY <1>8 DEF Attributes, Undescribed, LastAt, SaysItem, TreeInv, Indexed
<1> QED BY <1>5, <1>6, <1>7, <1>9 DEF Indexed

(* The node at its path says the item just indexed, and the others are as  *)
(* they were.                                                              *)
LEMMA ItemIndexed ==
  ASSUME TreeInv, call.op = "insert", done' = done + 1, UNCHANGED <<archive, phase>>,
         NEW c \in Inode', Inode' = Inode \cup {c},
         node'[c].full = call.path, node'[c].id = done, SaysItem(node'[c], archive[done + 1]),
         \A n \in Inode : n # c => node'[n] = node[n] /\ node[n].full # call.path,
         c \in Inode => node[c].full = call.path
  PROVE  Indexed'
<1>1. /\ phase = "indexing" /\ done \in Nat /\ done + 1 \in Items /\ archive \in Archives
      /\ call.path = PathOf(archive[done + 1])
  BY ItemTypes DEF TreeInv, TypeOK, Calls, InsertWay, Items
<1>2. 1 .. done' = 1 .. done \cup {done + 1}
  BY <1>1
<1>3. \A p : Owners(p)' = Owners(p) /\ Heirs(p)' = Heirs(p)
  BY DEF Owners, Heirs, Items
<1>4. FromItems'
  <2>1. done + 1 \in Owners(call.path)
    BY <1>1 DEF Owners
  <2> QED BY <1>3, <2>1 DEF FromItems, TreeInv, Indexed
<1>5. ItemsThere'
  <2> SUFFICES ASSUME NEW i \in 1 .. done'
               PROVE  \E n \in Inode' : node'[n].full = PathOf(archive[i])
    BY DEF ItemsThere, Has
  <2>1. CASE i = done + 1
    BY <1>1, <2>1
  <2>2. CASE i \in 1 .. done
    <3>1. PICK n \in Inode : node[n].full = PathOf(archive[i])
      BY <2>2 DEF TreeInv, Indexed, ItemsThere, Has
    <3>2. CASE n = c
      BY <3>1, <3>2
    <3>3. CASE n # c
      BY <3>1, <3>3
    <3> QED BY <3>2, <3>3
  <2> QED BY <1>2, <2>1, <2>2
<1>6. AllDone'
  BY <1>1 DEF AllDone
<1>7. Attributes'
  <2> SUFFICES ASSUME NEW n \in Inode'
               PROVE  \/ /\ Undescribed(node'[n])
                         /\ \A i \in 1 .. done' : PathOf(archive[i]) # node'[n].full
                      \/ \E i \in 1 .. done' :
                           /\ LastAt(i, node'[n].full, done') /\ node'[n].id = i - 1
                           /\ SaysItem(node'[n], archive[i])
    BY DEF Attributes, Undescribed, LastAt, SaysItem
  <2>1. CASE n = c
    <3>1. done + 1 \in 1 .. done' /\ \A j \in done + 1 + 1 .. done' : FALSE
      BY <1>1
    <3>2. LastAt(done + 1, call.path, done')
      BY <1>1, <3>1 DEF LastAt
    <3> DEFINE k == done + 1
    <3>3. LastAt(k, node'[n].full, done') /\ SaysItem(node'[n], archive[k])
      BY <1>1, <2>1, <3>2 DEF LastAt
    <3>4. k \in 1 .. done' /\ node'[n].id = k - 1
      BY <1>1, <2>1
    <3> HIDE DEF k
    <3> QED BY <3>3, <3>4
  <2>2. CASE n # c
    <3>1. n \in Inode /\ node'[n] = node[n] /\ PathOf(archive[done + 1]) # node[n].full
      BY <1>1, <2>2
    <3>2. CASE Undescribed(node[n]) /\ \A i \in 1 .. done : PathOf(archive[i]) # node[n].full
      BY <1>2, <3>1, <3>2
    <3>3. ASSUME NEW i \in 1 .. done, LastAt(i, node[n].full, done), SaysItem(node[n], archive[i])
          PROVE  i \in 1 .. done' /\ LastAt(i, node'[n].full, done')
      <4>1. i \in 1 .. done' /\ i + 1 .. done' = i + 1 .. done \cup {done + 1}
        BY <1>1
      <4> QED BY <3>1, <3>3, <4>1 DEF LastAt
    <3> QED BY <3>1, <3>2, <3>3 DEF TreeInv, Indexed, Attributes, Undescribed
  <2> QED BY <2>1, <2>2
<1> QED BY <1>4, <1>5, <1>6, <1>7 DEF Indexed

-----------------------------------------------------------------------------
(* The invariant                                                           *)

(* The root alone is there, and nothing runs.                              *)
LEMMA TreeInit == Init => TreeInv
<1> SUFFICES ASSUME Init PROVE TreeInv
  OBVIOUS
<1> DEFINE root == NewNode(NULL, <<>>, TRUE)
<1>1. Inode = {ROOT} /\ ROOT \in Nat
  BY DEF Init, Inode, ROOT
<1>2. <<>> \in Seq(Name) /\ Len(<<>>) = 0
  BY EmptySeq
<1>3. root \in Node /\ root.full = <<>> /\ root.is_dir /\ Shown(root) = Unset
  BY <1>2, NewNodeType
<1>4. node[ROOT] = root /\ node \in [Inode -> Node]
  BY <1>1, <1>3 DEF Init
<1>5. childs \in [Inode -> [Name -> Inode \cup {NULL}]] /\ \A x \in Name : childs[ROOT][x] = NULL
  BY <1>1 DEF Init, NoChilds
<1>6. TypeOK
  <2>1. archive \in Archives /\ done \in 0 .. Len(archive) /\ max_inode \in Nat \ {0}
    BY ItemTypes DEF Init
  <2>2. phase = "indexing" /\ call = Idle
    BY DEF Init
  <2> QED BY <1>4, <1>5, <2>1, <2>2 DEF TypeOK
<1>7. TreeShape
  <2>1. RootFirst /\ Unique /\ ChildsSpelled
    BY <1>1, <1>3, <1>4, <1>5 DEF RootFirst, Unique, ChildsSpelled
  <2>2. Closed
    <3>1. \A k \in 0 .. Len(<<>>) : k = 0
      BY <1>2
    <3>2. Ancestor(<<>>, 0) = <<>>
      BY <1>2, AncestorEnds
    <3> HIDE DEF root
    <3> QED BY <1>1, <1>3, <1>4, <3>1, <3>2 DEF Closed, Has
  <2>3. ChildsKept
    <3> SUFFICES ASSUME NEW x \in Name, <<>> = Append(<<>>, x) PROVE FALSE
      BY <1>1, <1>3, <1>4 DEF ChildsKept
    <3>1. Len(Append(<<>>, x)) = Len(<<>>) + 1
      BY <1>2, AppendProperties
    <3> QED BY <1>2, <3>1
  <2> QED BY <2>1, <2>2, <2>3 DEF TreeShape
<1>8. Indexed
  <2>1. done = 0 /\ phase = "indexing"
    BY DEF Init
  <2>2. \A n \in Inode : node[n].full = <<>> /\ node[n].is_dir /\ Shown(node[n]) = Unset
    BY <1>1, <1>3, <1>4
  <2>3. \A i \in 1 .. done : FALSE
    BY <2>1
  <2>4. FromItems /\ Attributes
    BY <2>2, <2>3 DEF FromItems, Attributes, Undescribed
  <2> QED BY <2>1, <2>3, <2>4 DEF Indexed, ItemsThere, AllDone
<1>9. Calls
  <2>1. call.op = "idle"
    BY DEF Init, Idle
  <2> QED BY <2>1 DEF Calls, InsertWay, FindAt, FoundAt, Finding
<1>10. Answers
  BY DEF Init, Answers, Replies, AttributesFaithful, ListingFaithful, FindSurvives, Answered
<1> QED BY <1>6, <1>7, <1>8, <1>9, <1>10 DEF TreeInv

(* The call that an activation becomes when it goes on in n.               *)
LEMMA DescendsTo ==
  ASSUME TypeOK, call.op \in {"insert", "getattr", "readdir", "utimens"}, NEW n, Descend(n)
  PROVE  /\ call' = [op |-> call.op, path |-> call.path, depth |-> call.depth + 1, at |-> n]
         /\ call'.op = call.op /\ call'.path = call.path /\ call'.at = n
         /\ call'.depth = call.depth + 1
<1>1. call' = [op |-> call.op, path |-> call.path, depth |-> call.depth + 1, at |-> n]
  BY CallParts DEF Descend
<1> QED BY <1>1

(* NextItem, InsertBelow, InsertSubdir, InsertLeaf and Mount.              *)
LEMMA IndexingKeeps == TreeInv /\ Indexing => TreeInv'
<1> SUFFICES ASSUME TreeInv, Indexing PROVE TreeInv'
  OBVIOUS
<1>1. TypeOK /\ TreeTypes /\ TreeShape
  BY DEF TreeInv, TypeOK, TreeTypes
<1>2. CASE NextItem
  <2>1. done \in Nat /\ done + 1 \in Items
    BY <1>2, ItemTypes DEF TreeInv, TypeOK, NextItem, Items
  <2> DEFINE q == PathOf(archive[done + 1])
  <2>2. q \in Seq(Name) /\ q # <<>>
    BY <2>1, ItemTypes DEF TreeInv, TypeOK
  <2>3. Len(q) \in Nat /\ Len(q) # 0
    BY <2>2, LenProperties, EmptySeq
  <2>4. ROOT \in Inode /\ node[ROOT].full = Ancestor(q, 0)
    BY <2>2, AncestorEnds DEF TreeInv, TreeShape, RootFirst
  <2>5. call' = [op |-> "insert", path |-> q, depth |-> 0, at |-> ROOT]
    BY <1>2 DEF NextItem, Call
  <2>6. archive' = archive /\ phase' = phase /\ done' = done /\ node' = node
        /\ phase = "indexing" /\ done < Len(archive)
    BY <1>2 DEF NextItem
  <2> HIDE DEF q
  <2>7. Calls'
    <3>1. InsertWay'
      BY <2>3, <2>4, <2>5, <2>6 DEF InsertWay, q
    <3>2. FindAt' /\ FoundAt'
      BY <2>5 DEF FindAt, FoundAt, Finding
    <3> QED BY <3>1, <3>2 DEF Calls
  <2>8. call' \in [op : {"insert", "getattr", "readdir", "utimens"}, path : Seq(Name),
                   depth : Nat, at : Inode]
    BY <2>2, <2>4, <2>5
  <2> QED BY <1>2, <2>7, <2>8, CallMoves DEF NextItem
<1>3. CASE InsertBelow
  <2>1. call.op = "insert" /\ ~AtLeaf /\ Child # NULL /\ Descend(Child)
    BY <1>3 DEF InsertBelow
  <2>2. /\ Child \in Inode /\ node[Child].full = Ancestor(call.path, call.depth + 1)
        /\ call.depth + 1 \in 0 .. Len(call.path) - 1
    BY <1>1, <2>1, ChildOnWay DEF TreeInv, Calls, InsertWay
  <2>3. call' = [op |-> "insert", path |-> call.path, depth |-> call.depth + 1, at |-> Child]
    BY <1>1, <2>1, DescendsTo
  <2>4. archive' = archive /\ phase' = phase /\ done' = done /\ node' = node
    BY <1>3 DEF InsertBelow
  <2>5. Calls'
    <3>1. InsertWay'
      BY <2>1, <2>2, <2>3, <2>4 DEF TreeInv, Calls, InsertWay
    <3>2. FindAt' /\ FoundAt'
      BY <2>3 DEF FindAt, FoundAt, Finding
    <3> QED BY <3>1, <3>2 DEF Calls
  <2>6. call' \in [op : {"insert", "getattr", "readdir", "utimens"}, path : Seq(Name),
                   depth : Nat, at : Inode]
    <3>1. call.path \in Seq(Name) /\ call.depth \in Nat
      BY <1>1, <2>1, CallParts
    <3> QED BY <2>2, <2>3, <3>1
  <2> QED BY <1>3, <2>5, <2>6, CallMoves DEF InsertBelow
<1>4. CASE InsertSubdir
  <2>1. call.op = "insert" /\ ~AtLeaf /\ Child = NULL /\ AddChild /\ Descend(max_inode)
    BY <1>4 DEF InsertSubdir
  <2>2. /\ Component \in Name /\ ChildPath = Ancestor(call.path, call.depth + 1)
        /\ call.depth + 1 \in 0 .. Len(call.path) - 1
        /\ call.at \in Inode /\ call.path \in Seq(Name) /\ call.depth \in Nat
    BY <1>1, <2>1, ChildOnWay, CallParts DEF TreeInv, Calls, InsertWay
  <2> DEFINE v == NewNode(call.at, ChildPath, TRUE)
  <2>3. v \in Node /\ v.full = ChildPath /\ v.is_dir /\ Shown(v) = Unset
    <3>1. node[call.at].full \in Seq(Name) /\ call.at \in Nat
      BY <1>1, <2>2 DEF TreeTypes, Node, Inode
    <3>2. ChildPath \in Seq(Name)
      BY <2>2, <3>1, AppendProperties DEF ChildPath
    <3> QED BY <3>1, <3>2, NewNodeType
  <2>4. node' = Extend(node, max_inode, v)
    BY <1>4 DEF InsertSubdir
  <2> HIDE DEF v
  <2>5. /\ TreeTypes' /\ TreeShape'
        /\ max_inode \in Inode' /\ Inode' = Inode \cup {max_inode} /\ max_inode \notin Inode
        /\ node'[max_inode] = v /\ \A n \in Inode : node'[n] = node[n]
    BY <1>1, <2>1, <2>2, <2>3, <2>4, ChildAdded
  <2>6. UNCHANGED <<archive, phase, done, reply>>
    BY <1>4 DEF InsertSubdir
  <2>7. Indexed'
    BY <2>1, <2>3, <2>5, <2>6, DirIndexed
  <2>8. call' = [op |-> "insert", path |-> call.path, depth |-> call.depth + 1, at |-> max_inode]
    BY <1>1, <2>1, DescendsTo
  <2>9. Calls'
    <3>1. InsertWay'
      BY <2>1, <2>2, <2>3, <2>5, <2>6, <2>8 DEF TreeInv, Calls, InsertWay
    <3>2. FindAt' /\ FoundAt'
      BY <2>8 DEF FindAt, FoundAt, Finding
    <3> QED BY <3>1, <3>2 DEF Calls
  <2>10. TypeOK'
    <3>1. call' \in [op : {"insert", "getattr", "readdir", "utimens"}, path : Seq(Name),
                     depth : Nat, at : Inode']
      BY <2>2, <2>5, <2>8
    <3>2. archive' \in Archives /\ done' \in 0 .. Len(archive')
          /\ phase' \in {"indexing", "mounted", "crashed"}
      BY <1>1, <2>6 DEF TypeOK
    <3> QED BY <2>5, <3>1, <3>2 DEF TypeOK, TreeTypes
  <2>11. Answers'
    <3>1. reply' = NULL
      BY <2>1, <2>6 DEF TreeInv, Answers, Replies, Calls, InsertWay
    <3> QED BY <2>6, <3>1, Unanswered DEF TreeInv, Answers
  <2> QED BY <2>5, <2>7, <2>9, <2>10, <2>11 DEF TreeInv
<1>5. CASE InsertLeaf
  <2> DEFINE item == archive[done + 1]
  <2>1. /\ call.op = "insert" /\ AtLeaf /\ call' = Idle /\ done' = done + 1
        /\ UNCHANGED <<archive, phase, reply>>
    BY <1>5 DEF InsertLeaf, ItemDone
  <2>2. /\ done \in Nat /\ done < Len(archive) /\ Len(archive) \in Nat
        /\ done + 1 \in Items /\ item \in Item
    BY <2>1, ItemTypes DEF TreeInv, TypeOK, Calls, InsertWay, Items
  <2>3. /\ Component \in Name /\ ChildPath = call.path /\ Child \in Inode \cup {NULL}
        /\ call.at \in Inode /\ call.path \in Seq(Name)
        /\ Child = NULL => ~Has(call.path)
        /\ Child # NULL => node[Child].full = call.path
    BY <1>1, <2>1, ChildOnWay, CallParts DEF TreeInv, Calls, InsertWay
  <2>4. TreeTypes' /\ TreeShape' /\ Indexed'
    <3>1. CASE Child = NULL
      <4> DEFINE new == NewNode(call.at, ChildPath, FALSE)
                 v == Filled(new, item)
      <4>1. new \in Node /\ new.full = call.path
        <5>1. call.at \in Nat \cup {NULL} /\ ChildPath \in Seq(Name) /\ FALSE \in BOOLEAN
          BY <2>3 DEF Inode
        <5> QED BY <2>3, <5>1, NewNodeType
      <4> HIDE DEF new
      <4>2. v \in Node /\ v.full = call.path /\ v.id = done
        BY <2>2, <4>1, FilledType
      <4>3. SaysItem(v, item)
        BY <2>2, <4>1, FilledType DEF SaysItem
      <4>4. AddChild /\ node' = Extend(node, max_inode, v)
        BY <1>5, <2>3, <3>1 DEF InsertLeaf, new, Inode
      <4> HIDE DEF v, item
      <4>5. /\ TreeTypes' /\ TreeShape'
            /\ max_inode \in Inode' /\ Inode' = Inode \cup {max_inode} /\ max_inode \notin Inode
            /\ node'[max_inode] = v /\ \A n \in Inode : node'[n] = node[n]
        BY <1>1, <2>3, <3>1, <4>2, <4>4, ChildAdded
      <4>6. \A n \in Inode : node[n].full # call.path
        BY <2>3, <3>1 DEF Has
      <4>7. Indexed'
        BY <2>1, <4>2, <4>3, <4>5, <4>6, ItemIndexed DEF item
      <4> QED BY <4>5, <4>7
    <3>2. CASE Child # NULL
      <4> DEFINE v == Filled(node[Child], item)
      <4>1. Child \in Inode /\ node[Child] \in Node /\ node[Child].full = call.path
        BY <1>1, <2>3, <3>2 DEF TreeTypes
      <4>2. v \in Node /\ v.full = call.path /\ v.id = done
        BY <2>2, <4>1, FilledType
      <4>3. SaysItem(v, item)
        BY <2>2, <4>1, FilledType DEF SaysItem
      <4>4. node' = [node EXCEPT ![Child] = v] /\ UNCHANGED <<max_inode, childs>>
        BY <1>5, <3>2 DEF InsertLeaf
      <4> HIDE DEF v, item
      <4>5. node' \in [Inode -> Node] /\ node'[Child] = v
            /\ \A n \in Inode : n # Child => node'[n] = node[n]
        BY <1>1, <4>1, <4>2, <4>4 DEF TreeTypes
      <4>6. TreeTypes' /\ TreeShape'
        BY <1>1, <4>1, <4>2, <4>4, <4>5, SamePaths
      <4>7. Inode' = Inode
        BY <4>4 DEF Inode
      <4>8. \A n \in Inode : n # Child => node[n].full # call.path
        BY <1>1, <4>1 DEF TreeShape, Unique
      <4>9. Indexed'
        BY <2>1, <4>1, <4>2, <4>3, <4>5, <4>7, <4>8, ItemIndexed DEF item
      <4> QED BY <4>6, <4>9
    <3> QED BY <3>1, <3>2
  <2>5. TypeOK'
    <3>1. done' \in 0 .. Len(archive')
      BY <2>1, <2>2
    <3>2. archive' \in Archives /\ phase' \in {"indexing", "mounted", "crashed"}
      BY <1>1, <2>1 DEF TypeOK
    <3> QED BY <2>1, <2>4, <3>1, <3>2 DEF TypeOK, TreeTypes
  <2>6. Calls'
    <3>1. call'.op = "idle"
      BY <2>1 DEF Idle
    <3> QED BY <3>1 DEF Calls, InsertWay, FindAt, FoundAt, Finding
  <2>7. Answers'
    <3>1. reply' = NULL
      BY <2>1 DEF TreeInv, Answers, Replies, Calls, InsertWay
    <3> QED BY <2>1, <3>1, Unanswered DEF TreeInv, Answers
  <2> QED BY <2>4, <2>5, <2>6, <2>7 DEF TreeInv
<1>6. CASE Mount
  <2>1. /\ phase = "indexing" /\ done = Len(archive) /\ phase' = "mounted" /\ call = Idle
        /\ UNCHANGED <<archive, done, max_inode, node, childs, call, reply>>
    BY <1>6 DEF Mount
  <2>2. Inode' = Inode
    BY <2>1 DEF Inode
  <2>3. TypeOK'
    BY <1>1, <2>1, <2>2 DEF TypeOK
  <2>4. TreeShape'
    BY <1>1, <2>1, SamePaths DEF TreeTypes
  <2>5. Indexed'
    <3>1. FromItems' /\ ItemsThere' /\ AllDone'
      BY <2>1, <2>2 DEF TreeInv, Indexed, FromItems, ItemsThere, AllDone, Has, Owners, Heirs, Items
    <3>2. Attributes'
      BY <2>1, <2>2 DEF TreeInv, Indexed, Attributes, Undescribed, LastAt, SaysItem
    <3> QED BY <3>1, <3>2 DEF Indexed
  <2>6. Calls'
    <3>1. call'.op = "idle"
      BY <2>1 DEF Idle
    <3> QED BY <3>1 DEF Calls, InsertWay, FindAt, FoundAt, Finding
  <2>7. Answers'
    <3>1. reply' = NULL
      BY <2>1 DEF TreeInv, Answers, Replies
    <3> QED BY <2>1, <3>1, Unanswered DEF TreeInv, Answers
  <2> QED BY <2>3, <2>4, <2>5, <2>6, <2>7 DEF TreeInv
<1> QED BY <1>2, <1>3, <1>4, <1>5, <1>6 DEF Indexing

-----------------------------------------------------------------------------
(* Requests keep the invariant                                             *)

(* What the kernel asks about is below directories that are there.         *)
LEMMA AskedServed ==
  ASSUME TreeInv, NEW op, NEW path \in Seq(Name), Asked(op, path)
  PROVE  ServedTo(path)
<1>1. CASE path = <<>>
  <2>1. Len(path) = 0
    BY <1>1, EmptySeq
  <2> QED BY <2>1 DEF ServedTo
<1>2. CASE path # <<>>
  <2>1. DOMAIN node = Inode
    BY DEF TreeInv, TypeOK
  <2>2. PICK n \in Inode, x \in Name : Walkable(n) /\ node[n].is_dir /\ path = Append(node[n].full, x)
    BY <1>2, <2>1 DEF Asked
  <2> DEFINE p == node[n].full
  <2>3. p \in Seq(Name) /\ Len(p) \in Nat
    BY LenProperties DEF TreeInv, TypeOK, Node
  <2>4. \A k \in 0 .. Len(p) - 1 : \E m \in Inode : node[m].full = Ancestor(p, k) /\ node[m].is_dir
    BY <2>1, <2>2 DEF Walkable, Ancestor
  <2>5. node[n].full = p /\ node[n].is_dir /\ path = Append(p, x)
    BY <2>2
  <2> HIDE DEF p
  <2>6. Len(path) = Len(p) + 1
    BY <2>3, <2>5, AppendProperties
  <2> SUFFICES ASSUME NEW k \in 0 .. Len(path) - 1
               PROVE  \E m \in Inode : node[m].full = Ancestor(path, k) /\ node[m].is_dir
    BY DEF ServedTo
  <2>7. k \in 0 .. Len(p)
    BY <2>3, <2>6
  <2>8. Ancestor(path, k) = Ancestor(p, k)
    BY <2>3, <2>5, <2>7, AncestorOfAppend
  <2>9. CASE k = Len(p)
    BY <2>3, <2>5, <2>8, <2>9, AncestorEnds
  <2>10. CASE k # Len(p)
    <3>1. k \in 0 .. Len(p) - 1
      BY <2>3, <2>7, <2>10
    <3> QED BY <2>4, <2>8, <3>1
  <2> QED BY <2>9, <2>10
<1> QED BY <1>1, <1>2

(* getattr, readdir and utimens start at the root, below directories that  *)
(* are there.                                                              *)
LEMMA RequestsKeep == TreeInv /\ Requests => TreeInv'
<1> SUFFICES ASSUME TreeInv, Requests PROVE TreeInv'
  OBVIOUS
<1>1. PICK op \in {"getattr", "readdir", "utimens"}, path \in Seq(Name) : Request(op, path)
  <2>1. \A n \in DOMAIN node, x \in Name : Append(node[n].full, x) \in Seq(Name)
    BY AppendProperties DEF TreeInv, TypeOK, Node
  <2>2. <<>> \in Seq(Name)
    BY EmptySeq
  <2> QED BY <2>1, <2>2 DEF Requests
<1>2. /\ phase = "mounted" /\ Asked(op, path) /\ reply' = NULL
      /\ call' = [op |-> op, path |-> path, depth |-> 0, at |-> ROOT]
      /\ UNCHANGED <<archive, phase, done, max_inode, node, childs>>
  BY <1>1 DEF Request, Call
<1>3. Len(path) \in Nat /\ (path # <<>> => Len(path) # 0)
  BY LenProperties, EmptySeq
<1>4. ROOT \in Inode /\ node[ROOT].full = Ancestor(path, 0)
  BY AncestorEnds DEF TreeInv, TreeShape, RootFirst
<1>5. Inode' = Inode
  BY <1>2 DEF Inode
<1>6. FindAt'
  BY <1>2, <1>3, <1>4, <1>5, AskedServed DEF FindAt, ServedTo
<1>7. InsertWay' /\ FoundAt'
  BY <1>2 DEF InsertWay, FoundAt
<1>8. call' \in [op : {"insert", "getattr", "readdir", "utimens"}, path : Seq(Name),
                 depth : Nat, at : Inode]
  BY <1>2, <1>4
<1> QED BY <1>2, <1>6, <1>7, <1>8, CallMoves DEF Calls

(* A component that does not fit find's buffer is the name of a directory, *)
(* one that has items below it or that the archive says is one.            *)
LEMMA TooLong ==
  ASSUME TreeInv, phase = "mounted", NEW path \in Seq(Name), ServedTo(path),
         NEW k \in 1 .. Len(path) - 1, Len(path[k]) >= POUET
  PROVE  \E i \in Items : \E d \in 1 .. Len(PathOf(archive[i])) :
           /\ Len(PathOf(archive[i])[d]) >= POUET
           /\ \/ Heirs(SubSeq(PathOf(archive[i]), 1, d)) # {}
              \/ IsDir(archive[i].dir)
<1> DEFINE p == Ancestor(path, k)
<1>1. Len(path) \in Nat /\ k \in 0 .. Len(path) /\ k \in 0 .. Len(path) - 1 /\ k \in 1 .. k
  BY LenProperties
<1>2. p \in Seq(Name) /\ Len(p) = k /\ p[k] = path[k]
  BY <1>1, AncestorIs
<1>3. PICK m \in Inode : node[m].full = p /\ node[m].is_dir
  BY <1>1 DEF ServedTo
<1>4. archive \in Archives /\ done = Len(archive) /\ 1 .. done = Items
  BY DEF TreeInv, TypeOK, Indexed, AllDone, Items
<1> HIDE DEF p
<1>5. p # <<>>
  BY <1>2, EmptySeq
<1>6. CASE \E i \in Items : i \in Heirs(p)
  <2>1. PICK i \in Items : i \in Heirs(p)
    BY <1>6
  <2> DEFINE q == PathOf(archive[i])
  <2>2. q \in Seq(Name) /\ Len(q) \in Nat
    BY <1>4, ItemTypes, LenProperties
  <2>3. k < Len(q) /\ p = Ancestor(q, k)
    BY <1>2, <1>4, <2>1, HeirOnWay
  <2> HIDE DEF q
  <2>4. k \in 1 .. Len(q) /\ k \in 0 .. Len(q) - 1 /\ k \in 0 .. Len(q)
    BY <1>1, <2>2, <2>3
  <2>5. q[k] = path[k]
    BY <1>1, <1>2, <2>2, <2>3, <2>4, AncestorIs
  <2>6. i \in Heirs(SubSeq(q, 1, k))
    BY <2>1, <2>3 DEF Ancestor
  <2> QED BY <2>4, <2>5, <2>6 DEF q
<1>7. CASE ~ \E i \in Items : i \in Heirs(p)
  <2>1. Heirs(p) = {}
    BY <1>7 DEF Heirs
  <2>2. PICK j \in Items : PathOf(archive[j]) = p
    BY <1>3, <1>5, <2>1 DEF TreeInv, Indexed, FromItems, Owners
  <2>3. PICK i \in Items : PathOf(archive[i]) = p /\ SaysItem(node[m], archive[i])
    BY <1>3, <1>4, <2>2 DEF TreeInv, Indexed, Attributes, Undescribed, LastAt
  <2>4. IsDir(archive[i].dir)
    <3>1. archive[i] \in Item
      BY <1>4, ItemTypes
    <3> QED BY <1>3, <2>3, <3>1, StoredType DEF SaysItem
  <2>5. k \in 1 .. Len(p)
    BY <1>1, <1>2
  <2> QED BY <1>2, <2>3, <2>4, <2>5
<1> QED BY <1>6, <1>7

-----------------------------------------------------------------------------
(* Answers                                                                 *)

(* What the getters and conversions keep of an item.                       *)
LEMMA ItemSaid ==
  ASSUME NEW item \in Item, NEW n, SaysItem(n, item)
  PROVE  /\ n.is_dir = (item.dir.vt = "BOOL" /\ item.dir.val # 0)
         /\ (item.size.vt \in {"UI4", "UI8"} /\ item.size.val < WIDTH \div 2) =>
              n.size = item.size.val
         /\ TimeKept(item.A, n.A)
         /\ TimeKept(item.C, n.C)
         /\ NewTime = {} => TimeKept(item.M, n.M)
<1> DEFINE a == Local(GetFileTimeProperty(item.A), JUNK)
           c == Local(GetFileTimeProperty(item.C), a)
           m == Local(GetFileTimeProperty(item.M), c)
           z == Local(GetUInt64Property(item.size), JUNK)
<1>1. item.A \in PropVariant /\ item.C \in PropVariant /\ item.M \in PropVariant
      /\ item.size \in PropVariant
  BY DEF Item
<1>2. a \in (0 .. WIDTH - 1) \cup {JUNK} /\ (item.A.vt = "FILETIME" => a = item.A.val)
  BY <1>1, LocalType
<1>3. c \in (0 .. WIDTH - 1) \cup {JUNK} /\ (item.C.vt = "FILETIME" => c = item.C.val)
  BY <1>1, <1>2, LocalType
<1>4. item.M.vt = "FILETIME" => m = item.M.val
  BY <1>1, <1>3, LocalType
<1>5. item.size.vt \in {"UI4", "UI8"} => z = item.size.val
  BY <1>1, LocalType
<1>6. Stored(item) = [is_dir |-> IsDir(item.dir), size |-> OffT(z),
                      A |-> Timespec(a), C |-> Timespec(c), M |-> Timespec(m)]
  BY DEF Stored
<1> HIDE DEF a, c, m, z
<1>7. /\ n.is_dir = IsDir(item.dir) /\ n.size = OffT(z)
      /\ n.A = Timespec(a) /\ n.C = Timespec(c)
      /\ NewTime = {} => n.M = Timespec(m)
  BY <1>6 DEF SaysItem
<1>8. ASSUME NEW p \in PropVariant, NEW ts, p.vt = "FILETIME" => ts = Timespec(p.val)
      PROVE  TimeKept(p, ts)
  <2> SUFFICES ASSUME p.val >= BIAS PROVE Says(Timespec(p.val), p.val)
    BY <1>8 DEF TimeKept
  <2>1. p.val \in 0 .. WIDTH - 1
    BY DEF PropVariant
  <2>2. p.val \in BIAS .. WIDTH - 1
    BY <2>1, ItemPropertiesAssumption
  <2> QED BY <2>2, TimesExact
<1>9. TimeKept(item.A, n.A)
  <2>1. item.A \in PropVariant /\ (item.A.vt = "FILETIME" => Timespec(a) = Timespec(item.A.val))
    BY <1>1, <1>2
  <2>2. TimeKept(item.A, Timespec(a))
    BY <1>8, <2>1
  <2> QED BY <1>7, <2>2
<1>10. TimeKept(item.C, n.C)
  <2>1. item.C \in PropVariant /\ (item.C.vt = "FILETIME" => Timespec(c) = Timespec(item.C.val))
    BY <1>1, <1>3
  <2>2. TimeKept(item.C, Timespec(c))
    BY <1>8, <2>1
  <2> QED BY <1>7, <2>2
<1>11. NewTime = {} => TimeKept(item.M, n.M)
  <2>1. item.M \in PropVariant /\ (item.M.vt = "FILETIME" => Timespec(m) = Timespec(item.M.val))
    BY <1>1, <1>4
  <2>2. TimeKept(item.M, Timespec(m))
    BY <1>8, <2>1
  <2> QED BY <1>7, <2>2
<1>12. (item.size.vt \in {"UI4", "UI8"} /\ item.size.val < WIDTH \div 2) =>
          n.size = item.size.val
  BY <1>5, <1>7 DEF OffT
<1> QED BY <1>7, <1>9, <1>10, <1>11, <1>12 DEF IsDir

(* A node says what the archive's last item at its path does.              *)
LEMMA LastSaid ==
  ASSUME TreeInv, phase = "mounted", NEW n \in Inode
  PROVE  /\ Owners(node[n].full) = {} => node[n].is_dir
         /\ \A i \in Items : IsLast(i, Owners(node[n].full)) => SaysItem(node[n], archive[i])
<1> DEFINE p == node[n].full
<1>1. archive \in Archives /\ done = Len(archive) /\ 1 .. done = Items /\ Items \subseteq Int
  BY DEF TreeInv, TypeOK, Indexed, AllDone, Items
<1>2. \/ node[n].is_dir /\ \A i \in Items : PathOf(archive[i]) # p
      \/ \E i \in Items : LastAt(i, p, done) /\ SaysItem(node[n], archive[i])
  BY <1>1 DEF TreeInv, Indexed, Attributes, Undescribed
<1> HIDE DEF p
<1>3. CASE \A i \in Items : PathOf(archive[i]) # p
  <2>1. Owners(p) = {}
    BY <1>3 DEF Owners
  <2>2. node[n].is_dir
    BY <1>2, <1>3 DEF LastAt
  <2> QED BY <2>1, <2>2 DEF IsLast, p
<1>4. CASE \E i \in Items : LastAt(i, p, done) /\ SaysItem(node[n], archive[i])
  <2>1. PICK j \in Items : LastAt(j, p, done) /\ SaysItem(node[n], archive[j])
    BY <1>4
  <2>2. j \in Owners(p)
    BY <2>1 DEF LastAt, Owners
  <2>3. ASSUME NEW i \in Items, IsLast(i, Owners(p)) PROVE i = j
    <3>1. j <= i /\ PathOf(archive[i]) = p
      BY <2>2, <2>3 DEF IsLast, Owners
    <3>2. i \notin j + 1 .. done
      BY <2>1, <3>1 DEF LastAt
    <3> QED BY <1>1, <3>1, <3>2
  <2> QED BY <2>1, <2>2, <2>3 DEF p
<1> QED BY <1>2, <1>3, <1>4

(* A directory's childs are the next components of the items below it.     *)
LEMMA ListingIs ==
  ASSUME TreeInv, phase = "mounted", NEW n \in Inode
  PROVE  Listing(n) = {PathOf(archive[i])[Len(node[n].full) + 1] : i \in Heirs(node[n].full)}
<1> DEFINE p == node[n].full
<1>1. archive \in Archives /\ done = Len(archive) /\ 1 .. done = Items
  BY DEF TreeInv, TypeOK, Indexed, AllDone, Items
<1>2. p \in Seq(Name) /\ Len(p) \in Nat
  BY LenProperties DEF TreeInv, TypeOK, Node
<1>3. \A x \in Name : x \in Listing(n) <=> Has(Append(p, x))
  <2> SUFFICES ASSUME NEW x \in Name PROVE childs[n][x] # NULL <=> Has(Append(p, x))
    BY DEF Listing
  <2>1. childs[n][x] \in Inode \cup {NULL} /\ NULL \notin Inode
    BY ItemPropertiesAssumption DEF TreeInv, TypeOK, Inode
  <2>2. ASSUME childs[n][x] # NULL PROVE Has(Append(p, x))
    BY <2>1, <2>2 DEF TreeInv, TreeShape, ChildsSpelled, Has
  <2>3. ASSUME NEW m \in Inode, node[m].full = Append(p, x) PROVE childs[n][x] # NULL
    BY <2>1, <2>3 DEF TreeInv, TreeShape, ChildsKept
  <2> QED BY <2>2, <2>3 DEF Has
<1> HIDE DEF p
<1>4. ASSUME NEW i \in Items, i \in Heirs(p)
      PROVE  PathOf(archive[i])[Len(p) + 1] \in Listing(n)
  <2> DEFINE q == PathOf(archive[i])
  <2>1. q \in Seq(Name) /\ Len(q) \in Nat
    BY <1>1, ItemTypes, LenProperties
  <2>2. Len(p) < Len(q) /\ p = Ancestor(q, Len(p))
    BY <1>1, <1>4, HeirOnWay
  <2>3. PICK m \in Inode : node[m].full = q
    BY <1>1 DEF TreeInv, Indexed, ItemsThere, Has
  <2> HIDE DEF q
  <2>4. Len(p) \in 0 .. Len(q) - 1 /\ Len(p) + 1 \in 0 .. Len(q)
    BY <1>2, <2>1, <2>2
  <2>5. q[Len(p) + 1] \in Name /\ Ancestor(q, Len(p) + 1) = Append(p, q[Len(p) + 1])
    BY <2>1, <2>2, <2>4, AncestorStep
  <2>6. Has(Ancestor(q, Len(p) + 1))
    BY <2>3, <2>4 DEF TreeInv, TreeShape, Closed
  <2> QED BY <1>3, <2>5, <2>6 DEF q
<1>5. ASSUME NEW x \in Listing(n)
      PROVE  \E i \in Heirs(p) : PathOf(archive[i])[Len(p) + 1] = x
  <2> DEFINE r == Append(p, x)
  <2>1. x \in Name
    BY DEF Listing
  <2>2. r \in Seq(Name) /\ Len(r) = Len(p) + 1 /\ r[Len(p) + 1] = x
    BY <1>2, <2>1, AppendProperties
  <2>3. PICK m \in Inode : node[m].full = r
    BY <1>3, <2>1 DEF Has
  <2>4. Ancestor(r, Len(p)) = p
    BY <1>2, <2>1, AncestorOfAppend, AncestorEnds
  <2> HIDE DEF r
  <2>5. r # <<>>
    BY <1>2, <2>2, EmptySeq
  <2>6. PICK i \in Items : i \in Owners(r) \/ i \in Heirs(r)
    BY <2>3, <2>5 DEF TreeInv, Indexed, FromItems, Owners, Heirs
  <2> DEFINE q == PathOf(archive[i])
  <2>7. q \in Seq(Name) /\ Len(q) \in Nat
    BY <1>1, ItemTypes, LenProperties
  <2>8. Len(r) <= Len(q) /\ r = Ancestor(q, Len(r))
    <3>1. CASE i \in Owners(r)
      <4>1. q = r
        BY <3>1 DEF Owners
      <4> QED BY <2>7, <4>1, AncestorEnds
    <3>2. CASE i \in Heirs(r)
      <4>1. Len(r) < Len(q) /\ r = Ancestor(q, Len(r))
        BY <1>1, <3>2, HeirOnWay
      <4> QED BY <1>2, <2>2, <2>7, <4>1
    <3> QED BY <2>6, <3>1, <3>2
  <2>9. i \in Heirs(Ancestor(q, Len(p)))
    <3>1. Len(p) \in 0 .. Len(q) - 1
      BY <1>2, <2>2, <2>7, <2>8
    <3> QED BY <1>1, <3>1, HeirOnWay
  <2> HIDE DEF q
  <2>10. Len(r) \in 0 .. Len(q) /\ Len(p) \in 0 .. Len(r) /\ Len(p) + 1 \in 1 .. Len(r)
    BY <1>2, <2>2, <2>7, <2>8
  <2>11. Ancestor(q, Len(p)) = p
    BY <2>4, <2>7, <2>8, <2>10, AncestorOfAncestor
  <2>12. q[Len(p) + 1] = x
    BY <2>2, <2>7, <2>8, <2>10, AncestorIs
  <2> QED BY <2>9, <2>11, <2>12 DEF q
<1>6. Heirs(p) \subseteq Items
  BY DEF Heirs
<1>7. Listing(n) = {PathOf(archive[i])[Len(p) + 1] : i \in Heirs(p)}
  BY <1>4, <1>5, <1>6
<1> QED BY <1>7 DEF p

(* FindRoot, FindBelow, FindOverrun, FindLeaf, NotFound, GetAttr, ReadDir  *)
(* and UTimens.                                                            *)
LEMMA ServingKeeps == TreeInv /\ Serving => TreeInv'
<1> SUFFICES ASSUME TreeInv, Serving PROVE TreeInv'
  OBVIOUS
<1>1. TypeOK /\ TreeTypes /\ TreeShape
  BY DEF TreeInv, TypeOK, TreeTypes
<1> DEFINE Activation == [op : {"insert", "getattr", "readdir", "utimens"}, path : Seq(Name),
                          depth : Nat, at : Inode]
           Finds == [op : {"found"}, for : {"getattr", "readdir", "utimens"}, path : Seq(Name),
                     at : Inode \cup {NULL}]
<1>2. ASSUME NEW n \in Inode \cup {NULL}, Finding, Return(n),
             UNCHANGED <<archive, phase, done, max_inode, node, childs, reply>>,
             IF n = NULL THEN ~Has(call.path) ELSE node[n].full = call.path
      PROVE  TreeInv'
  <2>1. /\ call' = [op |-> "found", for |-> call.op, path |-> call.path, at |-> n]
        /\ call.op \in {"getattr", "readdir", "utimens"} /\ phase = "mounted"
    BY <1>2 DEF Return, Finding, TreeInv, Calls, FindAt
  <2>2. call.path \in Seq(Name)
    BY <1>1, <2>1, CallParts
  <2>3. call' \in Finds
    BY <2>1, <2>2
  <2>4. FoundAt'
    BY <1>2, <2>1 DEF FoundAt, Has, Inode
  <2>5. InsertWay' /\ FindAt'
    BY <2>1 DEF InsertWay, FindAt, Finding
  <2> QED BY <1>2, <2>3, <2>4, <2>5, CallMoves DEF Calls
<1>3. ASSUME call' = Idle PROVE Calls'
  BY <1>3 DEF Idle, Calls, InsertWay, FindAt, FoundAt, Finding
<1>4. ASSUME Finding, call.path # <<>>
      PROVE  /\ phase = "mounted" /\ ServedTo(call.path)
             /\ call.op \in {"insert", "getattr", "readdir", "utimens"}
             /\ call.path \in Seq(Name) /\ Len(call.path) \in Nat /\ call.depth \in Nat
             /\ call.depth \in 0 .. Len(call.path) - 1
             /\ ChildPath = Ancestor(call.path, call.depth + 1)
             /\ Child \in Inode \cup {NULL}
             /\ Child # NULL => node[Child].full = ChildPath
             /\ Child = NULL => ~Has(ChildPath)
             /\ ~AtLeaf => call.depth + 1 \in 0 .. Len(call.path) - 1
             /\ AtLeaf => ChildPath = call.path
  <2>1. call.op \in {"insert", "getattr", "readdir", "utimens"}
    BY <1>4 DEF Finding
  <2>2. call.path \in Seq(Name) /\ Len(call.path) \in Nat /\ call.depth \in Nat
    BY <1>1, <2>1, CallParts
  <2>3. /\ phase = "mounted" /\ ServedTo(call.path)
        /\ call.depth \in 0 .. Len(call.path) /\ call.depth # Len(call.path)
        /\ node[call.at].full = Ancestor(call.path, call.depth)
    BY <1>4 DEF TreeInv, Calls, FindAt
  <2>4. call.depth \in 0 .. Len(call.path) - 1
    BY <2>2, <2>3
  <2> QED BY <1>1, <2>1, <2>2, <2>3, <2>4, ChildOnWay
<1>5. CASE FindRoot
  <2>1. /\ Finding /\ call.path = <<>> /\ Return(call.at)
        /\ UNCHANGED <<archive, phase, done, max_inode, node, childs, reply>>
    BY <1>5 DEF FindRoot
  <2>2. call.op \in {"insert", "getattr", "readdir", "utimens"}
    BY <2>1 DEF Finding
  <2>3. call.at \in Inode /\ call.at # NULL
    <3>1. call.at \in Inode
      BY <1>1, <2>2, CallParts
    <3>2. NULL \notin Inode
      BY ItemPropertiesAssumption DEF Inode
    <3> QED BY <3>1, <3>2
  <2>4. node[call.at].full = call.path
    <3>1. call.path \in Seq(Name) /\ Len(call.path) = 0
      BY <2>1, EmptySeq
    <3>2. call.depth = 0 /\ node[call.at].full = Ancestor(call.path, call.depth)
      BY <2>1, <3>1 DEF TreeInv, Calls, FindAt
    <3> QED BY <2>1, <3>1, <3>2, AncestorEnds
  <2> QED BY <1>2, <2>1, <2>3, <2>4
<1>6. CASE FindBelow
  <2>1. /\ Finding /\ call.path # <<>> /\ ~AtLeaf
        /\ IF Child # NULL THEN Descend(Child) ELSE Return(NULL)
        /\ UNCHANGED <<archive, phase, done, max_inode, node, childs, reply>>
    BY <1>6 DEF FindBelow
  <2>2. CASE Child # NULL
    <3>1. Child \in Inode /\ node[Child].full = Ancestor(call.path, call.depth + 1)
      BY <1>4, <2>1, <2>2
    <3>2. call' = [op |-> call.op, path |-> call.path, depth |-> call.depth + 1, at |-> Child]
      BY <1>1, <1>4, <2>1, <2>2, DescendsTo
    <3>3. call' \in Activation
      <4>1. call.depth + 1 \in Nat
        BY <1>4, <2>1
      <4> QED BY <1>4, <2>1, <3>1, <3>2, <4>1
    <3>4. FindAt'
      <4>1. /\ phase = "mounted" /\ ServedTo(call.path)
            /\ call.depth + 1 \in 0 .. Len(call.path) /\ call.depth + 1 # Len(call.path)
        BY <1>4, <2>1
      <4>2. Inode' = Inode /\ node' = node /\ phase' = phase
        BY <2>1 DEF Inode
      <4> QED BY <3>1, <3>2, <4>1, <4>2 DEF FindAt, ServedTo
    <3>5. InsertWay' /\ FoundAt'
      BY <2>1, <3>2 DEF InsertWay, FoundAt, Finding
    <3> QED BY <2>1, <3>3, <3>4, <3>5, CallMoves DEF Calls
  <2>3. CASE Child = NULL
    <3>1. ~Has(call.path)
      <4>1. ~Has(Ancestor(call.path, call.depth + 1)) /\ call.depth + 1 \in 0 .. Len(call.path)
        BY <1>4, <2>1, <2>3
      <4> QED BY <1>1, <4>1 DEF Has, TreeShape, Closed
    <3> QED BY <1>2, <2>1, <2>3, <3>1
  <2> QED BY <2>2, <2>3
<1>7. CASE FindLeaf
  <2>1. /\ Finding /\ call.path # <<>> /\ AtLeaf /\ Return(Child)
        /\ UNCHANGED <<archive, phase, done, max_inode, node, childs, reply>>
    BY <1>7 DEF FindLeaf
  <2>2. /\ Child \in Inode \cup {NULL}
        /\ IF Child = NULL THEN ~Has(call.path) ELSE node[Child].full = call.path
    BY <1>4, <2>1
  <2> QED BY <1>2, <2>1, <2>2
<1>8. CASE FindOverrun
  <2>1. /\ Finding /\ call.path # <<>> /\ ~AtLeaf /\ Len(Component) >= POUET
        /\ phase' = "crashed" /\ call' = Idle
        /\ UNCHANGED <<archive, done, max_inode, node, childs, reply>>
    BY <1>8 DEF FindOverrun, Overruns
  <2>2. Inode' = Inode /\ Items' = Items
    BY <2>1 DEF Inode, Items
  <2>3. TypeOK'
    BY <1>1, <2>1, <2>2 DEF TypeOK
  <2>4. TreeShape'
    BY <1>1, <2>1, SamePaths DEF TreeTypes
  <2>5. Indexed'
    <3>1. AllDone'
      BY <1>4, <2>1 DEF TreeInv, Indexed, AllDone
    <3>2. FromItems' /\ ItemsThere'
      BY <2>1, <2>2 DEF TreeInv, Indexed, FromItems, ItemsThere, Has, Owners, Heirs
    <3>3. Attributes'
      BY <2>1, <2>2 DEF TreeInv, Indexed, Attributes, Undescribed, LastAt, SaysItem
    <3> QED BY <3>1, <3>2, <3>3 DEF Indexed
  <2>6. Replies' /\ AttributesFaithful' /\ ListingFaithful'
    BY <1>4, <2>1, <2>2 DEF TreeInv, Answers, Replies, AttributesFaithful, ListingFaithful,
                            Answered, Owners, Heirs, Has
  <2>7. FindSurvives'
    <3> DEFINE k == call.depth + 1
    <3>1. k \in 1 .. Len(call.path) - 1 /\ Len(call.path[k]) >= POUET
      BY <1>4, <2>1 DEF Component
    <3> HIDE DEF k
    <3>2. \E i \in Items : \E d \in 1 .. Len(PathOf(archive[i])) :
            /\ Len(PathOf(archive[i])[d]) >= POUET
            /\ Heirs(SubSeq(PathOf(archive[i]), 1, d)) # {} \/ IsDir(archive[i].dir)
      BY <1>4, <2>1, <3>1, TooLong
    <3> QED BY <2>1, <2>2, <3>2 DEF FindSurvives, Heirs
  <2> QED BY <1>3, <2>1, <2>3, <2>4, <2>5, <2>6, <2>7 DEF TreeInv, Answers
<1>9. ASSUME call.op = "found", call' = Idle, reply'.path = call.path,
             reply'.err = (IF call.at = NULL THEN "ENOENT" ELSE "OK"),
             UNCHANGED <<archive, phase, done, max_inode, node, childs>>,
             AttributesFaithful', ListingFaithful'
      PROVE  TreeInv'
  <2>1. Inode' = Inode /\ Items' = Items
    BY <1>9 DEF Inode, Items
  <2>2. TypeOK'
    BY <1>1, <1>9, <2>1 DEF TypeOK
  <2>3. TreeShape'
    BY <1>1, <1>9, SamePaths DEF TreeTypes
  <2>4. Indexed'
    BY <1>9, <2>1 DEF TreeInv, Indexed, FromItems, ItemsThere, AllDone, Attributes, Undescribed, LastAt,
                      SaysItem, Has, Owners, Heirs
  <2>5. Replies'
    <3>1. /\ phase = "mounted" /\ call.path \in Seq(Name) /\ call.at \in Inode \cup {NULL}
          /\ IF call.at = NULL THEN ~Has(call.path) ELSE node[call.at].full = call.path
      BY <1>1, <1>9, FoundParts DEF TreeInv, Calls, FoundAt
    <3>2. reply'.err = "OK" <=> Has(call.path)
      BY <1>9, <3>1 DEF Has
    <3> QED BY <1>9, <2>1, <3>1, <3>2 DEF Replies, Has
  <2>6. FindSurvives'
    BY <1>9, <2>1 DEF TreeInv, Answers, FindSurvives, Heirs
  <2> QED BY <1>3, <1>9, <2>2, <2>3, <2>4, <2>5, <2>6 DEF TreeInv, Answers
<1>10. CASE NotFound
  <2>1. /\ call.op = "found" /\ call.at = NULL /\ call' = Idle
        /\ reply' = [op |-> call.for, path |-> call.path, err |-> "ENOENT"]
        /\ UNCHANGED <<archive, phase, done, max_inode, node, childs>>
    BY <1>10 DEF NotFound
  <2>2. reply'.path = call.path /\ reply'.err = "ENOENT"
    BY <2>1
  <2>3. AttributesFaithful' /\ ListingFaithful'
    BY <2>2 DEF AttributesFaithful, ListingFaithful
  <2> QED BY <1>9, <2>1, <2>2, <2>3
<1>11. ASSUME call.op = "found", call.at # NULL
       PROVE  /\ phase = "mounted" /\ call.at \in Inode /\ node[call.at].full = call.path
              /\ call.path \in Seq(Name)
              /\ Listing(call.at) =
                   {PathOf(archive[i])[Len(call.path) + 1] : i \in Heirs(call.path)}
              /\ Owners(call.path) = {} => node[call.at].is_dir
              /\ \A i \in Items : IsLast(i, Owners(call.path)) => SaysItem(node[call.at], archive[i])
  <2>1. /\ phase = "mounted" /\ call.at \in Inode /\ node[call.at].full = call.path
        /\ call.path \in Seq(Name)
    BY <1>1, <1>11, FoundParts DEF TreeInv, Calls, FoundAt
  <2>2. Listing(call.at) =
          {PathOf(archive[i])[Len(node[call.at].full) + 1] : i \in Heirs(node[call.at].full)}
    BY <2>1, ListingIs
  <2>3. /\ Owners(node[call.at].full) = {} => node[call.at].is_dir
        /\ \A i \in Items : IsLast(i, Owners(node[call.at].full)) =>
             SaysItem(node[call.at], archive[i])
    BY <2>1, LastSaid
  <2> QED BY <2>1, <2>2, <2>3
<1>12. CASE GetAttr
  <2> DEFINE n == node[call.at]
             entries == Cardinality(Listing(call.at))
  <2>1. /\ call.op = "found" /\ call.at # NULL /\ call' = Idle
        /\ UNCHANGED <<archive, phase, done, max_inode, node, childs>>
    BY <1>12 DEF GetAttr, Found
  <2>2. reply' = [op |-> "getattr", path |-> call.path, err |-> "OK", dir |-> n.is_dir,
                  size |-> IF n.is_dir THEN entries ELSE n.size,
                  nlink |-> IF n.is_dir THEN 2 + entries ELSE 1,
                  A |-> n.A, C |-> n.C, M |-> n.M]
    BY <1>12 DEF GetAttr
  <2> HIDE DEF n, entries
  <2>3. /\ reply'.op = "getattr" /\ reply'.path = call.path /\ reply'.err = "OK"
        /\ reply'.dir = n.is_dir /\ reply'.A = n.A /\ reply'.C = n.C /\ reply'.M = n.M
        /\ n.is_dir => reply'.size = entries /\ reply'.nlink = 2 + entries
        /\ ~n.is_dir => reply'.size = n.size
    BY <2>2
  <2>4. Items' = Items /\ archive' = archive /\ archive \in Archives
        /\ (\A p : Owners(p)' = Owners(p)) /\ (\A p : Heirs(p)' = Heirs(p))
    BY <1>1, <2>1 DEF Items, Owners, Heirs, TypeOK
  <2>5. AttributesFaithful'
    <3>1. Owners(call.path) = {} => n.is_dir
      BY <1>11, <2>1 DEF n
    <3>2. ASSUME NEW i \in Items, IsLast(i, Owners(call.path))
          PROVE  /\ n.is_dir = (archive[i].dir.vt = "BOOL" /\ archive[i].dir.val # 0)
                 /\ (/\ archive[i].size.vt \in {"UI4", "UI8"}
                     /\ archive[i].size.val < WIDTH \div 2) => n.size = archive[i].size.val
                 /\ TimeKept(archive[i].A, n.A)
                 /\ TimeKept(archive[i].C, n.C)
                 /\ NewTime = {} => TimeKept(archive[i].M, n.M)
      <4>1. archive[i] \in Item /\ SaysItem(n, archive[i])
        BY <1>11, <2>1, <2>4, <3>2, ItemTypes DEF n
      <4> QED BY <4>1, ItemSaid
    <3> QED BY <2>3, <2>4, <3>1, <3>2 DEF AttributesFaithful, Answered
  <2>6. ListingFaithful'
    <3> DEFINE names == {PathOf(archive[i])[Len(call.path) + 1] : i \in Heirs(call.path)}
    <3>1. entries = Cardinality(names)
      BY <1>11, <2>1 DEF entries
    <3>2. {PathOf(archive[i])[Len(reply.path) + 1] : i \in Heirs(reply.path)}' = names
      BY <2>3, <2>4 DEF Heirs
    <3> HIDE DEF names
    <3>3. Answered("readdir")' => FALSE
      BY <2>3 DEF Answered
    <3> QED BY <2>3, <3>1, <3>2, <3>3 DEF ListingFaithful
  <2> QED BY <1>9, <2>1, <2>3, <2>5, <2>6
<1>13. CASE ReadDir
  <2>1. /\ call.op = "found" /\ call.at # NULL /\ call' = Idle
        /\ UNCHANGED <<archive, phase, done, max_inode, node, childs>>
        /\ reply' = [op |-> "readdir", path |-> call.path, err |-> "OK",
                     names |-> Listing(call.at)]
    BY <1>13 DEF ReadDir, Found
  <2>2. /\ reply'.op = "readdir" /\ reply'.path = call.path /\ reply'.err = "OK"
        /\ reply'.names = Listing(call.at)
    BY <2>1
  <2>3. archive' = archive /\ \A p : Heirs(p)' = Heirs(p)
    BY <2>1 DEF Items, Heirs
  <2>4. AttributesFaithful' /\ ListingFaithful'
    BY <1>11, <2>1, <2>2, <2>3 DEF AttributesFaithful, ListingFaithful, Answered
  <2> QED BY <1>9, <2>1, <2>2, <2>4
<1>14. CASE \E time \in NewTime : UTimens(time)
  <2>1. PICK time \in NewTime : UTimens(time)
    BY <1>14
  <2> DEFINE at == call.at
             v == [node[at] EXCEPT !.M.sec = time]
  <2>2. /\ call.op = "found" /\ at # NULL /\ call' = Idle
        /\ reply' = [op |-> "utimens", path |-> call.path, err |-> "OK"]
        /\ node' = [node EXCEPT ![at].M.sec = time]
        /\ UNCHANGED <<archive, phase, done, max_inode, childs>>
    BY <2>1 DEF UTimens, Found
  <2>3. at \in Inode /\ node[at].full = call.path /\ phase = "mounted" /\ call.path \in Seq(Name)
    BY <1>11, <2>2
  <2>4. node[at] \in Node
    BY <1>1, <2>3 DEF TreeTypes
  <2>5. v \in Node /\ v.full = node[at].full /\ v.is_dir = node[at].is_dir
        /\ v.id = node[at].id /\ v.size = node[at].size /\ v.A = node[at].A
        /\ v.C = node[at].C
    BY <2>4 DEF Node, Times
  <2>6. node' = [node EXCEPT ![at] = v]
    BY <2>2
  <2> HIDE DEF at, v
  <2>7. node' \in [Inode -> Node] /\ node'[at] = v /\ \A n \in Inode : n # at => node'[n] = node[n]
    BY <1>1, <2>3, <2>5, <2>6 DEF TreeTypes
  <2>8. TreeTypes' /\ TreeShape' /\ \A p : Has(p)' <=> Has(p)
    BY <1>1, <2>2, <2>5, <2>7, SamePaths
  <2>9. Inode' = Inode /\ Items' = Items
    BY <2>2 DEF Inode, Items
  <2>10. TypeOK'
    BY <1>1, <2>2, <2>8, <2>9 DEF TypeOK, TreeTypes
  <2>11. \A n \in Inode : /\ node'[n].full = node[n].full /\ node'[n].is_dir = node[n].is_dir
                          /\ node'[n].id = node[n].id /\ node'[n].size = node[n].size
                          /\ node'[n].A = node[n].A /\ node'[n].C = node[n].C
    BY <2>5, <2>7
  <2>12. Indexed'
    <3>1. NewTime # {}
      OBVIOUS
    <3>2. FromItems' /\ ItemsThere' /\ AllDone'
      BY <2>2, <2>8, <2>9, <2>11 DEF TreeInv, Indexed, FromItems, ItemsThere, AllDone, Owners, Heirs
    <3>3. Attributes'
      BY <2>2, <2>3, <2>9, <2>11, <3>1 DEF TreeInv, Indexed, Attributes, Undescribed, LastAt,
                                           SaysItem
    <3> QED BY <3>2, <3>3 DEF Indexed
  <2>13. Answers'
    <3>1. reply'.op = "utimens" /\ reply'.path = call.path /\ reply'.err = "OK"
      BY <2>2
    <3>2. AttributesFaithful' /\ ListingFaithful'
      BY <3>1 DEF AttributesFaithful, ListingFaithful, Answered
    <3>3. Replies'
      BY <2>2, <2>3, <2>8, <3>1 DEF Replies, Has
    <3>4. FindSurvives'
      BY <2>2, <2>9 DEF TreeInv, Answers, FindSurvives, Heirs
    <3> QED BY <3>2, <3>3, <3>4 DEF Answers
  <2> QED BY <1>3, <2>2, <2>8, <2>10, <2>12, <2>13 DEF TreeInv
<1> QED BY <1>5, <1>6, <1>7, <1>8, <1>10, <1>12, <1>13, <1>14 DEF Serving

-----------------------------------------------------------------------------
(* What holds always                                                       *)

(* Every step keeps the invariant.                                         *)
LEMMA TreeNext == TreeInv /\ [Next]_vars => TreeInv'
<1> SUFFICES ASSUME TreeInv, [Next]_vars PROVE TreeInv'
  OBVIOUS
<1>1. CASE Indexing
  BY <1>1, IndexingKeeps
<1>2. CASE Requests
  BY <1>2, RequestsKeep
<1>3. CASE Serving
  BY <1>3, ServingKeeps
<1>4. CASE UNCHANGED vars
  <2>1. UNCHANGED <<archive, phase, done, max_inode, node, childs, call, reply>>
    BY <1>4 DEF vars
  <2>2. Calls'
    BY <2>1 DEF TreeInv, Calls, InsertWay, FindAt, FoundAt, Finding, ServedTo, Has, Inode
  <2>3. call \in {Idle}
           \cup [op : {"insert", "getattr", "readdir", "utimens"}, path : Seq(Name),
                 depth : Nat, at : Inode]
           \cup [op : {"found"}, for : {"getattr", "readdir", "utimens"}, path : Seq(Name),
                 at : Inode \cup {NULL}]
    BY DEF TreeInv, TypeOK
  <2> QED BY <2>1, <2>2, <2>3, CallMoves
<1> QED BY <1>1, <1>2, <1>3, <1>4 DEF Next

(* The invariant holds in every behaviour.                                 *)
LEMMA TreeAlways == Spec => []TreeInv
BY TreeInit, TreeNext, PTL DEF Spec

(* Every variable keeps its type; the activations of insert and find are   *)
(* never at a node that is not there.                                      *)
THEOREM TreeTyped == Spec => []TypeOK
<1>1. TreeInv => TypeOK
  BY DEF TreeInv
<1> QED BY <1>1, TreeAlways, PTL

(* getattr, readdir and utimens find a path exactly when the archive has   *)
(* an item there or below it, whatever the order of the items.             *)
THEOREM FindsWhatIsThere == Spec => []LookupFaithful
<1>1. TreeInv => LookupFaithful
  <2> SUFFICES ASSUME TreeInv, reply # NULL
               PROVE  reply.err = "OK" <=>
                        reply.path = <<>> \/ Owners(reply.path) \cup Heirs(reply.path) # {}
    BY DEF LookupFaithful
  <2> DEFINE p == reply.path
  <2>1. p \in Seq(Name) /\ phase # "indexing" /\ (reply.err = "OK" <=> Has(p))
    BY DEF TreeInv, Answers, Replies
  <2>2. archive \in Archives /\ 1 .. done = Items
    BY <2>1 DEF TreeInv, TypeOK, Indexed, AllDone, Items
  <2> HIDE DEF p
  <2>3. ASSUME Has(p) PROVE p = <<>> \/ Owners(p) \cup Heirs(p) # {}
    BY <2>3 DEF Has, TreeInv, Indexed, FromItems
  <2>4. ASSUME p = <<>> PROVE Has(p)
    BY <2>4 DEF Has, TreeInv, TreeShape, RootFirst
  <2>5. ASSUME NEW i \in Items, i \in Owners(p) PROVE Has(p)
    BY <2>2, <2>5 DEF Owners, TreeInv, Indexed, ItemsThere
  <2>6. ASSUME NEW i \in Items, i \in Heirs(p) PROVE Has(p)
    <3> DEFINE q == PathOf(archive[i])
    <3>1. Len(p) < Len(q) /\ p = Ancestor(q, Len(p))
      BY <2>2, <2>6, HeirOnWay
    <3>2. PICK n \in Inode : node[n].full = q
      BY <2>2 DEF Has, TreeInv, Indexed, ItemsThere
    <3>3. Len(p) \in Nat /\ Len(q) \in Nat
      BY <2>1, <2>2, ItemTypes, LenProperties
    <3> HIDE DEF q
    <3>4. Len(p) \in 0 .. Len(q)
      BY <3>1, <3>3
    <3> QED BY <3>1, <3>2, <3>4 DEF TreeInv, TreeShape, Closed
  <2> QED BY <2>1, <2>3, <2>4, <2>5, <2>6 DEF p, Owners, Heirs
<1> QED BY <1>1, TreeAlways, PTL

(* getattr answers what the archive's last item at the path has: type,     *)
(* size, and times from 1970 on to the unit.                               *)
THEOREM AnswersTheLastItem == Spec => []AttributesFaithful
<1>1. TreeInv => AttributesFaithful
  BY DEF TreeInv, Answers
<1> QED BY <1>1, TreeAlways, PTL

(* readdir names each thing the archive has in the directory and no other, *)
(* and the directory's size and link count agree.                          *)
THEOREM ListsWhatIsThere == Spec => []ListingFaithful
<1>1. TreeInv => ListingFaithful
  BY DEF TreeInv, Answers
<1> QED BY <1>1, TreeAlways, PTL

(* In an archive whose items lie in directories, each item the kernel can  *)
(* name is reached from the root through nodes served as directories.      *)
THEOREM EveryItemReachable == Spec => []ItemsReachable
<1>1. TreeInv => ItemsReachable
  <2> SUFFICES ASSUME TreeInv, phase = "mounted", Nested, NEW i \in Items,
                      Visible(PathOf(archive[i]))
               PROVE  \E n \in DOMAIN node : node[n].full = PathOf(archive[i]) /\ Walkable(n)
    BY DEF ItemsReachable
  <2> DEFINE q == PathOf(archive[i])
  <2>1. archive \in Archives /\ 1 .. done = Items /\ DOMAIN node = Inode
    BY DEF TreeInv, TypeOK, Indexed, AllDone, Items
  <2>2. PICK n \in Inode : node[n].full = q
    BY <2>1 DEF Has, TreeInv, Indexed, ItemsThere
  <2>3. q \in Seq(Name) /\ Len(q) \in Nat
    BY <2>1, ItemTypes, LenProperties
  <2> HIDE DEF q
  <2>4. ASSUME NEW k \in 0 .. Len(q) - 1
        PROVE  \E m \in Inode : node[m].full = Ancestor(q, k) /\ node[m].is_dir
    <3>1. PICK m \in Inode : node[m].full = Ancestor(q, k)
      BY <2>2, <2>3, <2>4 DEF Has, TreeInv, TreeShape, Closed
    <3>2. i \in Heirs(Ancestor(q, k))
      BY <2>1, <2>4, HeirOnWay DEF q
    <3>3. CASE \A j \in 1 .. done : PathOf(archive[j]) # node[m].full
      BY <3>1, <3>3 DEF TreeInv, Indexed, Attributes, Undescribed, LastAt
    <3>4. CASE ~ \A j \in 1 .. done : PathOf(archive[j]) # node[m].full
      <4>1. PICK j \in Items : PathOf(archive[j]) = Ancestor(q, k)
                               /\ SaysItem(node[m], archive[j])
        BY <2>1, <3>1, <3>4 DEF TreeInv, Indexed, Attributes, Undescribed, LastAt
      <4>2. IsDir(archive[j].dir)
        BY <3>2, <4>1 DEF Nested
      <4>3. archive[j] \in Item
        BY <2>1, ItemTypes
      <4> QED BY <3>1, <4>1, <4>2, <4>3, StoredType DEF SaysItem
    <3> QED BY <3>3, <3>4
  <2>5. Walkable(n)
    BY <2>1, <2>2, <2>4 DEF Walkable, Ancestor, q
  <2> QED BY <2>1, <2>2, <2>5 DEF q
<1> QED BY <1>1, TreeAlways, PTL

(* find stays in its buffer as long as no directory has a name that does   *)
(* not fit: the name of a file may be any.                                 *)
THEOREM FindStaysInBuffer == Spec => []FindSurvives
<1>1. TreeInv => FindSurvives
  BY DEF TreeInv, Answers
<1> QED BY <1>1, TreeAlways, PTL

(* Once mounted, a node is there for an item with a path of chars that no  *)
(* later item overrides: it has the item's number, and fullname() spells   *)
(* the path the archive gives, character by character.                     *)
THEOREM SpellsWhatTheArchiveDoes == Spec => []NamesKept
<1>1. TreeInv => NamesKept
  <2> SUFFICES ASSUME TreeInv, phase = "mounted", NEW i \in Items, Plain(FullPath(archive[i])),
                      \A j \in i + 1 .. Len(archive) :
                        /\ Plain(FullPath(archive[j]))
                        /\ FullPath(archive[j]) # FullPath(archive[i])
               PROVE  \E n \in DOMAIN node :
                        node[n].id = i - 1 /\ Spell(node[n].full) = FullPath(archive[i])
    BY DEF NamesKept
  <2>1. /\ archive \in Archives /\ 1 .. done = Items /\ DOMAIN node = Inode
        /\ done = Len(archive) /\ Len(archive) \in Nat
    BY ItemTypes DEF TreeInv, TypeOK, Indexed, AllDone, Items
  <2>2. ASSUME NEW j \in Items, Plain(FullPath(archive[j]))
        PROVE  Spell(PathOf(archive[j])) = FullPath(archive[j])
    <3>1. archive[j] \in Item
      BY <2>1, ItemTypes
    <3>2. FullPath(archive[j]) \in String
      BY <3>1, CharPath
    <3> QED BY <2>2, <3>2, PlainUnchanged, PathKept DEF PathOf
  <2>3. LastAt(i, PathOf(archive[i]), done)
    <3> SUFFICES ASSUME NEW j \in i + 1 .. done PROVE PathOf(archive[j]) # PathOf(archive[i])
      BY <2>1 DEF LastAt
    <3>1. j \in Items /\ j \in i + 1 .. Len(archive)
      BY <2>1 DEF Items
    <3>2. /\ Spell(PathOf(archive[j])) = FullPath(archive[j])
          /\ Spell(PathOf(archive[i])) = FullPath(archive[i])
      BY <2>2, <3>1
    <3> QED BY <3>1, <3>2
  <2>4. PICK n \in Inode : node[n].full = PathOf(archive[i])
    BY <2>1 DEF Has, TreeInv, Indexed, ItemsThere
  <2>5. PICK j \in 1 .. done : LastAt(j, PathOf(archive[i]), done) /\ node[n].id = j - 1
    BY <2>1, <2>4 DEF TreeInv, Indexed, Attributes, Undescribed
  <2>6. j = i
    <3>1. i \in Nat /\ j \in Nat /\ done \in Nat /\ i <= done /\ j <= done
      BY <2>1, <2>5 DEF Items
    <3>2. ~(i \in j + 1 .. done) /\ ~(j \in i + 1 .. done)
      BY <2>3, <2>5 DEF LastAt
    <3> QED BY <3>1, <3>2
  <2> QED BY <2>1, <2>2, <2>4, <2>5, <2>6
<1> QED BY <1>1, TreeAlways, PTL

-----------------------------------------------------------------------------
(* The tree is the one ArchiveView promises                                *)

(* The promised tree once it is there: the nodes by their paths.           *)
FilesThere ==
  /\ \A p : p \in DOMAIN AllShown <=> Has(p)
  /\ \A n \in Inode : AllShown[node[n].full] = Shown(node[n])

(* No path has two nodes, so what is chosen for a path is its node.        *)
LEMMA FilesAt == TypeOK /\ Unique => FilesThere
<1> SUFFICES ASSUME TypeOK, Unique PROVE FilesThere
  OBVIOUS
<1>1. DOMAIN node = Inode
  BY DEF TypeOK
<1>2. AllShown = [p \in {node[n].full : n \in Inode} |->
                    Shown(node[CHOOSE n \in Inode : node[n].full = p])]
  BY <1>1 DEF AllShown
<1>3. \A p : p \in DOMAIN AllShown <=> Has(p)
  BY <1>2 DEF Has
<1>4. ASSUME NEW n \in Inode PROVE AllShown[node[n].full] = Shown(node[n])
  <2>1. (CHOOSE m \in Inode : node[m].full = node[n].full) = n
    BY DEF Unique
  <2> QED BY <1>2, <2>1
<1> QED BY <1>2, <1>3, <1>4 DEF FilesThere

(* The same after a step.                                                  *)
LEMMA FilesNext == (TypeOK /\ Unique)' => FilesThere'
BY FilesAt, PTL

(* What is below a path in it is what readdir lists.                       *)
LEMMA BelowListed ==
  ASSUME TreeInv, phase = "mounted", NEW n \in Inode
  PROVE  View!Below(node[n].full) = Listing(n)
<1> SUFFICES ASSUME NEW x \in Name
             PROVE  Append(node[n].full, x) \in DOMAIN Files <=> childs[n][x] # NULL
  BY DEF View!Below, Listing
<1>1. Append(node[n].full, x) \in DOMAIN Files <=> Has(Append(node[n].full, x))
  BY FilesAt DEF FilesThere, TreeInv, TreeShape, Files
<1>2. childs[n][x] \in Inode \cup {NULL} /\ NULL \notin Inode
  BY ItemPropertiesAssumption DEF TreeInv, TypeOK, Inode
<1>3. ASSUME childs[n][x] # NULL PROVE Has(Append(node[n].full, x))
  BY <1>2, <1>3 DEF TreeInv, TreeShape, ChildsSpelled, Has
<1>4. ASSUME NEW m \in Inode, node[m].full = Append(node[n].full, x) PROVE childs[n][x] # NULL
  BY <1>2, <1>4 DEF TreeInv, TreeShape, ChildsKept
<1> QED BY <1>1, <1>3, <1>4 DEF Has

(* The paths there are once everything is indexed.                         *)
LEMMA PathsIndexed ==
  ASSUME TreeInv, done = Len(archive), NEW p
  PROVE  p \in View!AllPaths <=> Has(p)
<1>1. archive \in Archives /\ 1 .. done = Items /\ DOMAIN archive = Items
  BY ItemTypes, LenProperties DEF TreeInv, TypeOK, Items
<1>2. ASSUME NEW i \in Items
      PROVE  /\ PathOf(archive[i]) \in Seq(Name) /\ Len(PathOf(archive[i])) \in Nat
             /\ Has(PathOf(archive[i]))
  BY <1>1, ItemTypes, LenProperties DEF TreeInv, Indexed, ItemsThere
<1>3. p \in View!AllPaths <=>
        p = <<>> \/ \E i \in Items : \E k \in 1 .. Len(PathOf(archive[i])) :
                     p = Ancestor(PathOf(archive[i]), k)
  BY <1>1 DEF View!AllPaths, View!Ways, Ancestor
<1>4. Has(<<>>)
  BY DEF Has, TreeInv, TreeShape, RootFirst
<1>5. ASSUME NEW i \in Items, NEW k \in 1 .. Len(PathOf(archive[i])),
             p = Ancestor(PathOf(archive[i]), k)
      PROVE  Has(p)
  <2>1. PICK n \in Inode : node[n].full = PathOf(archive[i])
    BY <1>2 DEF Has
  <2>2. k \in 0 .. Len(node[n].full)
    BY <1>2, <2>1
  <2> QED BY <1>5, <2>1, <2>2 DEF TreeInv, TreeShape, Closed
<1>6. ASSUME NEW n \in Inode, node[n].full = p, p # <<>>
      PROVE  \E i \in Items : \E k \in 1 .. Len(PathOf(archive[i])) :
               p = Ancestor(PathOf(archive[i]), k)
  <2>1. p \in Seq(Name) /\ Len(p) \in Nat /\ Len(p) # 0
    BY <1>6, LenProperties, EmptySeq DEF TreeInv, TypeOK, Node
  <2>2. PICK i \in Items : i \in Owners(p) \/ i \in Heirs(p)
    BY <1>6 DEF TreeInv, Indexed, FromItems, Owners, Heirs
  <2>3. Len(p) \in 1 .. Len(PathOf(archive[i])) /\ p = Ancestor(PathOf(archive[i]), Len(p))
    <3>1. CASE i \in Owners(p)
      BY <1>2, <2>1, <3>1, AncestorEnds DEF Owners
    <3>2. CASE i \in Heirs(p)
      BY <1>1, <1>2, <2>1, <3>2, HeirOnWay
    <3> QED BY <2>2, <3>1, <3>2
  <2> QED BY <2>3
<1> QED BY <1>3, <1>4, <1>5, <1>6 DEF Has

(* And what they say.                                                      *)
LEMMA ShownIndexed ==
  ASSUME TreeInv, phase = "indexing", done = Len(archive), NEW n \in Inode
  PROVE  View!Shown(node[n].full) = Shown(node[n])
<1> DEFINE p == node[n].full
           own == {i \in Items : PathOf(archive[i]) = p}
<1>1. archive \in Archives /\ 1 .. done = Items /\ DOMAIN archive = Items /\ done \in Nat
  BY ItemTypes, LenProperties DEF TreeInv, TypeOK, Items
<1>2. View!Shown(p) = IF own = {} THEN Unset
                      ELSE Stored(archive[CHOOSE i \in own : \A j \in own : j <= i])
  BY <1>1 DEF View!Shown
<1>3. \/ Shown(node[n]) = Unset /\ own = {}
      \/ \E i \in own : (\A j \in own : j <= i) /\ SaysItem(node[n], archive[i])
  <2>1. CASE Undescribed(node[n]) /\ \A i \in 1 .. done : PathOf(archive[i]) # p
    BY <1>1, <2>1 DEF Undescribed
  <2>2. ASSUME NEW i \in 1 .. done, LastAt(i, p, done), SaysItem(node[n], archive[i])
        PROVE  i \in own /\ \A j \in own : j <= i
    <3>1. i \in own
      BY <1>1, <2>2 DEF LastAt
    <3>2. ASSUME NEW j \in own PROVE j <= i
      <4>1. ~(j \in i + 1 .. done) /\ j \in 1 .. done
        BY <1>1, <2>2 DEF LastAt
      <4> QED BY <1>1, <4>1
    <3> QED BY <3>1, <3>2
  <2> QED BY <2>1, <2>2 DEF TreeInv, Indexed, Attributes
<1>4. CASE Shown(node[n]) = Unset /\ own = {}
  BY <1>2, <1>4
<1>5. CASE \E i \in own : (\A j \in own : j <= i) /\ SaysItem(node[n], archive[i])
  <2>1. PICK i \in own : (\A j \in own : j <= i) /\ SaysItem(node[n], archive[i])
    BY <1>5
  <2>2. \A k \in own : (\A j \in own : j <= k) => k = i
    <3> SUFFICES ASSUME NEW k \in own, \A j \in own : j <= k PROVE k = i
      OBVIOUS
    <3>1. i <= k /\ k <= i /\ i \in Int /\ k \in Int
      BY <1>1, <2>1
    <3> QED BY <3>1
  <2>3. (CHOOSE k \in own : \A j \in own : j <= k) = i
    BY <2>1, <2>2
  <2>4. archive[i] \in Item
    BY <1>1, ItemTypes
  <2>5. Shown(node[n]) = Stored(archive[i])
    BY <2>1, <2>4 DEF SaysItem, Shown, Stored
  <2> QED BY <1>2, <2>1, <2>3, <2>5
<1> QED BY <1>3, <1>4, <1>5 DEF own

(* The request a state is at, in the three cases.                          *)
LEMMA PendingIs ==
  /\ Finding => Pending = [op |-> call.op, path |-> call.path]
  /\ call.op = "found" => Pending = [op |-> call.for, path |-> call.path]
  /\ call.op \in {"idle", "insert"} => Pending = View!NoRequest
BY DEF Pending, Finding, View!NoRequest

(* To a client nothing happens while the tree is built or searched.        *)
LEMMA ViewStutters ==
  ASSUME UNCHANGED <<archive, phase, reply>>, Pending' = Pending,
         phase = "indexing" \/ node' = node
  PROVE  UNCHANGED View!vars
<1>1. Files' = Files
  BY DEF Files, AllShown
<1> QED BY <1>1 DEF View!vars

(* The tree is there at once.                                              *)
LEMMA MountedView ==
  ASSUME TreeInv, Mount
  PROVE  View!Mount
<1>1. /\ phase = "indexing" /\ done = Len(archive) /\ phase' = "mounted" /\ call = Idle
      /\ UNCHANGED <<archive, done, max_inode, node, childs, call, reply>>
  BY DEF Mount
<1>2. /\ \A p : p \in DOMAIN Files' <=> Has(p)
      /\ \A n \in Inode : Files'[node[n].full] = Shown(node[n])
  <2>1. Files' = AllShown
    BY <1>1 DEF Files, AllShown
  <2> QED BY <2>1, FilesAt DEF FilesThere, TreeInv, TreeShape
<1>3. DOMAIN Files' = View!AllPaths
  BY <1>1, <1>2, PathsIndexed
<1>4. ASSUME NEW p \in View!AllPaths PROVE Files'[p] = View!Shown(p)
  <2>1. PICK n \in Inode : node[n].full = p
    BY <1>1, <1>4, PathsIndexed DEF Has
  <2>2. View!Shown(node[n].full) = Shown(node[n])
    BY <1>1, ShownIndexed
  <2> QED BY <1>2, <2>1, <2>2
<1>5. Files' = [p \in View!AllPaths |-> View!Shown(p)]
  <2>1. Files' = [p \in DOMAIN Files' |-> Files'[p]]
    BY <1>1 DEF Files, AllShown
  <2> QED BY <1>3, <1>4, <2>1
<1>6. Pending' = Pending
  BY <1>1 DEF Pending, Finding
<1> QED BY <1>1, <1>5, <1>6 DEF View!Mount

(* A request is one.                                                       *)
LEMMA RequestView ==
  ASSUME TreeInv, NEW op \in {"getattr", "readdir", "utimens"}, NEW path, Request(op, path),
         path = <<>> \/ \E n \in DOMAIN node, x \in Name : path = Append(node[n].full, x)
  PROVE  View!Ask
<1>1. /\ phase = "mounted" /\ call = Idle /\ call' = Call(op, path, 0, ROOT) /\ reply' = NULL
      /\ UNCHANGED <<archive, phase, done, max_inode, node, childs>>
  BY DEF Request
<1>2. Pending = View!NoRequest
  BY <1>1 DEF Idle, Pending, Finding, View!NoRequest
<1>3. Pending' = [op |-> op, path |-> path]
  BY <1>1 DEF Call, Pending, Finding
<1>4. path \in {<<>>} \cup {Append(p, x) : p \in DOMAIN Files, x \in Name}
  <2>1. \A n \in DOMAIN node : node[n].full \in DOMAIN Files
    BY <1>1, FilesAt DEF FilesThere, TreeInv, TreeShape, TypeOK, Files, Has
  <2> QED BY <2>1
<1>5. Files' = Files
  BY <1>1 DEF Files, AllShown
<1> QED BY <1>1, <1>2, <1>3, <1>4, <1>5 DEF View!Ask, View!Op

(* A search that leaves the buffer is what may be fatal.                   *)
LEMMA OverrunView ==
  ASSUME TreeInv, FindOverrun
  PROVE  View!Crash
<1>1. /\ Finding /\ call.path # <<>> /\ ~AtLeaf /\ Len(Component) >= POUET
      /\ phase' = "crashed" /\ call' = Idle
      /\ UNCHANGED <<archive, done, max_inode, node, childs, reply>>
  BY DEF FindOverrun, Overruns
<1>2. /\ phase = "mounted" /\ call.depth \in 0 .. Len(call.path) /\ call.depth # Len(call.path)
  BY <1>1 DEF TreeInv, Calls, FindAt
<1>3. call.path \in Seq(Name) /\ Len(call.path) \in Nat /\ call.depth \in Nat
  BY <1>1, CallParts DEF Finding, TreeInv
<1>4. Pending = [op |-> call.op, path |-> call.path] /\ Pending # View!NoRequest
  <2>1. Pending = [op |-> call.op, path |-> call.path] /\ call.op # "none"
    BY <1>1, PendingIs DEF Finding
  <2>2. Pending.op # View!NoRequest.op
    BY <2>1 DEF View!NoRequest
  <2> QED BY <2>1, <2>2
<1>5. Pending' = View!NoRequest
  BY <1>1 DEF Idle, Pending, Finding, View!NoRequest
<1>6. Files' = Files
  BY <1>1, <1>2 DEF Files, AllShown
<1>7. \E k \in 1 .. Len(call.path) - 1 : Len(call.path[k]) >= POUET
  <2> DEFINE k == call.depth + 1
  <2>1. k \in 1 .. Len(call.path) - 1 /\ Len(call.path[k]) >= POUET
    BY <1>1, <1>2, <1>3 DEF AtLeaf, Component
  <2> QED BY <2>1
<1> QED BY <1>1, <1>2, <1>4, <1>5, <1>6, <1>7 DEF View!Crash

(* What is known of a request that find has returned from.                 *)
LEMMA FoundView ==
  ASSUME TreeInv, call.op = "found"
  PROVE  /\ phase = "mounted" /\ Pending = [op |-> call.for, path |-> call.path]
         /\ View!Pending(call.for) /\ call.for \in View!Op
         /\ call.at = NULL => call.path \notin DOMAIN Files
         /\ call.at # NULL => /\ call.at \in Inode /\ call.path \in DOMAIN Files
                              /\ Files[call.path] = Shown(node[call.at])
                              /\ View!Below(call.path) = Listing(call.at)
<1>1. /\ phase = "mounted" /\ Pending = [op |-> call.for, path |-> call.path]
      /\ IF call.at = NULL THEN ~Has(call.path) ELSE node[call.at].full = call.path
  BY PendingIs DEF TreeInv, Calls, FoundAt
<1>2. call.at \in Inode \cup {NULL} /\ call.for \in {"getattr", "readdir", "utimens"}
  BY FoundParts DEF TreeInv
<1>3. \A q : q \in DOMAIN Files <=> Has(q)
  BY <1>1, FilesAt DEF FilesThere, TreeInv, TreeShape, Files
<1>4. ASSUME call.at # NULL
      PROVE  /\ call.at \in Inode /\ call.path \in DOMAIN Files
             /\ Files[call.path] = Shown(node[call.at])
             /\ View!Below(call.path) = Listing(call.at)
  <2>1. call.at \in Inode /\ node[call.at].full = call.path
    BY <1>1, <1>2, <1>4
  <2>2. Files[node[call.at].full] = Shown(node[call.at])
    BY <1>1, <2>1, FilesAt DEF FilesThere, TreeInv, TreeShape, Files
  <2>3. View!Below(node[call.at].full) = Listing(call.at)
    BY <1>1, <2>1, BelowListed
  <2> QED BY <1>3, <2>1, <2>2, <2>3 DEF Has
<1> QED BY <1>1, <1>2, <1>3, <1>4 DEF View!Pending, View!Op

(* An answer that leaves the tree alone.                                   *)
LEMMA AnswerView ==
  ASSUME TreeInv, call.op = "found", call' = Idle, UNCHANGED <<archive, phase, node>>
  PROVE  View!Answer(reply') /\ Files' = Files
<1>1. Pending' = View!NoRequest
  BY DEF Idle, Pending, Finding, View!NoRequest
<1>2. Files' = Files
  BY DEF Files, AllShown
<1> QED BY <1>1, <1>2 DEF View!Answer

(* utimens changes the time of the one path it is for.                     *)
LEMMA TimeSetView ==
  ASSUME TreeInv, TreeInv', NEW time \in NewTime, UTimens(time)
  PROVE  View!UTimens(time)
<1> DEFINE at == call.at
           path == call.path
<1>1. /\ call.op = "found" /\ call.for = "utimens" /\ at # NULL /\ call' = Idle
      /\ reply' = [op |-> "utimens", path |-> path, err |-> "OK"]
      /\ node' = [node EXCEPT ![at].M.sec = time]
      /\ UNCHANGED <<archive, phase, done, max_inode, childs>>
  BY DEF UTimens, Found
<1>2. /\ phase = "mounted" /\ Pending = [op |-> "utimens", path |-> path]
      /\ View!Pending("utimens") /\ at \in Inode /\ path \in DOMAIN Files
      /\ node[at].full = path
  BY <1>1, FoundView DEF TreeInv, Calls, FoundAt
<1>3. TypeOK /\ Unique /\ DOMAIN node = Inode /\ Inode' = Inode
  BY <1>1 DEF TreeInv, TreeShape, TypeOK, Inode
<1>4. node[at] \in Node /\ node \in [Inode -> Node]
  BY <1>2, <1>3 DEF TypeOK
<1> DEFINE v == [node[at] EXCEPT !.M.sec = time]
<1>5. v.full = path /\ Shown(v) = [Shown(node[at]) EXCEPT !.M.sec = time]
  <2>1. /\ v.full = node[at].full /\ v.is_dir = node[at].is_dir /\ v.size = node[at].size
        /\ v.A = node[at].A /\ v.C = node[at].C /\ v.M = [node[at].M EXCEPT !.sec = time]
    BY <1>4 DEF Node
  <2> HIDE DEF v
  <2>2. Shown(v) = [is_dir |-> node[at].is_dir, size |-> node[at].size, A |-> node[at].A,
                    C |-> node[at].C, M |-> [node[at].M EXCEPT !.sec = time]]
    BY <2>1 DEF Shown
  <2> QED BY <1>2, <2>1, <2>2 DEF Shown
<1>6. node' = [node EXCEPT ![at] = v]
  BY <1>1
<1> HIDE DEF at, v, path
<1>7. node'[at] = v /\ DOMAIN node' = Inode /\ \A n \in Inode : n # at => node'[n] = node[n]
  BY <1>2, <1>3, <1>4, <1>6
<1>8. \A n \in Inode : node'[n].full = node[n].full
  BY <1>2, <1>5, <1>7
<1>9. Files' = [p \in DOMAIN Files |-> IF p = path THEN Shown(v) ELSE Files[p]]
  <2>1. Files = AllShown /\ Files' = AllShown' /\ Files' = [p \in DOMAIN Files' |-> Files'[p]]
    BY <1>1, <1>2 DEF Files, AllShown
  <2>2. FilesThere /\ FilesThere'
    BY <1>3, FilesAt, FilesNext DEF TreeInv, TreeShape
  <2>3. \A p : p \in DOMAIN Files' <=> p \in DOMAIN Files
    BY <1>3, <1>8, <2>1, <2>2 DEF FilesThere, Has
  <2>4. ASSUME NEW p \in DOMAIN Files
        PROVE  Files'[p] = IF p = path THEN Shown(v) ELSE Files[p]
    <3>1. PICK n \in Inode : node[n].full = p
      BY <2>1, <2>2 DEF FilesThere, Has
    <3>2. Files'[p] = Shown(node'[n]) /\ Files[p] = Shown(node[n])
      BY <1>3, <1>8, <2>1, <2>2, <3>1 DEF FilesThere
    <3>3. p = path <=> n = at
      BY <1>2, <1>3, <3>1 DEF Unique
    <3> QED BY <1>7, <3>2, <3>3
  <2> QED BY <2>1, <2>3, <2>4
<1>10. Files[path] = Shown(node[at])
  BY <1>1, <1>2, FoundView DEF at, path
<1>11. Files' = [Files EXCEPT ![path].M.sec = time]
  BY <1>2, <1>5, <1>9, <1>10
<1>12. Pending' = View!NoRequest
  BY <1>1 DEF Idle, Pending, Finding, View!NoRequest
<1>13. Pending.path = path
  BY <1>2
<1>14. View!Answer([op |-> "utimens", path |-> Pending.path, err |-> "OK"])
  BY <1>1, <1>12, <1>13 DEF View!Answer
<1> QED BY <1>2, <1>11, <1>13, <1>14 DEF View!UTimens

(* The promise counts a listing as the handler does.                       *)
LEMMA ViewCounts ==
  ASSUME NEW S
  PROVE  View!Cardinality(S) = Cardinality(S)
BY Zenon DEF View!Cardinality, Cardinality

(* A step of the process is a step of the promise, or none.                *)
LEMMA ViewStep ==
  ASSUME TreeInv, TreeInv', [Next]_vars
  PROVE  [View!Next]_(View!vars)
<1>1. CASE Indexing
  <2>1. ASSUME call.op \in {"idle", "insert"}, call'.op \in {"idle", "insert"},
               UNCHANGED <<archive, phase, reply>>, phase = "indexing"
        PROVE  UNCHANGED View!vars
    BY <2>1, PendingIs, ViewStutters DEF Pending, Finding
  <2>2. CASE NextItem
    BY <2>1, <2>2 DEF NextItem, Idle, Call
  <2>3. ASSUME call.op = "insert" PROVE phase = "indexing" /\ call \in [op : {"insert"},
                 path : Seq(Name), depth : Nat, at : Inode]
    BY <2>3 DEF TreeInv, Calls, InsertWay, TypeOK, Idle
  <2>4. ASSUME NEW n, call.op = "insert", Descend(n) PROVE call'.op = "insert"
    BY <2>3, <2>4 DEF Descend
  <2>5. CASE InsertBelow
    BY <2>1, <2>3, <2>4, <2>5 DEF InsertBelow
  <2>6. CASE InsertSubdir
    BY <2>1, <2>3, <2>4, <2>6 DEF InsertSubdir
  <2>7. CASE InsertLeaf
    BY <2>1, <2>3, <2>7 DEF InsertLeaf, ItemDone, Idle
  <2>8. CASE Mount
    BY <2>8, MountedView DEF View!Next
  <2> QED BY <1>1, <2>2, <2>5, <2>6, <2>7, <2>8 DEF Indexing
<1>2. CASE Requests
  <2>1. PICK op \in {"getattr", "readdir", "utimens"} :
          \/ Request(op, <<>>)
          \/ \E n \in DOMAIN node, x \in Name : Request(op, Append(node[n].full, x))
    BY <1>2 DEF Requests
  <2>2. \E path : /\ Request(op, path)
                  /\ \/ path = <<>>
                     \/ \E n \in DOMAIN node, x \in Name : path = Append(node[n].full, x)
    BY <2>1
  <2> QED BY <2>2, RequestView DEF View!Next
<1>3. CASE Serving
  <2>1. ASSUME Finding, UNCHANGED <<archive, phase, node, reply>>,
               \/ \E n : Return(n)
               \/ \E n : Descend(n)
        PROVE  UNCHANGED View!vars
    <3>1. Pending' = Pending
      <4>1. CASE \E n : Return(n)
        BY <2>1, <4>1 DEF Return, Pending, Finding
      <4>2. ASSUME NEW n, Descend(n) PROVE Pending' = Pending
        <5>1. call' = [op |-> call.op, path |-> call.path, depth |-> call.depth + 1, at |-> n]
          BY <2>1, <4>2, DescendsTo DEF TreeInv, Finding
        <5> QED BY <2>1, <5>1 DEF Pending, Finding
      <4> QED BY <2>1, <4>1, <4>2
    <3> QED BY <2>1, <3>1, ViewStutters
  <2>2. CASE FindRoot
    BY <2>1, <2>2 DEF FindRoot
  <2>3. CASE FindBelow
    BY <2>1, <2>3 DEF FindBelow
  <2>4. CASE FindLeaf
    BY <2>1, <2>4 DEF FindLeaf
  <2>5. CASE FindOverrun
    BY <2>5, OverrunView DEF View!Next
  <2>6. CASE NotFound
    <3>1. /\ call.op = "found" /\ call.at = NULL /\ call' = Idle
          /\ reply' = [op |-> call.for, path |-> call.path, err |-> "ENOENT"]
          /\ UNCHANGED <<archive, phase, node>>
      BY <2>6 DEF NotFound
    <3>2. View!NotFound(call.for)
      BY <3>1, FoundView, AnswerView DEF View!NotFound
    <3> QED BY <3>1, <3>2, FoundView DEF View!Next
  <2>7. CASE GetAttr
    <3>1. /\ call.op = "found" /\ call.for = "getattr" /\ call.at # NULL /\ call' = Idle
          /\ UNCHANGED <<archive, phase, node>>
      BY <2>7 DEF GetAttr, Found
    <3> DEFINE n == node[call.at]
               f == Shown(n)
               entries == Cardinality(Listing(call.at))
    <3>2. /\ Files[call.path] = f /\ Cardinality(View!Below(call.path)) = entries
          /\ Pending.path = call.path /\ View!Pending("getattr") /\ call.path \in DOMAIN Files
      BY <3>1, FoundView
    <3>3. /\ f.is_dir = n.is_dir /\ f.size = n.size /\ f.A = n.A /\ f.C = n.C /\ f.M = n.M
      BY DEF Shown
    <3>4. reply' = [op |-> "getattr", path |-> call.path, err |-> "OK", dir |-> n.is_dir,
                    size |-> IF n.is_dir THEN entries ELSE n.size,
                    nlink |-> IF n.is_dir THEN 2 + entries ELSE 1,
                    A |-> n.A, C |-> n.C, M |-> n.M]
      BY <2>7 DEF GetAttr
    <3> HIDE DEF n, f, entries
    <3>5. View!Answer(reply') /\ Files' = Files
      BY <3>1, AnswerView
    <3> DEFINE answer == [op |-> "getattr", path |-> Pending.path, err |-> "OK",
                          dir |-> Files[Pending.path].is_dir,
                          size |-> IF Files[Pending.path].is_dir
                                     THEN View!Cardinality(View!Below(Pending.path))
                                     ELSE Files[Pending.path].size,
                          nlink |-> IF Files[Pending.path].is_dir
                                      THEN 2 + View!Cardinality(View!Below(Pending.path)) ELSE 1,
                          A |-> Files[Pending.path].A, C |-> Files[Pending.path].C,
                          M |-> Files[Pending.path].M]
    <3>6. reply' = answer
      BY <3>2, <3>3, <3>4, ViewCounts
    <3> HIDE DEF answer
    <3>7. View!Answer(answer) /\ View!Pending("getattr") /\ Pending.path \in DOMAIN Files
      BY <3>2, <3>5, <3>6
    <3>8. View!GetAttr
      BY <3>5, <3>7, Zenon DEF View!GetAttr, answer
    <3> QED BY <3>8 DEF View!Next
  <2>8. CASE ReadDir
    <3>1. /\ call.op = "found" /\ call.for = "readdir" /\ call.at # NULL /\ call' = Idle
          /\ reply' = [op |-> "readdir", path |-> call.path, err |-> "OK",
                       names |-> Listing(call.at)]
          /\ UNCHANGED <<archive, phase, node>>
      BY <2>8 DEF ReadDir, Found
    <3>2. View!ReadDir
      BY <3>1, FoundView, AnswerView DEF View!ReadDir
    <3> QED BY <3>2 DEF View!Next
  <2>9. ASSUME NEW time \in NewTime, UTimens(time) PROVE View!Next
    BY <2>9, TimeSetView DEF View!Next
  <2> QED BY <1>3, <2>2, <2>3, <2>4, <2>5, <2>6, <2>7, <2>8, <2>9 DEF Serving
<1>4. CASE UNCHANGED vars
  <2>1. Pending' = Pending
    BY <1>4 DEF vars, Pending, Finding
  <2> QED BY <1>4, <2>1, ViewStutters DEF vars
<1> QED BY <1>1, <1>2, <1>3, <1>4 DEF Next

(* However the archive is built and searched, to its clients it is one     *)
(* tree, there at once, that each request reads or changes in one step.    *)
THEOREM TreeIsTheView == Spec => ImplementsArchiveView
<1>1. Init => View!Init
  BY DEF Init, Idle, View!Init, Files, Pending, Finding, View!NoRequest
<1> QED BY <1>1, ViewStep, TreeAlways, PTL DEF Spec, ImplementsArchiveView, View!Spec
=============================================================================
