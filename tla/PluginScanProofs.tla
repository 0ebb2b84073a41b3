-------------------------- MODULE PluginScanProofs ---------------------------
(***************************************************************************)
(* Proofs about PluginScan, for every set of file systems, however deep,   *)
(* linked or closed the folders are.                                       *)
(***************************************************************************)
EXTENDS PluginScan, FiniteSetTheorems, TLAPS

(* While there are entries to go through, there is the folder they are in. *)
InSomeFolder == step = "scan" => folder <= Len(Folders)

ScanInv == TypeOK /\ CwdRestored /\ InSomeFolder

-----------------------------------------------------------------------------
(* A scan more, or one entry less to go through, leaves a stack of scans.  *)
LEMMA Stacks ==
  ASSUME NEW s \in Seq(SUBSET Name), NEW e \in SUBSET Name
  PROVE  <<e>> \o s \in Seq(SUBSET Name) \ {<<>>}
<1>1. <<e>> \in Seq(SUBSET Name)
  OBVIOUS
<1>2. <<e>> \o s \in Seq(SUBSET Name) /\ Len(<<e>> \o s) = Len(<<e>>) + Len(s)
  BY <1>1
<1>3. Len(<<e>> \o s) > 0
  BY <1>2
<1> QED BY <1>2, <1>3

(* Taking a name from the innermost listing leaves the listings nonempty.  *)
LEMMA EntryDone ==
  ASSUME NEW s \in Seq(SUBSET Name), s # <<>>, NEW x \in Name
  PROVE  [s EXCEPT ![1] = @ \ {x}] \in Seq(SUBSET Name) \ {<<>>}
<1> DEFINE t == [s EXCEPT ![1] = @ \ {x}]
<1>1. s \in [1 .. Len(s) -> SUBSET Name] /\ Len(s) \in Nat /\ Len(s) > 0
  OBVIOUS
<1>2. t \in [1 .. Len(s) -> SUBSET Name]
  BY <1>1
<1>3. t \in Seq(SUBSET Name) /\ Len(t) = Len(s)
  BY <1>1, <1>2
<1> QED BY <1>1, <1>3

(* The folder that is entered is one, and so is where chdir leads.         *)
LEMMA ChdirInDirectory ==
  ASSUME TypeOK, NEW d \in Directory, Chdir(d)
  PROVE  cwd' \in Directory
BY DEF TypeOK, Chdir

(* What a name stands for is a place.                                      *)
LEMMA ThereIsPlace ==
  ASSUME TypeOK, NEW x \in Name
  PROVE  There(x) \in Place
BY PluginScanAssumption DEF TypeOK, There

(* A directory lists names.                                                *)
LEMMA EntriesAreNames ==
  ASSUME NEW d
  PROVE  Entries(d) \in SUBSET Name
BY DEF Entries

-----------------------------------------------------------------------------
(* The first scan begins with the working directory at home.               *)
LEMMA ScanInit == Init => ScanInv
BY PluginScanAssumption DEF Init, ScanInv, TypeOK, CwdRestored, InSomeFolder

(* Every step keeps the invariant.                                         *)
LEMMA ScanNext == ScanInv /\ [Next]_vars => ScanInv'
<1> SUFFICES ASSUME ScanInv, [Next]_vars PROVE ScanInv'
  OBVIOUS
<1> USE PluginScanAssumption DEF ScanInv, InSomeFolder
<1>1. CASE EnterFolder
  <2>1. Folders[folder] \in Directory
    BY <1>1 DEF EnterFolder, TypeOK
  <2>2. cwd' \in Directory
    BY <1>1, <2>1, ChdirInDirectory DEF EnterFolder
  <2>3. scans' \in Seq(SUBSET Name) \ {<<>>}
    <3> DEFINE e == IF CanRead(Folders[folder]) THEN Entries(Folders[folder]) ELSE {}
    <3>1. e \in SUBSET Name
      BY EntriesAreNames
    <3>2. scans' = <<e>> \o scans
      BY <1>1 DEF EnterFolder, Scandir
    <3>3. scans \in Seq(SUBSET Name)
      BY DEF TypeOK
    <3> HIDE DEF e
    <3> QED BY <3>1, <3>2, <3>3, Stacks
  <2> QED BY <1>1, <2>2, <2>3 DEF EnterFolder, TypeOK, CwdRestored, InSomeFolder
<1>2. CASE SkipFolder
  BY <1>2 DEF SkipFolder, ChdirBack, TypeOK, CwdRestored, InSomeFolder
<1>3. CASE Initialized
  BY <1>3 DEF Initialized, TypeOK, CwdRestored, InSomeFolder
<1>4. ASSUME NEW x \in Name, LoadFile(x)
      PROVE  ScanInv'
  <2>1. step = "scan" /\ scans # <<>> /\ UNCHANGED <<tree, step, folder, cwd>>
    BY <1>4 DEF LoadFile, Select, TypeOK
  <2>2. scans' \in Seq(SUBSET Name) \ {<<>>}
    BY <1>4, <2>1, EntryDone DEF LoadFile, Rest, TypeOK
  <2>3. handlers' \in Seq(Plugin)
    BY <1>4 DEF LoadFile, Kept, TypeOK
  <2> QED BY <2>1, <2>2, <2>3 DEF TypeOK, CwdRestored, InSomeFolder
<1>5. ASSUME NEW x \in Name, Ignore(x)
      PROVE  ScanInv'
  <2>1. step = "scan" /\ scans # <<>> /\ UNCHANGED <<tree, step, folder, cwd, handlers>>
    BY <1>5 DEF Ignore, Select, TypeOK
  <2>2. scans' \in Seq(SUBSET Name) \ {<<>>}
    BY <1>5, <2>1, EntryDone DEF Ignore, Rest, TypeOK
  <2> QED BY <2>1, <2>2 DEF TypeOK, CwdRestored, InSomeFolder
<1>6. ASSUME NEW x \in Name, Descend(x)
      PROVE  ScanInv'
  <2> DEFINE here == IF There(x) \in tree.searchable THEN There(x) ELSE cwd
             e == IF CanRead(here) THEN Entries(here) ELSE {}
  <2>1. step = "scan" /\ scans # <<>> /\ UNCHANGED <<tree, step, folder, handlers>>
    BY <1>6 DEF Descend, Select, TypeOK
  <2>2. cwd' \in Directory
    BY <1>6, ChdirInDirectory DEF Descend
  <2>3. Rest(x) \in Seq(SUBSET Name)
    BY <2>1, EntryDone DEF Rest, TypeOK
  <2>4. scans' = <<e>> \o Rest(x)
    BY <1>6 DEF Descend
  <2>5. e \in SUBSET Name
    BY EntriesAreNames
  <2> HIDE DEF here, e
  <2>6. scans' \in Seq(SUBSET Name) \ {<<>>}
    BY <2>3, <2>4, <2>5, Stacks
  <2> QED BY <2>1, <2>2, <2>6 DEF TypeOK, CwdRestored, InSomeFolder
<1>7. CASE EndSubfolder
  <2>1. /\ step = "scan" /\ scans' = Tail(scans) /\ Len(scans) > 1
        /\ UNCHANGED <<tree, step, folder, handlers>>
    BY <1>7 DEF EndSubfolder
  <2>2. tree.up[cwd] \in Directory
    BY DEF TypeOK
  <2>3. cwd' \in Directory
    BY <1>7, <2>2, ChdirInDirectory DEF EndSubfolder, Ascend
  <2>4. scans' \in Seq(SUBSET Name) /\ Len(scans') = Len(scans) - 1
    BY <2>1 DEF TypeOK
  <2>5. scans' # <<>>
    <3>1. Len(scans) \in Nat
      BY DEF TypeOK
    <3>2. Len(scans') > 0
      BY <2>1, <2>4, <3>1
    <3> QED BY <3>2
  <2> QED BY <2>1, <2>3, <2>4, <2>5 DEF TypeOK, CwdRestored, InSomeFolder
<1>8. CASE EndFolder
  <2>1. folder <= Len(Folders)
    BY <1>8 DEF EndFolder, InSomeFolder
  <2> QED BY <1>8, <2>1 DEF EndFolder, ChdirBack, TypeOK, CwdRestored, InSomeFolder
<1>9. CASE UNCHANGED vars
  BY <1>9 DEF vars, TypeOK, CwdRestored, InSomeFolder
<1> QED BY <1>1, <1>2, <1>3, <1>4, <1>5, <1>6, <1>7, <1>8, <1>9 DEF Next, Done

(* The invariant at every step.                                            *)
LEMMA ScanInvariant == Spec => []ScanInv
BY ScanInit, ScanNext, PTL DEF Spec

-----------------------------------------------------------------------------
(* Every variable of the scan keeps its type.                              *)
THEOREM ScanTypes == Spec => []TypeOK
<1>1. ScanInv => TypeOK
  BY DEF ScanInv
<1> QED BY <1>1, ScanInvariant, PTL

(* Between two calls of LoadDllFromFolder the process is in the directory  *)
(* it started in, although every chdir below may fail or climb too far.    *)
THEOREM BackHome == Spec => []CwdRestored
<1>1. ScanInv => CwdRestored
  BY DEF ScanInv
<1> QED BY <1>1, ScanInvariant, PTL

-----------------------------------------------------------------------------
(* Where the scan goes                                                     *)

(* Folders that names lead to, from the working directory upwards, one for *)
(* each scan that runs.                                                    *)
Trail(S) ==
  \E w \in Seq(Directory \cap S) :
    /\ Len(w) = Len(scans) /\ w[1] = cwd
    /\ \A i \in 1 .. Len(w) - 1 : w[i + 1] = tree.up[w[i]]

StaysIn(S) ==
  (/\ tree.searchable = Directory /\ NoLinks /\ Closed(S)
   /\ \A i \in 1 .. Len(Folders) : Folders[i] \in S) =>
    /\ \A j \in 1 .. Len(handlers) : handlers[j] \in S
    /\ step = "scan" => Trail(S)

(* The step into a folder, down to one it names or back up to the one it   *)
(* was entered from stays where names lead.                                *)
LEMMA StaysInNext ==
  ASSUME NEW S \in SUBSET (Directory \cup File), ScanInv, StaysIn(S), [Next]_vars
  PROVE  StaysIn(S)'
<1> SUFFICES ASSUME tree'.searchable = Directory, NoLinks', Closed(S)',
                    \A i \in 1 .. Len(Folders) : Folders[i] \in S
             PROVE  /\ \A j \in 1 .. Len(handlers') : handlers'[j] \in S
                    /\ step' = "scan" => Trail(S)'
  BY DEF StaysIn
<1>1. TypeOK /\ tree' = tree
  BY DEF ScanInv, Next, vars, EnterFolder, SkipFolder, Initialized, LoadFile, Ignore, Descend,
         EndSubfolder, EndFolder, Done
<1>2. tree.searchable = Directory /\ NoLinks /\ Closed(S)
  BY <1>1 DEF NoLinks, Closed, Entries
<1>3. /\ \A j \in 1 .. Len(handlers) : handlers[j] \in S
      /\ step = "scan" => Trail(S)
  BY <1>2 DEF StaysIn
<1>4. /\ scans \in Seq(SUBSET Name) /\ (step = "scan") = (scans # <<>>)
      /\ cwd \in Directory /\ handlers \in Seq(Plugin)
      /\ tree.entry \in [Directory -> [Name -> Place]]
  BY <1>1, PluginScanAssumption DEF TypeOK
<1>5. ASSUME UNCHANGED <<cwd, tree>>, Len(scans') = Len(scans), Trail(S)
      PROVE  Trail(S)'
  BY <1>5 DEF Trail
<1>6. CASE EnterFolder
  <2> DEFINE d == Folders[folder]
  <2>1. d \in Directory \cap S
    BY <1>1, <1>6, PluginScanAssumption DEF EnterFolder, TypeOK
  <2>2. cwd' = d /\ handlers' = handlers
    BY <1>6 DEF EnterFolder, Chdir
  <2>3. Len(scans') = 1
    <3> DEFINE e == IF CanRead(d) THEN Entries(d) ELSE {}
    <3>1. scans = <<>> /\ scans' = <<e>> \o scans
      BY <1>4, <1>6 DEF EnterFolder, Scandir
    <3> HIDE DEF e
    <3> QED BY <3>1
  <2> HIDE DEF d
  <2> DEFINE w == <<d>>
  <2>4. w \in Seq(Directory \cap S) /\ Len(w) = 1 /\ w[1] = d
    BY <2>1
  <2> HIDE DEF w
  <2>5. Trail(S)'
    <3>1. \A i \in 1 .. Len(w) - 1 : FALSE
      BY <2>4
    <3>2. /\ Len(w) = Len(scans') /\ w[1] = cwd'
          /\ \A i \in 1 .. Len(w) - 1 : w[i + 1] = tree'.up[w[i]]
      BY <2>2, <2>3, <2>4, <3>1
    <3> QED BY <2>4, <3>2 DEF Trail
  <2> QED BY <1>3, <2>2, <2>5
<1>7. CASE SkipFolder \/ Initialized \/ EndFolder
  BY <1>3, <1>7 DEF SkipFolder, Initialized, EndFolder
<1>8. ASSUME NEW x \in Name, Select(x)
      PROVE  /\ Len(Rest(x)) = Len(scans) /\ Trail(S) /\ cwd \in Directory \cap S
             /\ There(x) # NULL => x \in Entries(cwd) /\ There(x) \in S
  <2>1. Trail(S) /\ scans # <<>> /\ Len(scans) > 0
    BY <1>3, <1>4, <1>8 DEF Select
  <2>2. Len(Rest(x)) = Len(scans)
    BY <1>4 DEF Rest
  <2>3. cwd \in Directory \cap S
    <3>1. PICK w \in Seq(Directory \cap S) : Len(w) = Len(scans) /\ w[1] = cwd
      BY <2>1 DEF Trail
    <3>2. 1 \in 1 .. Len(w)
      BY <2>1, <3>1, <1>4
    <3> QED BY <3>1, <3>2
  <2>4. There(x) # NULL => x \in Entries(cwd) /\ There(x) \in S
    BY <1>2, <2>3 DEF There, Entries, Closed
  <2> QED BY <2>1, <2>2, <2>3, <2>4
<1>9. ASSUME NEW x \in Name, LoadFile(x)
      PROVE  /\ \A j \in 1 .. Len(handlers') : handlers'[j] \in S
             /\ Trail(S)'
  <2>1. /\ Select(x) /\ scans' = Rest(x) /\ There(x) \in File /\ UNCHANGED <<cwd, tree>>
        /\ handlers' = IF Kept(There(x)) THEN Append(handlers, There(x)) ELSE handlers
    BY <1>9 DEF LoadFile
  <2>2. There(x) \in S
    BY <1>8, <2>1, PluginScanAssumption
  <2>3. Trail(S)'
    BY <1>5, <1>8, <2>1
  <2>4. \A j \in 1 .. Len(handlers') : handlers'[j] \in S
    BY <1>3, <1>4, <2>1, <2>2
  <2> QED BY <2>3, <2>4
<1>10. ASSUME NEW x \in Name, Ignore(x)
       PROVE  handlers' = handlers /\ Trail(S)'
  <2>1. Select(x) /\ scans' = Rest(x) /\ UNCHANGED <<cwd, tree, handlers>>
    BY <1>10 DEF Ignore
  <2> QED BY <1>5, <1>8, <2>1
<1>11. ASSUME NEW x \in Name, Descend(x)
       PROVE  handlers' = handlers /\ Trail(S)'
  <2> DEFINE d == There(x)
             e == IF CanRead(d) THEN Entries(d) ELSE {}
  <2>1. Select(x) /\ d \in Directory /\ handlers' = handlers
    BY <1>11 DEF Descend
  <2>2. cwd' = d /\ scans' = <<e>> \o Rest(x)
    BY <1>2, <1>11, <2>1 DEF Descend, Chdir
  <2>3. d \in S /\ tree.up[d] = cwd
    <3>1. d # NULL /\ x \in Entries(cwd)
      BY <1>8, <2>1, PluginScanAssumption
    <3> QED BY <1>2, <1>4, <1>8, <2>1, <3>1 DEF NoLinks, There
  <2> HIDE DEF d, e
  <2>4. Len(scans') = Len(scans) + 1 /\ Len(scans) > 0 /\ Len(scans) \in Nat
    <3>1. Len(<<e>> \o Rest(x)) = 1 + Len(Rest(x))
      BY <1>4, <2>1 DEF Rest
    <3>2. Len(scans) > 0 /\ Len(scans) \in Nat
      BY <1>4, <2>1 DEF Select
    <3> QED BY <1>8, <2>1, <2>2, <3>1, <3>2
  <2>5. PICK w \in Seq(Directory \cap S) :
          /\ Len(w) = Len(scans) /\ w[1] = cwd
          /\ \A i \in 1 .. Len(w) - 1 : w[i + 1] = tree.up[w[i]]
    BY <1>8, <2>1 DEF Trail
  <2> DEFINE v == <<d>> \o w
  <2>6. /\ v \in Seq(Directory \cap S) /\ Len(v) = Len(w) + 1 /\ v[1] = d
        /\ \A i \in 1 .. Len(w) : v[i + 1] = w[i]
    BY <2>1, <2>3
  <2> HIDE DEF v
  <2>7. ASSUME NEW i \in 1 .. Len(v) - 1 PROVE v[i + 1] = tree.up[v[i]]
    <3>1. i \in 1 .. Len(w)
      BY <2>6
    <3>2. CASE i = 1
      BY <2>3, <2>5, <2>6, <3>1, <3>2
    <3>3. CASE i # 1
      <4>1. i - 1 \in 1 .. Len(w) - 1 /\ i - 1 \in 1 .. Len(w) /\ (i - 1) + 1 = i
        BY <3>1, <3>3
      <4>2. v[i] = w[i - 1] /\ v[i + 1] = w[i] /\ w[i] = tree.up[w[i - 1]]
        BY <2>5, <2>6, <3>1, <4>1
      <4> QED BY <4>2
    <3> QED BY <3>2, <3>3
  <2>8. Trail(S)'
    <3>1. /\ Len(v) = Len(scans') /\ v[1] = cwd'
          /\ \A i \in 1 .. Len(v) - 1 : v[i + 1] = tree'.up[v[i]]
      BY <1>1, <2>2, <2>4, <2>5, <2>6, <2>7
    <3> QED BY <2>6, <3>1 DEF Trail
  <2> QED BY <2>1, <2>8
<1>12. CASE EndSubfolder
  <2>1. /\ step = "scan" /\ scans' = Tail(scans) /\ Len(scans) > 1
        /\ handlers' = handlers /\ cwd' = IF tree.up[cwd] \in Directory THEN tree.up[cwd] ELSE cwd
    BY <1>2, <1>12 DEF EndSubfolder, Ascend, Chdir
  <2>2. Len(scans') = Len(scans) - 1 /\ Len(scans) \in Nat
    BY <1>4, <2>1
  <2>3. PICK w \in Seq(Directory \cap S) :
          /\ Len(w) = Len(scans) /\ w[1] = cwd
          /\ \A i \in 1 .. Len(w) - 1 : w[i + 1] = tree.up[w[i]]
    BY <1>3, <2>1 DEF Trail
  <2> DEFINE v == Tail(w)
  <2>4. /\ v \in Seq(Directory \cap S) /\ Len(v) = Len(w) - 1
        /\ \A i \in 1 .. Len(v) : v[i] = w[i + 1]
    BY <2>1, <2>2, <2>3
  <2> HIDE DEF v
  <2>5. v[1] = tree.up[cwd] /\ v[1] \in Directory
    <3>1. 1 \in 1 .. Len(v) /\ 1 \in 1 .. Len(w) - 1
      BY <2>1, <2>2, <2>3, <2>4
    <3> QED BY <2>3, <2>4, <3>1
  <2>6. ASSUME NEW i \in 1 .. Len(v) - 1 PROVE v[i + 1] = tree.up[v[i]]
    <3>1. i \in 1 .. Len(v) /\ i + 1 \in 1 .. Len(v) /\ i + 1 \in 1 .. Len(w) - 1
      BY <2>2, <2>3, <2>4
    <3> QED BY <2>3, <2>4, <3>1
  <2>7. Trail(S)'
    BY <1>1, <2>1, <2>2, <2>3, <2>4, <2>5, <2>6 DEF Trail
  <2> QED BY <1>3, <2>1, <2>7
<1>13. CASE UNCHANGED vars
  BY <1>3, <1>5, <1>13 DEF vars
<1>14. CASE Done
  BY <1>13, <1>14 DEF Done
<1> QED BY <1>3, <1>6, <1>7, <1>9, <1>10, <1>11, <1>12, <1>13, <1>14 DEF Next

(* Nothing is loaded but what names lead to from the folders, as long as   *)
(* they may be entered and ".." leads back, however deep they are and      *)
(* whatever in them cannot be read.                                        *)
THEOREM LoadsFromFolders == Spec => []LoadsOnlyThere
<1> DEFINE Inv == \A S \in SUBSET (Directory \cup File) : StaysIn(S)
<1>1. Init => Inv
  BY DEF Init, StaysIn
<1>2. Inv /\ ScanInv /\ [Next]_vars => Inv'
  BY StaysInNext
<1>3. Inv => LoadsOnlyThere
  BY DEF LoadsOnlyThere, StaysIn
<1> QED BY <1>1, <1>2, <1>3, ScanInvariant, PTL DEF Spec

-----------------------------------------------------------------------------
(* What the scan of a plain folder has seen                                *)

Loaded == {handlers[j] : j \in DOMAIN handlers}

(* A folder is in itself, and what is named in it is in it.                *)
LEMMA FolderClosed ==
  ASSUME TypeOK, NEW i \in 1 .. Len(Folders)
  PROVE  /\ Folders[i] \in InFolder(i) \cap Directory
         /\ \A d \in InFolder(i) \cap Directory : \A x \in Entries(d) :
              /\ tree.entry[d][x] \in Directory \cup File
              /\ tree.entry[d][x] \in InFolder(i)
<1>1. Folders[i] \in Directory
  BY PluginScanAssumption
<1>2. ASSUME NEW d \in InFolder(i) \cap Directory, NEW x \in Entries(d)
      PROVE  tree.entry[d][x] \in Directory \cup File /\ tree.entry[d][x] \in InFolder(i)
  <2>1. tree.entry[d][x] \in Directory \cup File
    BY PluginScanAssumption DEF TypeOK, Entries, Place
  <2> SUFFICES ASSUME NEW S \in SUBSET (Directory \cup File), Closed(S), Folders[i] \in S
               PROVE  tree.entry[d][x] \in S
    BY <2>1 DEF InFolder
  <2>2. d \in S
    BY DEF InFolder
  <2> QED BY <2>2 DEF Closed
<1> QED BY <1>1, <1>2 DEF InFolder

(* E holds the directories entered so far, and left[d] the names in d      *)
(* still to come: what has come is entered or loaded, what is to come is   *)
(* not, and what is loaded of this folder has come.                        *)
Entered(E) ==
  /\ E \subseteq InFolder(folder) \cap Directory
  /\ Folders[folder] \in E
  /\ \A d \in E : d # Folders[folder] => tree.up[d] \in E

Come(E, left, loaded) ==
  \A d \in E : \A x \in Entries(d) \ left[d] :
    /\ tree.entry[d][x] \in Directory => tree.entry[d][x] \in E
    /\ tree.entry[d][x] \in Plugin => tree.entry[d][x] \in loaded

ToCome(E, left, loaded) ==
  \A d \in E : \A x \in left[d] : x \in Entries(d) /\ tree.entry[d][x] \notin E \cup loaded

Sources(E, left, loaded) ==
  \A p \in loaded : p \in InFolder(folder) =>
    \E d \in E : \E x \in Entries(d) \ left[d] : tree.entry[d][x] = p

Search(E, left, loaded) ==
  Entered(E) /\ Come(E, left, loaded) /\ ToCome(E, left, loaded) /\ Sources(E, left, loaded)

(* The scan begins in the folder, with all of its entries to come.         *)
LEMMA SearchBegins ==
  ASSUME TypeOK, Plain, folder \in 1 .. Len(Folders),
         NEW loaded \in SUBSET Plugin, loaded \cap InFolder(folder) = {},
         NEW left \in [Directory -> SUBSET Name], left[Folders[folder]] = Entries(Folders[folder])
  PROVE  Search({Folders[folder]}, left, loaded)
<1> DEFINE root == Folders[folder]
<1>1. root \in InFolder(folder) \cap Directory
  BY FolderClosed
<1>2. ASSUME NEW x \in Entries(root) PROVE tree.entry[root][x] \notin {root} \cup loaded
  <2>1. tree.entry[root][x] \in InFolder(folder)
    BY <1>1, FolderClosed
  <2>2. tree.entry[root][x] # root
    BY <1>1 DEF Plain
  <2> QED BY <2>1, <2>2
<1> QED BY <1>1, <1>2 DEF Search, Entered, Come, ToCome, Sources

(* A file comes, and is loaded if it is a plugin.                          *)
LEMMA SearchLoads ==
  ASSUME TypeOK, Plain, folder \in 1 .. Len(Folders),
         NEW E \in SUBSET Directory, NEW left \in [Directory -> SUBSET Name],
         NEW loaded, Search(E, left, loaded),
         NEW d \in E, NEW x \in left[d], NEW p \in File, p = tree.entry[d][x],
         NEW more, more = [left EXCEPT ![d] = @ \ {x}]
  PROVE  Search(E, more, IF p \in Plugin THEN loaded \cup {p} ELSE loaded)
<1> DEFINE now == IF p \in Plugin THEN loaded \cup {p} ELSE loaded
<1>1. /\ more \in [Directory -> SUBSET Name]
      /\ more[d] = left[d] \ {x} /\ \A e \in E : e # d => more[e] = left[e]
  OBVIOUS
<1>2. E \subseteq InFolder(folder) \cap Directory /\ x \in Entries(d) /\ p \notin E
  BY PluginScanAssumption DEF Search, Entered, ToCome
<1>3. Come(E, more, now)
  <2> SUFFICES ASSUME NEW e \in E, NEW y \in Entries(e) \ more[e]
               PROVE  /\ tree.entry[e][y] \in Directory => tree.entry[e][y] \in E
                      /\ tree.entry[e][y] \in Plugin => tree.entry[e][y] \in now
    BY DEF Come
  <2>1. CASE e = d /\ y = x
    BY <2>1, PluginScanAssumption
  <2>2. CASE ~(e = d /\ y = x)
    <3>1. y \in Entries(e) \ left[e]
      BY <1>1, <2>2
    <3> QED BY <3>1 DEF Search, Come
  <2> QED BY <2>1, <2>2
<1>4. ToCome(E, more, now)
  <2> SUFFICES ASSUME NEW e \in E, NEW y \in more[e]
               PROVE  y \in Entries(e) /\ tree.entry[e][y] \notin E \cup now
    BY DEF ToCome
  <2>1. y \in left[e] /\ ~(e = d /\ y = x)
    BY <1>1
  <2>2. y \in Entries(e) /\ tree.entry[e][y] \notin E \cup loaded
    BY <2>1 DEF Search, ToCome
  <2>3. p \in Plugin => tree.entry[e][y] # p
    BY <1>2, <2>1, <2>2 DEF Plain, OnlyName
  <2> QED BY <2>2, <2>3
<1>5. Sources(E, more, now)
  <2> SUFFICES ASSUME NEW q \in now, q \in InFolder(folder)
               PROVE  \E e \in E : \E y \in Entries(e) \ more[e] : tree.entry[e][y] = q
    BY DEF Sources
  <2>1. CASE q = p
    BY <1>1, <1>2, <2>1
  <2>2. CASE q # p
    <3>1. PICK e \in E : \E y \in Entries(e) \ left[e] : tree.entry[e][y] = q
      BY <2>2 DEF Search, Sources
    <3>2. PICK y \in Entries(e) \ left[e] : tree.entry[e][y] = q
      BY <3>1
    <3>3. y \in Entries(e) \ more[e]
      BY <1>1
    <3> QED BY <3>2, <3>3
  <2> QED BY <2>1, <2>2
<1> QED BY <1>3, <1>4, <1>5 DEF Search

(* The next entry of d is the directory c: the scan goes on in c, with all  *)
(* of its entries to come.                                                 *)
Enters(left, d, x, c, more) ==
  x \in left[d] /\ c = tree.entry[d][x] /\ more = [left EXCEPT ![d] = @ \ {x}, ![c] = Entries(c)]

(* A directory comes: it is entered, with all of its entries to come.      *)
LEMMA SearchEnters ==
  ASSUME TypeOK, Plain, folder \in 1 .. Len(Folders),
         NEW E \in SUBSET Directory, NEW left \in [Directory -> SUBSET Name],
         NEW loaded \in SUBSET Plugin, Search(E, left, loaded),
         NEW d \in E, NEW x \in Name, NEW c \in Directory,
         NEW more, Enters(left, d, x, c, more)
  PROVE  c \notin E /\ tree.up[c] = d /\ Search(E \cup {c}, more, loaded)
<1>0. x \in left[d] /\ c = tree.entry[d][x] /\ more = [left EXCEPT ![d] = @ \ {x}, ![c] = Entries(c)]
  BY DEF Enters
<1>1. c \notin E /\ x \in Entries(d) /\ E \subseteq InFolder(folder) \cap Directory
  BY <1>0 DEF Search, Entered, ToCome
<1>2. c \in InFolder(folder) /\ tree.up[c] = d /\ OnlyName(folder, d, x)
  BY <1>0, <1>1, FolderClosed DEF Plain
<1>3. /\ more \in [Directory -> SUBSET Name] /\ more[c] = Entries(c) /\ more[d] = left[d] \ {x}
      /\ \A e \in E : e # d => more[e] = left[e]
  <2>1. Entries(c) \in SUBSET Name
    BY EntriesAreNames
  <2> QED BY <1>0, <1>1, <2>1
<1>4. Entered(E \cup {c})
  BY <1>1, <1>2 DEF Search, Entered
<1>5. Come(E \cup {c}, more, loaded)
  <2> SUFFICES ASSUME NEW e \in E \cup {c}, NEW y \in Entries(e) \ more[e]
               PROVE  /\ tree.entry[e][y] \in Directory => tree.entry[e][y] \in E \cup {c}
                      /\ tree.entry[e][y] \in Plugin => tree.entry[e][y] \in loaded
    BY DEF Come
  <2>1. e \in E
    BY <1>3
  <2>2. CASE e = d /\ y = x
    BY <1>0, <2>2, PluginScanAssumption
  <2>3. CASE ~(e = d /\ y = x)
    <3>1. y \in Entries(e) \ left[e]
      BY <1>3, <2>1, <2>3
    <3> QED BY <2>1, <3>1 DEF Search, Come
  <2> QED BY <2>2, <2>3
<1>6. ToCome(E \cup {c}, more, loaded)
  <2> SUFFICES ASSUME NEW e \in E \cup {c}, NEW y \in more[e]
               PROVE  y \in Entries(e) /\ tree.entry[e][y] \notin E \cup {c} \cup loaded
    BY DEF ToCome
  <2>1. CASE e = c
    <3> DEFINE q == tree.entry[c][y]
    <3>1. y \in Entries(c) /\ c \in InFolder(folder) \cap Directory
      BY <1>2, <1>3, <2>1
    <3>2. ASSUME q \in E \cup {c} PROVE FALSE
      <4>1. q \in Directory
        BY <3>2
      <4>2. tree.up[q] = c /\ q # Folders[folder]
        BY <3>1, <4>1 DEF Plain
      <4>3. CASE q = c
        BY <1>1, <1>2, <4>2, <4>3
      <4>4. CASE q \in E
        BY <1>1, <4>2, <4>4 DEF Search, Entered
      <4> QED BY <3>2, <4>3, <4>4
    <3>3. ASSUME q \in loaded PROVE FALSE
      <4>1. q \in InFolder(folder) /\ q \in Plugin
        BY <3>1, <3>3, FolderClosed
      <4>2. PICK b \in E : \E z \in Entries(b) \ left[b] : tree.entry[b][z] = q
        BY <3>3, <4>1 DEF Search, Sources
      <4>3. OnlyName(folder, c, y)
        BY <3>1, <4>1 DEF Plain
      <4>4. b = c
        BY <1>1, <4>2, <4>3 DEF OnlyName
      <4> QED BY <1>1, <4>4
    <3> QED BY <2>1, <3>1, <3>2, <3>3
  <2>2. CASE e # c
    <3>1. e \in E /\ y \in left[e] /\ ~(e = d /\ y = x)
      BY <1>3, <2>2
    <3>2. y \in Entries(e) /\ tree.entry[e][y] \notin E \cup loaded
      BY <3>1 DEF Search, ToCome
    <3>3. tree.entry[e][y] # c
      BY <1>0, <1>1, <1>2, <3>1, <3>2 DEF OnlyName
    <3> QED BY <3>2, <3>3
  <2> QED BY <2>1, <2>2
<1>7. Sources(E \cup {c}, more, loaded)
  <2> SUFFICES ASSUME NEW q \in loaded, q \in InFolder(folder)
               PROVE  \E e \in E \cup {c} : \E y \in Entries(e) \ more[e] : tree.entry[e][y] = q
    BY DEF Sources
  <2>1. PICK e \in E : \E y \in Entries(e) \ left[e] : tree.entry[e][y] = q
    BY DEF Search, Sources
  <2>2. PICK y \in Entries(e) \ left[e] : tree.entry[e][y] = q
    BY <2>1
  <2>3. y \in Entries(e) \ more[e]
    BY <1>3
  <2> QED BY <2>2, <2>3
<1> QED BY <1>1, <1>2, <1>4, <1>5, <1>6, <1>7 DEF Search

(* When nothing is to come, all the plugins of the folder are loaded.      *)
LEMMA SearchEnds ==
  ASSUME TypeOK, folder \in 1 .. Len(Folders), NEW E \in SUBSET Directory,
         NEW left \in [Directory -> SUBSET Name], NEW loaded, Search(E, left, loaded),
         \A d \in E : left[d] = {}
  PROVE  InFolder(folder) \cap Plugin \subseteq loaded
<1> DEFINE S == {q \in Directory \cup File :
                   q \in E \/ (q \in File /\ (q \in Plugin => q \in loaded))}
<1>1. ASSUME NEW d \in E, NEW x \in Entries(d) PROVE tree.entry[d][x] \in S
  <2>1. tree.entry[d][x] \in Directory \cup File
    BY <1>1, FolderClosed DEF Search, Entered
  <2>2. x \in Entries(d) \ left[d]
    BY <1>1
  <2>3. /\ tree.entry[d][x] \in Directory => tree.entry[d][x] \in E
        /\ tree.entry[d][x] \in Plugin => tree.entry[d][x] \in loaded
    BY <2>2 DEF Search, Come
  <2> QED BY <2>1, <2>3
<1>2. Closed(S)
  BY <1>1, PluginScanAssumption DEF Closed
<1>3. Folders[folder] \in S
  <2>1. Folders[folder] \in E /\ Folders[folder] \in Directory
    BY PluginScanAssumption DEF Search, Entered
  <2> QED BY <2>1
<1>4. S \in SUBSET (Directory \cup File)
  OBVIOUS
<1>5. \A p \in S : p \in Plugin => p \in loaded
  BY PluginScanAssumption
<1> HIDE DEF S
<1> QED BY <1>2, <1>3, <1>4, <1>5 DEF InFolder

-----------------------------------------------------------------------------
(* Where the scan of a plain folder is                                     *)

(* w leads from the working directory at up to the folder, without passing *)
(* a directory twice; the running scans s have what is to come in each,    *)
(* and nothing is to come in the others that have been entered.            *)
Way(w, E, left, s, at) ==
  /\ Len(w) = Len(s) /\ Len(w) > 0
  /\ w[1] = at /\ w[Len(w)] = Folders[folder]
  /\ \A i \in 1 .. Len(w) : w[i] \in E /\ s[i] = left[w[i]]
  /\ \A i \in 1 .. Len(w) - 1 : w[i + 1] = tree.up[w[i]]
  /\ \A i, j \in 1 .. Len(w) : w[i] = w[j] => i = j
  /\ \A d \in E : (\A i \in 1 .. Len(w) : w[i] # d) => left[d] = {}

(* The scans that run are fewer than the process can have open.            *)
LEMMA FewOpen ==
  ASSUME Plain, NEW w \in Seq(Directory), NEW E, NEW left, NEW s, NEW at, Way(w, E, left, s, at)
  PROVE  Len(s) < MaxOpen
<1> DEFINE n == Len(w)
<1>1. n \in Nat /\ w \in [1 .. n -> Directory]
  OBVIOUS
<1>2. \A i, j \in 1 .. n : w[i] = w[j] => i = j
  BY DEF Way
<1>3. w \in Injection(1 .. n, Directory)
  BY <1>1, <1>2 DEF Injection, IsInjective
<1>4. Cardinality(1 .. n) <= Cardinality(Directory)
  BY <1>3, FS_Injection, PluginScanAssumption
<1>5. Cardinality(1 .. n) = n
  BY <1>1, FS_Interval
<1>6. Cardinality(Directory) \in Nat /\ Cardinality(Directory) < MaxOpen /\ MaxOpen \in Nat
  BY FS_CardinalityType, PluginScanAssumption DEF Plain
<1> QED BY <1>1, <1>4, <1>5, <1>6 DEF Way

(* An entry of the innermost scan comes.                                   *)
LEMMA WayStays ==
  ASSUME NEW w \in Seq(Directory), NEW E \in SUBSET Directory,
         NEW left \in [Directory -> SUBSET Name], NEW s \in Seq(SUBSET Name), NEW at \in Directory,
         Way(w, E, left, s, at), NEW x,
         NEW more, more = [left EXCEPT ![at] = @ \ {x}],
         NEW rest, rest = [s EXCEPT ![1] = @ \ {x}]
  PROVE  Way(w, E, more, rest, at)
<1>1. /\ Len(w) \in Nat /\ Len(w) = Len(s) /\ Len(w) > 0 /\ 1 \in 1 .. Len(w)
      /\ w \in [1 .. Len(w) -> Directory] /\ w[1] = at
  BY DEF Way
<1>2. /\ rest \in Seq(SUBSET Name) /\ Len(rest) = Len(s)
      /\ rest[1] = s[1] \ {x} /\ \A i \in 1 .. Len(s) : i # 1 => rest[i] = s[i]
  BY <1>1
<1>3. more[at] = left[at] \ {x} /\ \A d \in Directory : d # at => more[d] = left[d]
  OBVIOUS
<1>4. ASSUME NEW i \in 1 .. Len(w) PROVE w[i] \in E /\ rest[i] = more[w[i]]
  <2>1. w[i] \in E /\ s[i] = left[w[i]] /\ (w[i] = at => i = 1) /\ w[i] \in Directory
    BY <1>1 DEF Way
  <2>2. i \in 1 .. Len(s)
    BY <1>1
  <2>3. CASE i = 1
    BY <1>1, <1>2, <1>3, <2>1, <2>3
  <2>4. CASE i # 1
    BY <1>2, <1>3, <2>1, <2>2, <2>4
  <2> QED BY <2>3, <2>4
<1>5. ASSUME NEW d \in E, \A i \in 1 .. Len(w) : w[i] # d PROVE more[d] = {}
  <2>1. d # at /\ left[d] = {}
    BY <1>1, <1>5 DEF Way
  <2> QED BY <1>3, <2>1
<1> QED BY <1>1, <1>2, <1>4, <1>5 DEF Way

(* A directory is entered from the innermost scan.                         *)
LEMMA WayDown ==
  ASSUME NEW w \in Seq(Directory), NEW E \in SUBSET Directory,
         NEW left \in [Directory -> SUBSET Name], NEW s \in Seq(SUBSET Name), NEW at \in Directory,
         Way(w, E, left, s, at), NEW c \in Directory, c \notin E, tree.up[c] = at,
         NEW names \in SUBSET Name, NEW more, more = [left EXCEPT ![c] = names]
  PROVE  <<c>> \o w \in Seq(Directory) /\ Way(<<c>> \o w, E \cup {c}, more, <<names>> \o s, c)
<1> DEFINE v == <<c>> \o w
           t == <<names>> \o s
<1>1. /\ Len(w) \in Nat /\ Len(w) = Len(s) /\ Len(w) > 0 /\ w[1] = at
      /\ w[Len(w)] = Folders[folder]
  BY DEF Way
<1>2. /\ v \in Seq(Directory) /\ Len(v) = Len(w) + 1 /\ v[1] = c
      /\ \A i \in 1 .. Len(w) : v[i + 1] = w[i]
  BY <1>1
<1>3. /\ Len(t) = Len(s) + 1 /\ t[1] = names
      /\ \A i \in 1 .. Len(s) : t[i + 1] = s[i]
  BY <1>1
<1>4. more[c] = names /\ \A d \in E : more[d] = left[d]
  OBVIOUS
<1> HIDE DEF v, t
<1>5. \A i \in 1 .. Len(v) : i = 1 \/ \E j \in 1 .. Len(w) : i = j + 1
  <2> SUFFICES ASSUME NEW i \in 1 .. Len(v), i # 1 PROVE \E j \in 1 .. Len(w) : i = j + 1
    OBVIOUS
  <2>1. i - 1 \in 1 .. Len(w) /\ i = (i - 1) + 1
    BY <1>1, <1>2
  <2> QED BY <2>1
<1>6. ASSUME NEW i \in 1 .. Len(v) PROVE v[i] \in E \cup {c} /\ t[i] = more[v[i]]
  <2>1. CASE i = 1
    BY <1>2, <1>3, <1>4, <2>1
  <2>2. ASSUME NEW j \in 1 .. Len(w), i = j + 1 PROVE v[i] \in E /\ t[i] = more[v[i]]
    <3>1. v[i] = w[j] /\ t[i] = s[j] /\ w[j] \in E /\ s[j] = left[w[j]]
      BY <1>1, <1>2, <1>3, <2>2 DEF Way
    <3> QED BY <1>4, <3>1
  <2> QED BY <1>5, <2>1, <2>2
<1>7. ASSUME NEW i \in 1 .. Len(v) - 1 PROVE v[i + 1] = tree.up[v[i]]
  <2>1. i \in 1 .. Len(w) /\ i \in 1 .. Len(v) /\ v[i + 1] = w[i]
    BY <1>1, <1>2
  <2>2. CASE i = 1
    BY <1>1, <1>2, <2>1, <2>2
  <2>3. ASSUME NEW j \in 1 .. Len(w), i = j + 1 PROVE w[i] = tree.up[v[i]]
    <3>1. j \in 1 .. Len(w) - 1
      BY <1>1, <1>2, <2>3
    <3> QED BY <1>2, <2>3, <3>1 DEF Way
  <2> QED BY <1>5, <2>1, <2>2, <2>3
<1>8. ASSUME NEW i \in 1 .. Len(v), NEW j \in 1 .. Len(v), v[i] = v[j] PROVE i = j
  <2>1. \A k \in 1 .. Len(w) : v[k + 1] = w[k] /\ w[k] # c
    BY <1>2 DEF Way
  <2>2. CASE i = 1 \/ j = 1
    BY <1>2, <1>5, <1>8, <2>1, <2>2
  <2>3. ASSUME NEW k \in 1 .. Len(w), NEW l \in 1 .. Len(w), i = k + 1, j = l + 1 PROVE i = j
    BY <1>8, <2>1, <2>3 DEF Way
  <2> QED BY <1>5, <2>2, <2>3
<1>9. ASSUME NEW d \in E \cup {c}, \A i \in 1 .. Len(v) : v[i] # d PROVE more[d] = {}
  <2>1. 1 \in 1 .. Len(v) /\ \A i \in 1 .. Len(w) : i + 1 \in 1 .. Len(v)
    BY <1>1, <1>2
  <2>2. d \in E /\ \A i \in 1 .. Len(w) : w[i] # d
    BY <1>2, <1>9, <2>1
  <2> QED BY <1>4, <2>2 DEF Way
<1>10. v[Len(v)] = Folders[folder]
  <2>1. Len(w) \in 1 .. Len(w) /\ Len(v) = Len(w) + 1
    BY <1>1, <1>2
  <2> QED BY <1>1, <1>2, <2>1
<1>11. Way(v, E \cup {c}, more, t, c)
  BY <1>1, <1>2, <1>3, <1>6, <1>7, <1>8, <1>9, <1>10 DEF Way
<1> QED BY <1>2, <1>11 DEF v, t

(* The innermost scan ends, and ".." leads back.                           *)
LEMMA WayUp ==
  ASSUME NEW w \in Seq(Directory), NEW E \in SUBSET Directory,
         NEW left \in [Directory -> SUBSET Name], NEW s \in Seq(SUBSET Name), NEW at \in Directory,
         Way(w, E, left, s, at), Len(s) > 1, s[1] = {}
  PROVE  Tail(w) \in Seq(Directory) /\ Way(Tail(w), E, left, Tail(s), tree.up[at])
<1> DEFINE v == Tail(w)
           t == Tail(s)
<1>1. /\ Len(w) \in Nat /\ Len(w) = Len(s) /\ Len(w) > 1 /\ w[1] = at
      /\ w[Len(w)] = Folders[folder]
  BY DEF Way
<1>2. /\ v \in Seq(Directory) /\ Len(v) = Len(w) - 1
      /\ \A i \in 1 .. Len(v) : v[i] = w[i + 1]
  BY <1>1
<1>3. /\ Len(t) = Len(s) - 1
      /\ \A i \in 1 .. Len(t) : t[i] = s[i + 1]
  BY <1>1
<1> HIDE DEF v, t
<1>4. \A i \in 1 .. Len(v) : i \in 1 .. Len(t) /\ i + 1 \in 1 .. Len(w)
  BY <1>1, <1>2, <1>3
<1>5. Len(v) = Len(t) /\ Len(v) > 0 /\ v[1] = tree.up[at] /\ v[Len(v)] = Folders[folder]
  <2>1. 1 \in 1 .. Len(v) /\ Len(v) \in 1 .. Len(v) /\ 1 \in 1 .. Len(w) - 1 /\ Len(v) + 1 = Len(w)
    BY <1>1, <1>2
  <2>2. v[1] = w[1 + 1] /\ w[1 + 1] = tree.up[w[1]]
    BY <1>2, <2>1 DEF Way
  <2> QED BY <1>1, <1>2, <1>3, <2>1, <2>2
<1>6. \A i \in 1 .. Len(v) : v[i] \in E /\ t[i] = left[v[i]]
  BY <1>2, <1>3, <1>4 DEF Way
<1>7. ASSUME NEW i \in 1 .. Len(v) - 1 PROVE v[i + 1] = tree.up[v[i]]
  <2>1. i \in 1 .. Len(v) /\ i + 1 \in 1 .. Len(v) /\ i + 1 \in 1 .. Len(w) - 1
    BY <1>1, <1>2
  <2> QED BY <1>2, <2>1 DEF Way
<1>8. ASSUME NEW i \in 1 .. Len(v), NEW j \in 1 .. Len(v), v[i] = v[j] PROVE i = j
  <2>1. w[i + 1] = w[j + 1] /\ i + 1 \in 1 .. Len(w) /\ j + 1 \in 1 .. Len(w)
    BY <1>2, <1>4, <1>8
  <2>2. i + 1 = j + 1
    BY <2>1 DEF Way
  <2> QED BY <1>1, <1>2, <2>2
<1>9. ASSUME NEW d \in E, \A i \in 1 .. Len(v) : v[i] # d PROVE left[d] = {}
  <2>1. CASE d = at
    <3>1. s[1] = left[w[1]]
      BY <1>1 DEF Way
    <3> QED BY <1>1, <2>1, <3>1
  <2>2. CASE d # at
    <3> SUFFICES ASSUME NEW i \in 1 .. Len(w) PROVE w[i] # d
      BY DEF Way
    <3>1. CASE i = 1
      BY <1>1, <2>2, <3>1
    <3>2. CASE i # 1
      <4>1. i - 1 \in 1 .. Len(v) /\ (i - 1) + 1 = i
        BY <1>1, <1>2, <3>2
      <4>2. v[i - 1] = w[i]
        BY <1>2, <4>1
      <4> QED BY <1>9, <4>1, <4>2
    <3> QED BY <3>1, <3>2
  <2> QED BY <2>1, <2>2
<1>10. Way(v, E, left, t, tree.up[at])
  BY <1>5, <1>6, <1>7, <1>8, <1>9 DEF Way
<1> QED BY <1>2, <1>10 DEF v, t

-----------------------------------------------------------------------------
(* Every plugin once                                                       *)

Scanning ==
  \E E \in SUBSET Directory : \E left \in [Directory -> SUBSET Name] : \E w \in Seq(Directory) :
    Search(E, left, Loaded) /\ Way(w, E, left, scans, cwd)

LoadedOnce == \A i, j \in DOMAIN handlers : handlers[i] = handlers[j] => i = j

FoldersLoaded == \A i \in 1 .. Len(Folders) : i < folder => InFolder(i) \cap Plugin \subseteq Loaded

(* A handler is of a folder that has been scanned or is.                   *)
OnlyScanned ==
  \A p \in Loaded : \E i \in 1 .. Len(Folders) :
    i <= folder /\ (step # "scan" => i < folder) /\ p \in InFolder(i)

AllScanned == step = "done" => folder > Len(Folders)

Progress ==
  Plain => LoadedOnce /\ FoldersLoaded /\ OnlyScanned /\ AllScanned /\ (step = "scan" => Scanning)

(* What is loaded are plugins.                                             *)
LEMMA LoadedType == TypeOK => Loaded \in SUBSET Plugin
BY DEF TypeOK, Loaded

(* Nothing changes the file system.                                        *)
LEMMA SameTree ==
  ASSUME tree' = tree
  PROVE  /\ Plain' <=> Plain
         /\ \A i : InFolder(i)' = InFolder(i)
<1>1. /\ \A d : Entries(d)' = Entries(d)
      /\ \A S : Closed(S)' <=> Closed(S)
  BY DEF Entries, Closed
<1>2. \A i : InFolder(i)' = InFolder(i)
  BY <1>1 DEF InFolder
<1>3. \A i, d, x : OnlyName(i, d, x)' <=> OnlyName(i, d, x)
  BY <1>1, <1>2 DEF OnlyName
<1> QED BY <1>1, <1>2, <1>3 DEF Plain

(* The scan of the folder goes on.                                         *)
LEMMA ScanningNext ==
  ASSUME UNCHANGED <<tree, folder>>,
         NEW E \in SUBSET Directory, NEW left \in [Directory -> SUBSET Name],
         NEW w \in Seq(Directory), Search(E, left, Loaded'), Way(w, E, left, scans', cwd')
  PROVE  Scanning'
<1>1. \A d : Entries(d)' = Entries(d)
  BY DEF Entries
<1>2. \A i : InFolder(i)' = InFolder(i)
  BY SameTree
<1>3. Search(E, left, Loaded)'
  BY <1>1, <1>2 DEF Search, Entered, Come, ToCome, Sources
<1>4. Way(w, E, left, scans, cwd)'
  BY DEF Way
<1> QED BY <1>3, <1>4 DEF Scanning

(* Every step keeps the progress: no plugin is missed, none is loaded      *)
(* twice.                                                                  *)
LEMMA ProgressNext == ScanInv /\ Progress /\ [Next]_vars => Progress'
<1> SUFFICES ASSUME ScanInv, Progress, [Next]_vars, Plain'
             PROVE  /\ LoadedOnce' /\ FoldersLoaded' /\ OnlyScanned' /\ AllScanned'
                    /\ step' = "scan" => Scanning'
  BY DEF Progress
<1>1. TypeOK /\ tree' = tree
  BY DEF ScanInv, Next, vars, EnterFolder, SkipFolder, Initialized, LoadFile, Ignore, Descend,
         EndSubfolder, EndFolder, Done
<1>2. Plain /\ \A i : InFolder(i)' = InFolder(i)
  BY <1>1, SameTree
<1>3. LoadedOnce /\ FoldersLoaded /\ OnlyScanned /\ AllScanned /\ (step = "scan" => Scanning)
  BY <1>2 DEF Progress
<1>4. /\ scans \in Seq(SUBSET Name) /\ (step = "scan") = (scans # <<>>)
      /\ cwd \in Directory /\ handlers \in Seq(Plugin) /\ folder \in 1 .. Len(Folders) + 1
      /\ Len(Folders) \in Nat /\ Loaded \in SUBSET Plugin
      /\ tree.readable = Directory /\ tree.searchable = Directory
  BY <1>1, <1>2, PluginScanAssumption, LoadedType DEF TypeOK, Plain
<1>5. ASSUME handlers' = handlers
      PROVE  /\ Loaded' = Loaded /\ LoadedOnce'
             /\ UNCHANGED folder => FoldersLoaded'
             /\ UNCHANGED <<step, folder>> => OnlyScanned'
  <2>1. Loaded' = Loaded /\ LoadedOnce'
    BY <1>3, <1>5 DEF Loaded, LoadedOnce
  <2>2. ASSUME UNCHANGED folder PROVE FoldersLoaded'
    BY <1>2, <1>3, <2>1, <2>2 DEF FoldersLoaded
  <2>3. ASSUME UNCHANGED <<step, folder>> PROVE OnlyScanned'
    BY <1>2, <1>3, <2>1, <2>3 DEF OnlyScanned
  <2> QED BY <2>1, <2>2, <2>3
<1>6. CASE EnterFolder
  <2>1. /\ step = "enter" /\ step' = "scan" /\ folder <= Len(Folders)
        /\ UNCHANGED <<folder, handlers>>
    BY <1>6 DEF EnterFolder
  <2>2. folder \in 1 .. Len(Folders)
    BY <1>4, <2>1
  <2>3. PICK root \in Directory : root = Folders[folder]
    BY <2>2, PluginScanAssumption
  <2>4. cwd' = root
    BY <1>4, <1>6, <2>3 DEF EnterFolder, Chdir
  <2>5. scans' = <<Entries(root)>> /\ Entries(root) \in SUBSET Name
    <3>1. scans = <<>>
      BY <1>4, <2>1
    <3>2. 0 < MaxOpen
      <4>1. Cardinality(Directory) \in Nat /\ Cardinality(Directory) < MaxOpen /\ MaxOpen \in Nat
        BY <1>2, FS_CardinalityType, PluginScanAssumption DEF Plain
      <4> QED BY <4>1
    <3>3. CanRead(root)
      BY <1>4, <3>1, <3>2 DEF CanRead
    <3>4. scans' = <<Entries(root)>> \o scans
      BY <1>6, <2>3, <3>3 DEF EnterFolder, Scandir
    <3>5. Entries(root) \in SUBSET Name
      BY EntriesAreNames
    <3> DEFINE e == Entries(root)
    <3>6. \A n \in SUBSET Name : <<n>> \o <<>> = <<n>>
      OBVIOUS
    <3> QED BY <3>1, <3>4, <3>5, <3>6
  <2>6. PICK left \in [Directory -> SUBSET Name] : left = [d \in Directory |-> Entries(root)]
    BY <2>5
  <2>7. Loaded \cap InFolder(folder) = {}
    <3> SUFFICES ASSUME NEW p \in Loaded, p \in InFolder(folder) PROVE FALSE
      OBVIOUS
    <3>1. PICK i \in 1 .. Len(Folders) : i < folder /\ p \in InFolder(i)
      BY <1>3, <2>1 DEF OnlyScanned
    <3>2. i # folder /\ p \in Plugin
      BY <1>4, <3>1
    <3> QED BY <1>2, <2>2, <3>1, <3>2 DEF Plain
  <2>8. Search({root}, left, Loaded)
    BY <1>1, <1>2, <1>4, <2>2, <2>3, <2>6, <2>7, SearchBegins
  <2>9. PICK w \in Seq(Directory) : w = <<root>>
    <3>1. <<root>> \in Seq(Directory)
      OBVIOUS
    <3> QED BY <3>1
  <2>10. Way(w, {root}, left, scans', cwd')
    <3>1. Len(w) = 1 /\ w[1] = root /\ Len(scans') = 1 /\ scans'[1] = left[root]
      BY <2>5, <2>6, <2>9
    <3> QED BY <2>3, <2>4, <3>1 DEF Way
  <2>11. Scanning'
    <3>1. Loaded' = Loaded
      BY <1>5, <2>1
    <3> QED BY <1>1, <2>1, <2>8, <2>10, <3>1, ScanningNext
  <2>12. OnlyScanned'
    <3> SUFFICES ASSUME NEW p \in Loaded
                 PROVE  \E i \in 1 .. Len(Folders) : i <= folder /\ p \in InFolder(i)
      BY <1>2, <1>5, <2>1 DEF OnlyScanned
    <3> QED BY <1>3 DEF OnlyScanned
  <2>13. AllScanned'
    BY <2>1 DEF AllScanned
  <2> QED BY <1>5, <2>1, <2>11, <2>12, <2>13
<1>7. ASSUME SkipFolder PROVE FALSE
  <2>1. step = "enter" /\ folder <= Len(Folders) /\ cwd = Home
    BY <1>7 DEF SkipFolder, ScanInv, CwdRestored
  <2>2. Folders[folder] \in Directory
    BY <1>4, <2>1, PluginScanAssumption
  <2> QED BY <1>4, <1>7, <2>1, <2>2 DEF SkipFolder
<1>8. CASE Initialized
  <2>1. /\ step = "enter" /\ step' = "done" /\ folder > Len(Folders)
        /\ UNCHANGED <<folder, handlers>>
    BY <1>8 DEF Initialized
  <2>2. OnlyScanned'
    BY <1>2, <1>3, <1>5, <2>1 DEF OnlyScanned
  <2>3. AllScanned'
    BY <2>1 DEF AllScanned
  <2> QED BY <1>5, <2>1, <2>2, <2>3
<1>9. ASSUME NEW x \in Name, Select(x)
      PROVE  /\ folder \in 1 .. Len(Folders) /\ Len(scans) < MaxOpen /\ Len(scans) \in Nat
             /\ scans # <<>> /\ scans[1] \in SUBSET Name /\ Rest(x) \in Seq(SUBSET Name)
             /\ Len(Rest(x)) = Len(scans)
             /\ \E E \in SUBSET Directory : \E left \in [Directory -> SUBSET Name] :
                  \E w \in Seq(Directory) :
                    /\ Search(E, left, Loaded) /\ Way(w, E, left, scans, cwd)
                    /\ cwd \in E /\ x \in left[cwd] /\ There(x) \in Directory \cup File
  <2>1. step = "scan" /\ x \in scans[1] /\ scans # <<>>
    BY <1>4, <1>9 DEF Select
  <2>2. folder \in 1 .. Len(Folders)
    BY <1>4, <2>1 DEF ScanInv, InSomeFolder
  <2>3. PICK E \in SUBSET Directory : \E left \in [Directory -> SUBSET Name] :
          \E w \in Seq(Directory) : Search(E, left, Loaded) /\ Way(w, E, left, scans, cwd)
    BY <1>3, <2>1 DEF Scanning
  <2>4. PICK left \in [Directory -> SUBSET Name] :
          \E w \in Seq(Directory) : Search(E, left, Loaded) /\ Way(w, E, left, scans, cwd)
    BY <2>3
  <2>5. PICK w \in Seq(Directory) : Search(E, left, Loaded) /\ Way(w, E, left, scans, cwd)
    BY <2>4
  <2>6. Len(scans) < MaxOpen
    BY <1>2, <2>5, FewOpen
  <2>7. cwd \in E /\ x \in left[cwd]
    <3>1. 1 \in 1 .. Len(w)
      BY <2>5 DEF Way
    <3> QED BY <2>1, <2>5, <3>1 DEF Way
  <2>8. There(x) \in Directory \cup File
    <3>1. x \in Entries(cwd) /\ cwd \in InFolder(folder) \cap Directory
      BY <2>5, <2>7 DEF Search, Entered, ToCome
    <3> QED BY <1>1, <2>2, <3>1, FolderClosed DEF There
  <2>9. Rest(x) \in Seq(SUBSET Name) /\ Len(Rest(x)) = Len(scans)
    BY <1>4, <2>1, EntryDone DEF Rest
  <2>10. scans[1] \in SUBSET Name /\ Len(scans) \in Nat
    BY <1>4, <2>1
  <2> QED BY <2>1, <2>2, <2>5, <2>6, <2>7, <2>8, <2>9, <2>10
<1>10. ASSUME NEW x \in Name, Ignore(x) PROVE FALSE
  <2>1. Select(x) /\ (\/ There(x) = NULL
                      \/ There(x) \in Directory /\ ~CanRead(There(x))
                      \/ Len(scans) >= MaxOpen)
    BY <1>10 DEF Ignore
  <2>2. There(x) \in Directory \cup File /\ Len(scans) < MaxOpen /\ Len(scans) \in Nat
    BY <1>9, <2>1
  <2>3. There(x) # NULL /\ MaxOpen \in Nat
    BY <2>2, PluginScanAssumption
  <2> QED BY <1>4, <2>1, <2>2, <2>3 DEF CanRead
<1>11. ASSUME NEW x \in Name, LoadFile(x)
       PROVE  LoadedOnce' /\ FoldersLoaded' /\ OnlyScanned' /\ AllScanned' /\ Scanning'
  <2>1. /\ Select(x) /\ There(x) \in File /\ scans' = Rest(x) /\ UNCHANGED <<tree, step, folder, cwd>>
        /\ handlers' = IF There(x) \in Plugin THEN Append(handlers, There(x)) ELSE handlers
    BY <1>11 DEF LoadFile, Kept
  <2>2. /\ folder \in 1 .. Len(Folders) /\ scans # <<>>
        /\ \E E \in SUBSET Directory : \E left \in [Directory -> SUBSET Name] :
             \E w \in Seq(Directory) :
               /\ Search(E, left, Loaded) /\ Way(w, E, left, scans, cwd)
               /\ cwd \in E /\ x \in left[cwd]
    BY <1>9, <2>1
  <2>3. PICK E \in SUBSET Directory : \E left \in [Directory -> SUBSET Name] :
          \E w \in Seq(Directory) :
            /\ Search(E, left, Loaded) /\ Way(w, E, left, scans, cwd)
            /\ cwd \in E /\ x \in left[cwd]
    BY <2>2
  <2>4. PICK left \in [Directory -> SUBSET Name] :
          \E w \in Seq(Directory) :
            /\ Search(E, left, Loaded) /\ Way(w, E, left, scans, cwd)
            /\ cwd \in E /\ x \in left[cwd]
    BY <2>3
  <2>5. PICK w \in Seq(Directory) :
          /\ Search(E, left, Loaded) /\ Way(w, E, left, scans, cwd)
          /\ cwd \in E /\ x \in left[cwd]
    BY <2>4
  <2>6. PICK p \in File : p = tree.entry[cwd][x]
    BY <2>1 DEF There
  <2>7. PICK more \in [Directory -> SUBSET Name] : more = [left EXCEPT ![cwd] = @ \ {x}]
    <3>1. [left EXCEPT ![cwd] = @ \ {x}] \in [Directory -> SUBSET Name]
      BY <1>4
    <3> QED BY <3>1
  <2>8. /\ x \in Entries(cwd) /\ cwd \in InFolder(folder) \cap Directory /\ p \notin Loaded
        /\ p \in InFolder(folder)
    <3>1. x \in Entries(cwd) /\ cwd \in InFolder(folder) \cap Directory /\ p \notin Loaded
      BY <2>5, <2>6 DEF Search, Entered, ToCome
    <3> QED BY <1>1, <2>2, <2>6, <3>1, FolderClosed
  <2>9. /\ Loaded' = IF p \in Plugin THEN Loaded \cup {p} ELSE Loaded
        /\ LoadedOnce'
    <3>1. CASE p \in Plugin
      <4>1. handlers' = Append(handlers, p)
        BY <2>1, <2>6, <3>1 DEF There
      <4> DEFINE n == Len(handlers)
      <4>2. /\ n \in Nat /\ DOMAIN handlers = 1 .. n /\ DOMAIN handlers' = 1 .. n + 1
            /\ handlers'[n + 1] = p /\ \A j \in 1 .. n : handlers'[j] = handlers[j]
        BY <1>4, <3>1, <4>1
      <4>3. \A j \in 1 .. n + 1 : j \in 1 .. n \/ j = n + 1
        BY <4>2
      <4>4. n + 1 \in 1 .. n + 1 /\ \A j \in 1 .. n : j \in 1 .. n + 1
        BY <4>2
      <4> HIDE DEF n
      <4>5. Loaded' = Loaded \cup {p}
        BY <4>2, <4>3, <4>4 DEF Loaded
      <4>6. \A j \in 1 .. n : handlers[j] # p
        BY <2>8, <4>2 DEF Loaded
      <4>7. LoadedOnce'
        BY <1>3, <4>2, <4>3, <4>6 DEF LoadedOnce
      <4> QED BY <3>1, <4>5, <4>7
    <3>2. CASE p \notin Plugin
      BY <1>5, <2>1, <2>6, <3>2 DEF There
    <3> QED BY <3>1, <3>2
  <2>10. Search(E, more, Loaded')
    <3>1. Search(E, more, IF p \in Plugin THEN Loaded \cup {p} ELSE Loaded)
      BY <1>1, <1>2, <2>2, <2>5, <2>6, <2>7, SearchLoads
    <3> QED BY <2>9, <3>1
  <2>11. Way(w, E, more, scans', cwd')
    <3>1. Way(w, E, more, Rest(x), cwd)
      BY <1>4, <2>5, <2>7, WayStays DEF Rest
    <3> QED BY <2>1, <3>1
  <2>12. Scanning'
    BY <2>1, <2>10, <2>11, ScanningNext
  <2>13. FoldersLoaded'
    BY <1>2, <1>3, <2>1, <2>9 DEF FoldersLoaded
  <2>14. OnlyScanned'
    <3> SUFFICES ASSUME NEW q \in Loaded'
                 PROVE  \E i \in 1 .. Len(Folders) :
                          i <= folder /\ (step # "scan" => i < folder) /\ q \in InFolder(i)
      BY <1>2, <2>1 DEF OnlyScanned
    <3>1. step = "scan" /\ folder <= folder
      BY <1>4, <2>1 DEF Select
    <3>2. CASE q \in Loaded
      BY <1>3, <3>2 DEF OnlyScanned
    <3>3. CASE q = p
      BY <2>2, <2>8, <3>1, <3>3
    <3> QED BY <2>9, <3>2, <3>3
  <2>15. AllScanned'
    BY <1>3, <2>1 DEF AllScanned
  <2> QED BY <2>9, <2>12, <2>13, <2>14, <2>15
<1>12. ASSUME NEW x \in Name, Descend(x)
       PROVE  handlers' = handlers /\ UNCHANGED <<step, folder>> /\ AllScanned' /\ Scanning'
  <2>1. Select(x) /\ There(x) \in Directory /\ UNCHANGED <<tree, step, folder, handlers>>
    BY <1>12 DEF Descend
  <2>2. /\ folder \in 1 .. Len(Folders) /\ Len(scans) < MaxOpen
        /\ scans # <<>> /\ Rest(x) \in Seq(SUBSET Name)
        /\ \E E \in SUBSET Directory : \E left \in [Directory -> SUBSET Name] :
             \E w \in Seq(Directory) :
               /\ Search(E, left, Loaded) /\ Way(w, E, left, scans, cwd)
               /\ cwd \in E /\ x \in left[cwd]
    BY <1>9, <2>1
  <2>3. PICK E \in SUBSET Directory : \E left \in [Directory -> SUBSET Name] :
          \E w \in Seq(Directory) :
            /\ Search(E, left, Loaded) /\ Way(w, E, left, scans, cwd)
            /\ cwd \in E /\ x \in left[cwd]
    BY <2>2
  <2>4. PICK left \in [Directory -> SUBSET Name] :
          \E w \in Seq(Directory) :
            /\ Search(E, left, Loaded) /\ Way(w, E, left, scans, cwd)
            /\ cwd \in E /\ x \in left[cwd]
    BY <2>3
  <2>5. PICK w \in Seq(Directory) :
          /\ Search(E, left, Loaded) /\ Way(w, E, left, scans, cwd)
          /\ cwd \in E /\ x \in left[cwd]
    BY <2>4
  <2>6. PICK c \in Directory : c = tree.entry[cwd][x]
    BY <2>1 DEF There
  <2>7. PICK one \in [Directory -> SUBSET Name] : one = [left EXCEPT ![cwd] = @ \ {x}]
    <3>1. [left EXCEPT ![cwd] = @ \ {x}] \in [Directory -> SUBSET Name]
      BY <1>4
    <3> QED BY <3>1
  <2>8. PICK names \in SUBSET Name : names = Entries(c)
    BY EntriesAreNames
  <2>9. PICK more \in [Directory -> SUBSET Name] : more = [one EXCEPT ![c] = names]
    <3>1. [one EXCEPT ![c] = names] \in [Directory -> SUBSET Name]
      OBVIOUS
    <3> QED BY <3>1
  <2>10. cwd' = c /\ scans' = <<names>> \o Rest(x)
    <3>1. CanRead(c)
      BY <1>4, <2>2 DEF CanRead
    <3> QED BY <1>4, <1>12, <2>6, <2>8, <3>1 DEF Descend, Chdir, There
  <2>11. more = [left EXCEPT ![cwd] = @ \ {x}, ![c] = Entries(c)]
    BY <2>7, <2>8, <2>9
  <2>12. c \notin E /\ tree.up[c] = cwd /\ Search(E \cup {c}, more, Loaded)
    <3>1. PICK d \in E : d = cwd
      BY <2>5
    <3>2. PICK loaded \in SUBSET Plugin : loaded = Loaded
      BY <1>4
    <3>3. Search(E, left, loaded) /\ Enters(left, d, x, c, more)
      BY <2>5, <2>6, <2>11, <3>1, <3>2 DEF Enters
    <3>4. TypeOK /\ Plain /\ folder \in 1 .. Len(Folders)
      BY <1>1, <1>2, <2>2
    <3>5. c \notin E /\ tree.up[c] = d /\ Search(E \cup {c}, more, loaded)
      BY <3>3, <3>4, SearchEnters
    <3> QED BY <3>1, <3>2, <3>5
  <2>13. Way(w, E, one, Rest(x), cwd)
    BY <1>4, <2>5, <2>7, WayStays DEF Rest
  <2>14. <<c>> \o w \in Seq(Directory) /\ Way(<<c>> \o w, E \cup {c}, more, <<names>> \o Rest(x), c)
    BY <1>4, <2>2, <2>9, <2>12, <2>13, WayDown
  <2>15. PICK v \in Seq(Directory) : v = <<c>> \o w
    BY <2>14
  <2>16. PICK D \in SUBSET Directory : D = E \cup {c}
    OBVIOUS
  <2>17. Search(D, more, Loaded') /\ Way(v, D, more, scans', cwd')
    BY <1>5, <2>1, <2>10, <2>12, <2>14, <2>15, <2>16
  <2>18. Scanning'
    BY <2>1, <2>17, ScanningNext
  <2>19. AllScanned'
    BY <1>3, <2>1 DEF AllScanned
  <2> QED BY <2>1, <2>18, <2>19
<1>13. CASE EndSubfolder
  <2>1. /\ step = "scan" /\ scans[1] = {} /\ Len(scans) > 1 /\ scans' = Tail(scans)
        /\ UNCHANGED <<tree, step, folder, handlers>>
    BY <1>13 DEF EndSubfolder
  <2>2. PICK E \in SUBSET Directory : \E left \in [Directory -> SUBSET Name] :
          \E w \in Seq(Directory) : Search(E, left, Loaded) /\ Way(w, E, left, scans, cwd)
    BY <1>3, <2>1 DEF Scanning
  <2>3. PICK left \in [Directory -> SUBSET Name] :
          \E w \in Seq(Directory) : Search(E, left, Loaded) /\ Way(w, E, left, scans, cwd)
    BY <2>2
  <2>4. PICK w \in Seq(Directory) : Search(E, left, Loaded) /\ Way(w, E, left, scans, cwd)
    BY <2>3
  <2>5. cwd' = tree.up[cwd]
    <3>1. tree.up[cwd] \in Directory
      BY <1>1, <1>4, PluginScanAssumption DEF TypeOK
    <3> QED BY <1>4, <1>13, <3>1 DEF EndSubfolder, Ascend, Chdir
  <2>6. Tail(w) \in Seq(Directory) /\ Way(Tail(w), E, left, Tail(scans), tree.up[cwd])
    BY <1>4, <2>1, <2>4, WayUp
  <2>7. PICK v \in Seq(Directory) : v = Tail(w)
    BY <2>6
  <2>8. Search(E, left, Loaded') /\ Way(v, E, left, scans', cwd')
    BY <1>5, <2>1, <2>4, <2>5, <2>6, <2>7
  <2>9. Scanning'
    BY <2>1, <2>8, ScanningNext
  <2>10. AllScanned'
    BY <1>3, <2>1 DEF AllScanned
  <2> QED BY <1>5, <2>1, <2>9, <2>10
<1>14. CASE EndFolder
  <2>1. /\ step = "scan" /\ scans = <<{}>> /\ step' = "enter" /\ folder' = folder + 1
        /\ UNCHANGED <<tree, handlers>>
    BY <1>14 DEF EndFolder
  <2>2. PICK E \in SUBSET Directory : \E left \in [Directory -> SUBSET Name] :
          \E w \in Seq(Directory) : Search(E, left, Loaded) /\ Way(w, E, left, scans, cwd)
    BY <1>3, <2>1 DEF Scanning
  <2>3. PICK left \in [Directory -> SUBSET Name] :
          \E w \in Seq(Directory) : Search(E, left, Loaded) /\ Way(w, E, left, scans, cwd)
    BY <2>2
  <2>4. PICK w \in Seq(Directory) : Search(E, left, Loaded) /\ Way(w, E, left, scans, cwd)
    BY <2>3
  <2>5. \A d \in E : left[d] = {}
    <3>1. Len(scans) = 1 /\ scans[1] = {}
      BY <2>1
    <3>2. Len(w) = 1 /\ left[w[1]] = {}
      BY <2>4, <3>1 DEF Way
    <3>3. \A i \in 1 .. Len(w) : i = 1
      BY <3>2
    <3> QED BY <2>4, <3>2, <3>3 DEF Way
  <2>6. folder \in 1 .. Len(Folders)
    BY <1>4, <2>1 DEF ScanInv, InSomeFolder
  <2>7. InFolder(folder) \cap Plugin \subseteq Loaded
    BY <1>1, <2>4, <2>5, <2>6, SearchEnds
  <2>8. FoldersLoaded'
    <3> SUFFICES ASSUME NEW i \in 1 .. Len(Folders), i < folder + 1
                 PROVE  InFolder(i) \cap Plugin \subseteq Loaded
      BY <1>2, <1>5, <2>1 DEF FoldersLoaded
    <3>1. i < folder \/ i = folder
      BY <2>6
    <3> QED BY <1>3, <2>7, <3>1 DEF FoldersLoaded
  <2>9. OnlyScanned'
    <3> SUFFICES ASSUME NEW p \in Loaded
                 PROVE  \E i \in 1 .. Len(Folders) :
                          i <= folder + 1 /\ i < folder + 1 /\ p \in InFolder(i)
      BY <1>2, <1>5, <2>1 DEF OnlyScanned
    <3>1. PICK i \in 1 .. Len(Folders) : i <= folder /\ p \in InFolder(i)
      BY <1>3 DEF OnlyScanned
    <3>2. i <= folder + 1 /\ i < folder + 1
      BY <2>6, <3>1
    <3> QED BY <3>1, <3>2
  <2>10. AllScanned'
    BY <2>1 DEF AllScanned
  <2> QED BY <1>5, <2>1, <2>8, <2>9, <2>10
<1>15. CASE UNCHANGED vars
  <2>1. UNCHANGED <<tree, step, folder, cwd, scans, handlers>>
    BY <1>15 DEF vars
  <2>2. ASSUME step = "scan" PROVE Scanning'
    <3>1. PICK E \in SUBSET Directory : \E left \in [Directory -> SUBSET Name] :
            \E w \in Seq(Directory) : Search(E, left, Loaded) /\ Way(w, E, left, scans, cwd)
      BY <1>3, <2>2 DEF Scanning
    <3>2. PICK left \in [Directory -> SUBSET Name] :
            \E w \in Seq(Directory) : Search(E, left, Loaded) /\ Way(w, E, left, scans, cwd)
      BY <3>1
    <3>3. PICK w \in Seq(Directory) : Search(E, left, Loaded) /\ Way(w, E, left, scans, cwd)
      BY <3>2
    <3>4. Search(E, left, Loaded') /\ Way(w, E, left, scans', cwd')
      BY <1>5, <2>1, <3>3
    <3> QED BY <2>1, <3>4, ScanningNext
  <2>3. AllScanned'
    BY <1>3, <2>1 DEF AllScanned
  <2> QED BY <1>5, <2>1, <2>2, <2>3
<1>16. CASE Done
  BY <1>15, <1>16 DEF Done
<1> QED BY <1>5, <1>6, <1>7, <1>8, <1>10, <1>11, <1>12, <1>13, <1>14, <1>15, <1>16 DEF Next

(* A plain installation gets one handler for each plugin in its folders,   *)
(* at any depth, in whatever order the entries come, and none for another. *)
THEOREM LoadsEveryPlugin == Spec => []LoadsAllOnce
<1>1. Init => Progress
  BY DEF Init, Progress, LoadedOnce, FoldersLoaded, OnlyScanned, AllScanned, Loaded
<1>2. ScanInv /\ Progress => LoadsAllOnce
  <2> SUFFICES ASSUME ScanInv, Progress, step = "done", Plain, NEW p \in Plugin
               PROVE  Times(p) = IF \E i \in 1 .. Len(Folders) : p \in InFolder(i) THEN 1 ELSE 0
    BY DEF LoadsAllOnce
  <2> DEFINE at == {j \in DOMAIN handlers : handlers[j] = p}
  <2>1. LoadedOnce /\ FoldersLoaded /\ OnlyScanned /\ folder > Len(Folders)
    BY DEF Progress, AllScanned
  <2>2. ASSUME NEW i \in 1 .. Len(Folders), p \in InFolder(i) PROVE Cardinality(at) = 1
    <3>1. i < folder
      <4>1. folder \in Nat /\ Len(Folders) \in Nat
        BY PluginScanAssumption DEF ScanInv, TypeOK
      <4> QED BY <2>1, <4>1
    <3>2. p \in Loaded
      BY <2>1, <2>2, <3>1 DEF FoldersLoaded
    <3>3. PICK j \in DOMAIN handlers : handlers[j] = p
      BY <3>2 DEF Loaded
    <3>4. at = {j}
      BY <2>1, <3>3 DEF LoadedOnce
    <3> QED BY <3>4, FS_Singleton
  <2>3. ASSUME ~ \E i \in 1 .. Len(Folders) : p \in InFolder(i) PROVE Cardinality(at) = 0
    <3>1. at = {}
      BY <2>1, <2>3 DEF OnlyScanned, Loaded
    <3> QED BY <3>1, FS_EmptySet
  <2> QED BY <2>2, <2>3 DEF Times
<1> QED BY <1>1, <1>2, ProgressNext, ScanInvariant, PTL DEF Spec
=============================================================================
