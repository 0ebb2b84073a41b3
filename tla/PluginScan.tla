----------------------------- MODULE PluginScan -----------------------------
(***************************************************************************)
(* LoadDllFromFolder and myselect: how C7ZipLibrary::Initialize finds its  *)
(* plugins.  LoadDllFromFolder changes to the folder and has scandir call  *)
(* myselect for each entry of "."; myselect loads what is not a directory  *)
(* and, for a directory, changes into it, scans "." again and changes to   *)
(* "..".  What a name means thus depends on a working directory that every *)
(* activation shares, while the entries of a scan are those of the folder  *)
(* that was current when it began.                                         *)
(*                                                                         *)
(* A place is a directory or a file; a name may be a symbolic link, so a   *)
(* directory's ".." need not be where it was entered from.  scandir keeps  *)
(* "." open while it calls myselect: MaxOpen is what the process may have  *)
(* open.  A chdir that fails is not noticed.                               *)
(***************************************************************************)
EXTENDS Naturals, Sequences, FiniteSets

CONSTANTS
  Directory,  \* places that are directories
  File,       \* places that are something else
  Plugin,     \* the files an initialized handler can be made of
  Name,       \* names of entries other than "." and ".."
  Trees,      \* the file systems considered
  Home,       \* the working directory of the process
  Folders,    \* <<Codecs, Formats>>, the folders next to 7z.so
  MaxOpen,    \* directories the process can have open at once
  NULL

Place == Directory \cup File \cup {NULL}

ASSUME PluginScanAssumption ==
  /\ Home \in Directory
  /\ IsFiniteSet(Directory)
  /\ Directory \cap File = {}
  /\ Plugin \subseteq File
  /\ Folders \in Seq(Directory)
  /\ MaxOpen \in Nat
  /\ NULL \notin Directory \cup File
  /\ \A t \in Trees :
       /\ t.entry \in [Directory -> [Name -> Place]]
       /\ t.up \in [Directory -> Directory]        \* where ".." leads
       /\ t.readable \subseteq Directory           \* opendir is permitted
       /\ t.searchable \subseteq Directory         \* chdir is permitted
       /\ t.relative \in BOOLEAN                   \* is 7z.so's path relative?

VARIABLES
  tree,      \* the file system
  step,      \* "enter", "scan" or "done"
  folder,    \* which of Folders LoadDllFromFolder is called with
  cwd,       \* the working directory
  scans,     \* the scandirs that run, innermost first: entries still to come
  handlers   \* the objects of the handlers pushed so far

vars == <<tree, step, folder, cwd, scans, handlers>>

Init ==
  /\ tree \in Trees
  /\ step = "enter"
  /\ folder = 1
  /\ cwd = Home
  /\ scans = <<>>
  /\ handlers = <<>>

-----------------------------------------------------------------------------
Entries(d) == {x \in Name : tree.entry[d][x] # NULL}

CanRead(d) == d \in tree.readable /\ Len(scans) < MaxOpen

(* scandir(".") with working directory d: no entries if it does not open.  *)
Scandir(d) == scans' = <<IF CanRead(d) THEN Entries(d) ELSE {}>> \o scans

(* chdir(d), whose failure goes unnoticed.                                 *)
Chdir(d) == cwd' = IF d \in tree.searchable THEN d ELSE cwd

(* Mutant of ChdirBack: the second chdir of LoadDllFromFolder is missing.  *)
ChdirBackNot == UNCHANGED cwd

(* chdir(current_dir): the path getcwd returned at the start.              *)
ChdirBack == cwd' = Home

(* LoadDllFromFolder begins: a relative path is looked up where we are.    *)
EnterFolder ==
  /\ step = "enter"
  /\ folder <= Len(Folders)
  /\ Folders[folder] \in tree.searchable
  /\ tree.relative => cwd = Home
  /\ Chdir(Folders[folder])
  /\ Scandir(Folders[folder])
  /\ step' = "scan"
  /\ UNCHANGED <<tree, folder, handlers>>

(* Its chdir fails: nothing is scanned.                                    *)
SkipFolder ==
  /\ step = "enter"
  /\ folder <= Len(Folders)
  /\ Folders[folder] \notin tree.searchable \/ (tree.relative /\ cwd # Home)
  /\ ChdirBack
  /\ folder' = folder + 1
  /\ UNCHANGED <<tree, step, scans, handlers>>

Initialized ==
  /\ step = "enter"
  /\ folder > Len(Folders)
  /\ step' = "done"
  /\ UNCHANGED <<tree, folder, cwd, scans, handlers>>

(* scandir passes an entry to myselect; the name is looked up in cwd.      *)
Select(x) ==
  /\ step = "scan"
  /\ x \in scans[1]

Rest(x) == [scans EXCEPT ![1] = @ \ {x}]

There(x) == tree.entry[cwd][x]

(* Mutant of Kept: what does not initialize is pushed too.                 *)
KeptAlways(p) == TRUE

(* The handler made for a loaded object is initialized.                    *)
Kept(p) == p \in Plugin

(* opendir says ENOTDIR: the file is loaded, and kept if it is a plugin.   *)
LoadFile(x) ==
  /\ Select(x)
  /\ There(x) \in File
  /\ Len(scans) < MaxOpen
  /\ handlers' = IF Kept(There(x)) THEN Append(handlers, There(x)) ELSE handlers
  /\ scans' = Rest(x)
  /\ UNCHANGED <<tree, step, folder, cwd>>

(* opendir fails otherwise: not there, not permitted, too many are open.   *)
Ignore(x) ==
  /\ Select(x)
  /\ \/ There(x) = NULL
     \/ There(x) \in Directory /\ ~CanRead(There(x))
     \/ Len(scans) >= MaxOpen
  /\ scans' = Rest(x)
  /\ UNCHANGED <<tree, step, folder, cwd, handlers>>

(* myselect enters a directory and scans "." again, entered or not.        *)
Descend(x) ==
  LET d == There(x)
      here == IF d \in tree.searchable THEN d ELSE cwd
  IN  /\ Select(x)
      /\ d \in Directory
      /\ CanRead(d)
      /\ Chdir(d)
      /\ scans' = <<IF CanRead(here) THEN Entries(here) ELSE {}>> \o Rest(x)
      /\ UNCHANGED <<tree, step, folder, handlers>>

(* Mutant of Ascend: chdir("..") is missing.                               *)
AscendNot == UNCHANGED cwd

(* Mutant of Ascend: chdir("../..").                                       *)
AscendTooFar == Chdir(tree.up[tree.up[cwd]])

(* chdir("..").                                                            *)
Ascend == Chdir(tree.up[cwd])

EndSubfolder ==
  /\ step = "scan"
  /\ scans[1] = {}
  /\ Len(scans) > 1
  /\ Ascend
  /\ scans' = Tail(scans)
  /\ UNCHANGED <<tree, step, folder, handlers>>

EndFolder ==
  /\ step = "scan"
  /\ scans = <<{}>>
  /\ scans' = <<>>
  /\ ChdirBack
  /\ folder' = folder + 1
  /\ step' = "enter"
  /\ UNCHANGED <<tree, handlers>>

Done == step = "done" /\ UNCHANGED vars

Next ==
  \/ EnterFolder \/ SkipFolder \/ Initialized
  \/ \E x \in Name : LoadFile(x) \/ Ignore(x) \/ Descend(x)
  \/ EndSubfolder \/ EndFolder
  \/ Done

Spec == Init /\ [][Next]_vars

-----------------------------------------------------------------------------
(* Properties *)

(* Every variable keeps its type.                                          *)
TypeOK ==
  /\ tree \in Trees
  /\ step \in {"enter", "scan", "done"}
  /\ folder \in 1 .. Len(Folders) + 1
  /\ cwd \in Directory
  /\ scans \in Seq(SUBSET Name)
  /\ (step = "scan") = (scans # <<>>)
  /\ handlers \in Seq(Plugin)

(* However the folders are built, and although a chdir inside may fail or  *)
(* climb too far, the process is back where it was after each folder.      *)
CwdRestored == step \in {"enter", "done"} => cwd = Home

(* Whoever is in a directory of S stays in S by following names.           *)
Closed(S) == \A d \in S \cap Directory : \A x \in Entries(d) : tree.entry[d][x] \in S

(* All that names lead to from a folder: what every closed set it is in    *)
(* holds.                                                                  *)
InFolder(i) ==
  {q \in Directory \cup File :
     \A S \in SUBSET (Directory \cup File) : Closed(S) /\ Folders[i] \in S => q \in S}

(* Nothing else in the folder has the place that x names in d.             *)
OnlyName(i, d, x) ==
  \A e \in InFolder(i) \cap Directory : \A y \in Entries(e) :
    tree.entry[e][y] = tree.entry[d][x] => e = d /\ y = x

(* A folder as an installation makes it: no links, so that ".." leads      *)
(* back, no folder or plugin has two names and the folder itself has none  *)
(* inside it, everything permitted, and few enough levels.                 *)
Plain ==
  /\ tree.readable = Directory /\ tree.searchable = Directory
  /\ Cardinality(Directory) < MaxOpen
  /\ \A i \in 1 .. Len(Folders) : \A d \in InFolder(i) \cap Directory : \A x \in Entries(d) :
       /\ tree.entry[d][x] \in Directory =>
            tree.up[tree.entry[d][x]] = d /\ tree.entry[d][x] # Folders[i]
       /\ tree.entry[d][x] \in Directory \cup Plugin => OnlyName(i, d, x)
  /\ \A i, j \in 1 .. Len(Folders) : i # j => InFolder(i) \cap InFolder(j) \cap Plugin = {}

Times(p) == Cardinality({j \in DOMAIN handlers : handlers[j] = p})

(* In a plain installation every plugin at any depth gets exactly one      *)
(* handler, in whatever order readdir lists the entries.                   *)
LoadsAllOnce ==
  step = "done" /\ Plain =>
    \A p \in Plugin :
      Times(p) = IF \E i \in 1 .. Len(Folders) : p \in InFolder(i) THEN 1 ELSE 0

(* Each directory is where ".." of those it names leads.                   *)
NoLinks ==
  \A d \in Directory : \A x \in Entries(d) :
    tree.entry[d][x] \in Directory => tree.up[tree.entry[d][x]] = d

(* As long as directories may be entered and ".." leads back, nothing is   *)
(* loaded but what names lead to from the folders, whatever else is        *)
(* unreadable: it is in every closed set the folders are in.               *)
LoadsOnlyThere ==
  tree.searchable = Directory /\ NoLinks =>
    \A S \in SUBSET (Directory \cup File) :
      Closed(S) /\ (\A i \in 1 .. Len(Folders) : Folders[i] \in S) =>
        \A j \in 1 .. Len(handlers) : handlers[j] \in S
=============================================================================
