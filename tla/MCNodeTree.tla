----------------------------- MODULE MCNodeTree ------------------------------
(* Instances of NodeTree: archives of up to MaxItems of the listed items.   *)
EXTENDS NodeTree

CONSTANTS tU, MaxItems, Paths, Kinds

Is(vt, val) == [vt |-> vt, val |-> val]
Absent == Is("EMPTY", 0)

Item1(path, dir, size, A, C, M) ==
  [path |-> path, dir |-> dir, size |-> size, A |-> A, C |-> C, M |-> M]

(* The items at a path: a directory, a file with all of its properties, one *)
(* before 1970, and a file of unknown size with only a modification time,   *)
(* for which the handler gives no directory flag.                           *)
KindsAt(path) ==
  <<Item1(path, Is("BOOL", 1), Absent, Is("FILETIME", 23), Is("FILETIME", 41), Is("FILETIME", 50)),
   Item1(path, Is("BOOL", 0), Is("UI4", 9), Is("FILETIME", 5), Is("FILETIME", 64), Is("FILETIME", 24)),
   Item1(path, Absent, Is("error", 0), Is("UI8", 30), Is("EMPTY", 0), Is("FILETIME", 99))>>

ItemsAt(path) == {KindsAt(path)[k] : k \in Kinds}

BoundedArchives ==
  UNION {[1 .. k -> UNION {ItemsAt(p) : p \in Paths}] : k \in 0 .. MaxItems}

(* A name with its high bit set, one that takes all of pouet and a dot.     *)
bin == <<9>>
lib == <<1, 2, 3>>
dot == <<DOT>>

Alias == <<13>>

Join(names) == Spell(names)

Crossing == {bin, Join(<<bin, bin>>), Join(<<bin, lib>>), Join(<<lib, bin>>)}
FewNames == {bin, lib, dot, Alias}

Odd == {bin, Join(<<bin, lib>>), Join(<<bin, lib, bin>>), Join(<<dot, bin>>), NULL}

(* Wide characters whose low byte is that of bin, a slash or zero, and      *)
(* empty names in the middle and at the end.                                *)
Wide == {<<9 + BYTE>>, <<9, SLASH + BYTE, 9>>, <<9, BYTE, 9>>, <<9, SLASH, SLASH, 9>>, <<9, SLASH>>}
AllNames == FewNames \cup {<<>>}

OddArchives ==
  UNION {[1 .. k -> UNION {ItemsAt(p) : p \in Paths} \cup {KindsAt(p)[2] : p \in Wide}] :
           k \in 0 .. MaxItems}
=============================================================================
