------------------------------ MODULE ItemPaths ------------------------------
(***************************************************************************)
(* How the wide path of an item becomes the names of nodes: the indexing   *)
(* loop copies its characters into chars, Node::insert cuts it at the      *)
(* slashes, and Node::fullname puts it together again.  Characters are     *)
(* numbers, and strings sequences of them.                                 *)
(***************************************************************************)
EXTENDS Integers, SequencesExt

CONSTANTS
  BYTE,   \* 256
  SLASH   \* '/'

ASSUME ItemPathsAssumption == BYTE \in Nat \ {0} /\ SLASH \in 1 .. BYTE - 1

(* Mutant of Narrow: only seven bits are kept.                             *)
NarrowAscii(wpath) == [i \in 1 .. Len(wpath) |-> wpath[i] % (BYTE \div 2)]

(* std::copy from a wstring to a string keeps the low byte.                *)
Narrow(wpath) == [i \in 1 .. Len(wpath) |-> wpath[i] % BYTE]

(* What c_str() shows of a string that may hold zeros.                     *)
CString(path) ==
  LET zeros == {i \in 1 .. Len(path) : path[i] = 0}
  IN  IF zeros = {} THEN path ELSE SubSeq(path, 1, Min(zeros) - 1)

(* The names before the n-th character, each ended by a slash, and the     *)
(* name begun there.                                                       *)
Cut(path) ==
  LET at[n \in 0 .. Len(path)] ==
        IF n = 0 THEN [names |-> <<>>, name |-> <<>>]
        ELSE LET r == at[n - 1] IN
             IF path[n] = SLASH THEN [names |-> Append(r.names, r.name), name |-> <<>>]
             ELSE [names |-> r.names, name |-> Append(r.name, path[n])]
  IN  at

(* Mutant of Components: empty names are passed over.                      *)
ComponentsNotEmpty(path) ==
  LET end == Cut(path)[Len(path)]
  IN  SelectSeq(Append(end.names, end.name), LAMBDA name : name # <<>>)

(* The names insert meets one activation after the other: what is before   *)
(* each slash, and what is after the last, empty or not.                   *)
Components(path) ==
  LET end == Cut(path)[Len(path)] IN Append(end.names, end.name)

(* fullname() of the nodes these names lead to, one after the other.       *)
FullNames(names) ==
  LET full[n \in 0 .. Len(names)] ==
        IF n = 0 THEN <<>>
        ELSE IF n = 1 THEN names[1]
        ELSE full[n - 1] \o <<SLASH>> \o names[n]
  IN  full

Spell(names) == FullNames(names)[Len(names)]

(* Does every character of the path fit in a char?                         *)
Plain(wpath) == \A i \in 1 .. Len(wpath) : wpath[i] \in 1 .. BYTE - 1
=============================================================================
