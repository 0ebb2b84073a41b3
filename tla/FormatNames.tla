---------------------------- MODULE FormatNames ----------------------------
(***************************************************************************)
(* How a file name chooses archive formats: the extension Fuse7zInStream   *)
(* takes from the path, the list of extensions a format declares, and the  *)
(* comparison of the two.  A string is a sequence of characters.           *)
(***************************************************************************)
EXTENDS Integers, SequencesExt

CONSTANTS
  Upper  \* toupper, on the characters that occur

SPACE == " "

DOT == "."

ASSUME FormatNamesAssumption ==
  \A c \in DOMAIN Upper : Upper[c] = Upper[SPACE] => c = SPACE

Positions(s, c) == {i \in 1 .. Len(s) : s[i] = c}

(* Mutant of GetExt: the extension starts at the first dot.                *)
GetExtFirst(path) ==
  LET dots == Positions(path, DOT)
  IN  IF dots = {} THEN <<"7", "z">>
      ELSE SubSeq(path, (CHOOSE i \in dots : \A j \in dots : i <= j) + 1, Len(path))

(* What follows the last dot of the path; "7z" when there is none.         *)
GetExt(path) ==
  LET dots == Positions(path, DOT)
  IN  IF dots = {} THEN <<"7", "z">> ELSE SubSeq(path, Max(dots) + 1, Len(path))

(* The words before the n-th character and the one begun there: a space    *)
(* ends a word unless it is empty.                                         *)
Split(src) ==
  LET at[n \in 0 .. Len(src)] ==
        IF n = 0 THEN [destStrings |-> <<>>, s |-> <<>>]
        ELSE LET r == at[n - 1] IN
             IF src[n] # SPACE THEN [destStrings |-> r.destStrings, s |-> Append(r.s, src[n])]
             ELSE IF r.s = <<>> THEN r
             ELSE [destStrings |-> Append(r.destStrings, r.s), s |-> <<>>]
  IN  at

(* Mutant of SplitString: the word the string ends with is lost.           *)
SplitStringUnfinished(src) == Split(src)[Len(src)].destStrings

(* The words of a string, the one it ends with too unless that is empty.   *)
SplitString(src) ==
  LET end == Split(src)[Len(src)]
  IN  IF end.s = <<>> THEN end.destStrings ELSE Append(end.destStrings, end.s)

(* Mutant of SameNoCase: wcscmp.                                           *)
SameCase(s1, s2) == s1 = s2

(* MyStringCompareNoCase answers 0.                                        *)
SameNoCase(s1, s2) ==
  Len(s1) = Len(s2) /\ \A i \in 1 .. Len(s1) : Upper[s1[i]] = Upper[s2[i]]

(* Does CreateInArchive's inner loop find ext among a format's extensions? *)
Lists(exts, ext) == \E w \in ToSet(SplitString(exts)) : SameNoCase(w, ext)

-----------------------------------------------------------------------------
(* What is meant by them, without going through the strings one by one     *)

(* ext is written in the list, in whatever case, between spaces or ends.   *)
Names(exts, ext) ==
  LET padded == <<SPACE>> \o exts \o <<SPACE>> IN
    /\ ext # <<>> /\ SPACE \notin ToSet(ext)
    /\ \E i \in 1 .. Len(padded) - Len(ext) - 1 :
         /\ padded[i] = SPACE /\ padded[i + Len(ext) + 1] = SPACE
         /\ \A j \in 1 .. Len(ext) : Upper[padded[i + j]] = Upper[ext[j]]

(* The extension of the file's name, which no directory on the way has, in *)
(* a set; a path without any dot counts as one of a 7z archive.            *)
Extensions(path) ==
  {SubSeq(path, i + 1, Len(path)) : i \in
     {i \in Positions(path, DOT) : \A j \in i + 1 .. Len(path) : path[j] \notin {DOT, "/"}}}
  \cup (IF Positions(path, DOT) = {} THEN {<<"7", "z">>} ELSE {})
=============================================================================
