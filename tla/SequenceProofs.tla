--------------------------- MODULE SequenceProofs ----------------------------
(***************************************************************************)
(* Lemmas the other proofs share: induction and recursion along a finite   *)
(* sequence, in the form of sets and functions, and the ancestors of a     *)
(* path, the sequence of names NodeTree's insert and find follow.          *)
(***************************************************************************)
EXTENDS Integers, Sequences, SequenceTheorems, WellFoundedInduction, TLAPS

(* A set of natural numbers has a least element.                           *)
LEMMA Least ==
  ASSUME NEW S \in SUBSET Nat, S # {}
  PROVE  \E n \in S : \A m \in S : n <= m
<1> DEFINE R == {ss \in Nat \X Nat : ss[1] < ss[2]}
<1>1. IsWellFoundedOn(R, Nat)
  BY NatLessThanWellFounded DEF OpToRel
<1>2. ASSUME NEW m \in Nat, NEW n \in Nat, m < n PROVE <<m, n>> \in R
  BY <1>2
<1> HIDE DEF R
<1>3. PICK n \in S : \A m \in S : ~ (<<m, n>> \in R)
  BY <1>1, WFMin
<1>4. ASSUME NEW m \in S, ~ (n <= m) PROVE FALSE
  <2>1. m \in Nat /\ n \in Nat /\ m < n
    BY <1>4
  <2> QED BY <1>2, <1>3, <2>1
<1> QED BY <1>4

(* What holds at 0 and is handed on from each number to the next holds up  *)
(* to n.                                                                   *)
LEMMA Induction ==
  ASSUME NEW S, NEW n \in Nat, 0 \in S, \A i \in 0 .. n - 1 : i \in S => i + 1 \in S
  PROVE  \A i \in 0 .. n : i \in S
<1> SUFFICES ASSUME NEW z \in 0 .. n, z \notin S PROVE FALSE
  OBVIOUS
<1> DEFINE T == {i \in 0 .. n : i \notin S}
<1>1. PICK m \in T : \A i \in T : m <= i
  <2>1. T \in SUBSET Nat /\ T # {}
    OBVIOUS
  <2> HIDE DEF T
  <2> QED BY <2>1, Least
<1>2. m # 0 /\ m - 1 \in 0 .. n - 1
  BY <1>1
<1>3. m - 1 \in S
  BY <1>1, <1>2
<1> QED BY <1>1, <1>2, <1>3

(* g goes n steps from b, the i-th by d[i].                                *)
Goes(g, b, n, d) == g[0] = b /\ \A i \in 1 .. n : g[i] = d[i][g[i - 1]]

(* A finite recursion has a solution: one function for every number of     *)
(* steps from b with d.                                                    *)
LEMMA Iteration ==
  ASSUME NEW T, NEW b \in T, NEW n \in Nat, NEW d \in [1 .. n -> [T -> T]]
  PROVE  \E g \in [0 .. n -> T] : Goes(g, b, n, d)
<1> USE DEF Goes
<1> DEFINE S == {m \in 0 .. n : \E g \in [0 .. m -> T] : Goes(g, b, m, d)}
<1>1. 0 \in S
  <2> DEFINE g == [i \in 0 .. 0 |-> b]
  <2>1. g \in [0 .. 0 -> T] /\ Goes(g, b, 0, d)
    OBVIOUS
  <2> HIDE DEF g
  <2> QED BY <2>1
<1>2. ASSUME NEW m \in 0 .. n - 1, m \in S
      PROVE  m + 1 \in S
  <2>1. PICK g \in [0 .. m -> T] : Goes(g, b, m, d)
    BY <1>2
  <2> DEFINE h == [i \in 0 .. m + 1 |-> IF i <= m THEN g[i] ELSE d[m + 1][g[m]]]
  <2>2. g[m] \in T /\ d[m + 1][g[m]] \in T
    BY <2>1
  <2>3. h \in [0 .. m + 1 -> T]
    BY <2>1, <2>2
  <2>4. h[0] = b /\ \A i \in 0 .. m : h[i] = g[i]
    BY <2>1
  <2>5. ASSUME NEW i \in 1 .. m + 1 PROVE h[i] = d[i][h[i - 1]]
    <3>1. CASE i \in 1 .. m
      BY <2>1, <2>4, <3>1
    <3>2. CASE i = m + 1
      <4>1. h[i] = d[m + 1][g[m]] /\ i - 1 = m /\ h[m] = g[m]
        BY <2>4, <3>2
      <4> QED BY <3>2, <4>1
    <3> QED BY <3>1, <3>2
  <2> HIDE DEF h
  <2>6. m + 1 \in 0 .. n /\ Goes(h, b, m + 1, d)
    BY <2>4, <2>5
  <2> QED BY <2>3, <2>6
<1>3. n \in S
  <2> HIDE DEF S
  <2>1. \A m \in 0 .. n - 1 : m \in S => m + 1 \in S
    BY <1>2
  <2>2. \A m \in 0 .. n : m \in S
    BY <1>1, <2>1, Induction
  <2> QED BY <2>2
<1> QED BY <1>3

-----------------------------------------------------------------------------
(* An element more at the end of the second is one at the end of both.     *)
LEMMA ConcatAppend ==
  ASSUME NEW S, NEW s \in Seq(S), NEW t \in Seq(S), NEW x \in S
  PROVE  s \o Append(t, x) = Append(s \o t, x)
<1>1. <<x>> \in Seq(S) /\ s \o t \in Seq(S)
  BY ConcatProperties
<1>2. Append(t, x) = t \o <<x>> /\ Append(s \o t, x) = (s \o t) \o <<x>>
  BY <1>1, AppendIsConcat
<1>3. (s \o t) \o <<x>> = s \o (t \o <<x>>)
  BY <1>1, ConcatAssociative
<1> QED BY <1>2, <1>3

(* The first k components of p.                                            *)
Ancestor(p, k) == SubSeq(p, 1, k)

(* What the components on the way are.                                     *)
LEMMA AncestorIs ==
  ASSUME NEW S, NEW p \in Seq(S), NEW k \in 0 .. Len(p)
  PROVE  /\ Ancestor(p, k) \in Seq(S)
         /\ Len(Ancestor(p, k)) = k
         /\ \A i \in 1 .. k : Ancestor(p, k)[i] = p[i]
<1>1. Len(p) \in Nat /\ \A i \in 1 .. Len(p) : p[i] \in S
  BY LenProperties, ElementOfSeq
<1>2. k \in Int /\ 1 \in Int /\ \A i \in 1 .. k : p[i] \in S
  BY <1>1
<1>3. /\ Ancestor(p, k) \in Seq(S)
      /\ Len(Ancestor(p, k)) = IF 1 <= k THEN k - 1 + 1 ELSE 0
      /\ \A i \in 1 .. k - 1 + 1 : Ancestor(p, k)[i] = p[1 + i - 1]
  BY <1>2, SubSeqProperties DEF Ancestor
<1>4. Len(Ancestor(p, k)) = k
  BY <1>1, <1>3
<1>5. ASSUME NEW i \in 1 .. k PROVE Ancestor(p, k)[i] = p[i]
  <2>1. i \in 1 .. k - 1 + 1 /\ 1 + i - 1 = i
    BY <1>2
  <2> QED BY <1>3, <2>1
<1> QED BY <1>3, <1>4, <1>5

(* Nothing and everything are ancestors of a path.                         *)
LEMMA AncestorEnds ==
  ASSUME NEW S, NEW p \in Seq(S)
  PROVE  Ancestor(p, 0) = <<>> /\ Ancestor(p, Len(p)) = p
<1>1. Ancestor(p, 0) = <<>>
  BY SubSeqEmpty DEF Ancestor
<1>2. Ancestor(p, Len(p)) = p
  BY SubSeqFull DEF Ancestor
<1> QED BY <1>1, <1>2

(* One component more.                                                     *)
LEMMA AncestorStep ==
  ASSUME NEW S, NEW p \in Seq(S), NEW k \in 0 .. Len(p) - 1
  PROVE  /\ p[k + 1] \in S
         /\ Ancestor(p, k + 1) = Append(Ancestor(p, k), p[k + 1])
<1>1. Len(p) \in Nat /\ k + 1 \in 1 .. Len(p) /\ k \in 0 .. Len(p) /\ k + 1 \in 0 .. Len(p)
  BY LenProperties
<1>2. p[k + 1] \in S
  BY <1>1, ElementOfSeq
<1>3. /\ Ancestor(p, k) \in Seq(S) /\ Len(Ancestor(p, k)) = k
      /\ \A i \in 1 .. k : Ancestor(p, k)[i] = p[i]
  BY <1>1, AncestorIs
<1>4. /\ Ancestor(p, k + 1) \in Seq(S) /\ Len(Ancestor(p, k + 1)) = k + 1
      /\ \A i \in 1 .. k + 1 : Ancestor(p, k + 1)[i] = p[i]
  BY <1>1, AncestorIs
<1> DEFINE a == Append(Ancestor(p, k), p[k + 1])
<1>5. /\ a \in Seq(S) /\ Len(a) = k + 1
      /\ \A i \in 1 .. k : a[i] = Ancestor(p, k)[i]
      /\ a[k + 1] = p[k + 1]
  BY <1>2, <1>3, AppendProperties
<1>6. \A i \in 1 .. k + 1 : Ancestor(p, k + 1)[i] = a[i]
  BY <1>1, <1>3, <1>4, <1>5
<1> HIDE DEF a
<1>7. Ancestor(p, k + 1) = a
  BY <1>4, <1>5, <1>6, SeqEqual
<1> QED BY <1>2, <1>7 DEF a

(* An ancestor of an ancestor is one of the path.                          *)
LEMMA AncestorOfAncestor ==
  ASSUME NEW S, NEW p \in Seq(S), NEW k \in 0 .. Len(p), NEW j \in 0 .. k
  PROVE  Ancestor(Ancestor(p, k), j) = Ancestor(p, j)
<1>1. Len(p) \in Nat /\ j \in 0 .. Len(p)
  BY LenProperties
<1>2. /\ Ancestor(p, k) \in Seq(S) /\ Len(Ancestor(p, k)) = k
      /\ \A i \in 1 .. k : Ancestor(p, k)[i] = p[i]
  BY AncestorIs
<1>3. /\ Ancestor(p, j) \in Seq(S) /\ Len(Ancestor(p, j)) = j
      /\ \A i \in 1 .. j : Ancestor(p, j)[i] = p[i]
  BY <1>1, AncestorIs
<1>4. j \in 0 .. Len(Ancestor(p, k))
  BY <1>2
<1>5. /\ Ancestor(Ancestor(p, k), j) \in Seq(S) /\ Len(Ancestor(Ancestor(p, k), j)) = j
      /\ \A i \in 1 .. j : Ancestor(Ancestor(p, k), j)[i] = Ancestor(p, k)[i]
  BY <1>2, <1>4, AncestorIs
<1>6. \A i \in 1 .. j : Ancestor(Ancestor(p, k), j)[i] = Ancestor(p, j)[i]
  BY <1>1, <1>2, <1>3, <1>5
<1> QED BY <1>3, <1>5, <1>6, SeqEqual

(* The ancestors of a path with a component more.                          *)
LEMMA AncestorOfAppend ==
  ASSUME NEW S, NEW p \in Seq(S), NEW x \in S, NEW k \in 0 .. Len(p)
  PROVE  Ancestor(Append(p, x), k) = Ancestor(p, k)
<1> DEFINE a == Append(p, x)
<1>1. /\ a \in Seq(S) /\ Len(a) = Len(p) + 1 /\ Len(p) \in Nat
      /\ \A i \in 1 .. Len(p) : a[i] = p[i]
  BY AppendProperties, LenProperties
<1> HIDE DEF a
<1>2. k \in 0 .. Len(a)
  BY <1>1
<1>3. /\ Ancestor(a, k) \in Seq(S) /\ Len(Ancestor(a, k)) = k
      /\ \A i \in 1 .. k : Ancestor(a, k)[i] = a[i]
  BY <1>1, <1>2, AncestorIs
<1>4. /\ Ancestor(p, k) \in Seq(S) /\ Len(Ancestor(p, k)) = k
      /\ \A i \in 1 .. k : Ancestor(p, k)[i] = p[i]
  BY AncestorIs
<1>5. \A i \in 1 .. k : Ancestor(a, k)[i] = Ancestor(p, k)[i]
  BY <1>1, <1>3, <1>4, SMTT(30)
<1>6. Ancestor(a, k) = Ancestor(p, k)
  BY <1>3, <1>4, <1>5, SeqEqual
<1> QED BY <1>6 DEF a

(* Two paths are the same when the last component and the rest are.        *)
LEMMA AppendSame ==
  ASSUME NEW S, NEW p \in Seq(S), NEW q \in Seq(S), NEW x \in S, NEW y \in S,
         Append(p, x) = Append(q, y)
  PROVE  p = q /\ x = y
BY AppendInjective
=============================================================================
