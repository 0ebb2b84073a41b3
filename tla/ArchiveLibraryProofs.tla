------------------------ MODULE ArchiveLibraryProofs -------------------------
(***************************************************************************)
(* Proofs about ArchiveLibrary, for every set of installations and files.  *)
(***************************************************************************)
EXTENDS ArchiveLibrary, SequenceProofs, FiniteSetTheorems

-----------------------------------------------------------------------------
(* The words of a list of extensions                                       *)

Character == DOMAIN Upper

SplitState == [destStrings : Seq(Seq(Character)), s : Seq(Character)]

NoWord == [destStrings |-> <<>>, s |-> <<>>]

(* What one character does to the words found and the one begun.           *)
SplitStep(c, r) ==
  IF c # SPACE THEN [destStrings |-> r.destStrings, s |-> Append(r.s, c)]
  ELSE IF r.s = <<>> THEN r
  ELSE [destStrings |-> Append(r.destStrings, r.s), s |-> <<>>]

(* A step leaves a list of words.                                          *)
LEMMA SplitStepType ==
  ASSUME NEW c \in Character, NEW r \in SplitState
  PROVE  SplitStep(c, r) \in SplitState
<1>1. r.destStrings \in Seq(Seq(Character)) /\ r.s \in Seq(Character)
  BY DEF SplitState
<1>2. Append(r.s, c) \in Seq(Character) /\ Append(r.destStrings, r.s) \in Seq(Seq(Character))
  BY <1>1, AppendProperties
<1>3. <<>> \in Seq(Character)
  OBVIOUS
<1>4. r = [destStrings |-> r.destStrings, s |-> r.s]
  BY DEF SplitState
<1> QED BY <1>1, <1>2, <1>3, <1>4 DEF SplitStep, SplitState

(* The recursion of SplitString goes through the characters one by one.    *)
LEMMA SplitEquations ==
  ASSUME NEW src \in Seq(Character)
  PROVE  /\ Split(src) \in [0 .. Len(src) -> SplitState]
         /\ Split(src)[0] = NoWord
         /\ \A n \in 1 .. Len(src) : Split(src)[n] = SplitStep(src[n], Split(src)[n - 1])
<1> DEFINE d == [n \in 1 .. Len(src) |-> [r \in SplitState |-> SplitStep(src[n], r)]]
           Solves(at) == at = [n \in 0 .. Len(src) |->
                                IF n = 0 THEN NoWord ELSE SplitStep(src[n], at[n - 1])]
<1>1. Len(src) \in Nat /\ NoWord \in SplitState
  BY DEF NoWord, SplitState
<1>2. d \in [1 .. Len(src) -> [SplitState -> SplitState]]
  <2>1. ASSUME NEW n \in 1 .. Len(src), NEW r \in SplitState
        PROVE  SplitStep(src[n], r) \in SplitState
    BY ElementOfSeq, SplitStepType
  <2> QED BY <2>1
<1>3. PICK g \in [0 .. Len(src) -> SplitState] :
        Goes(g, NoWord, Len(src), d)
  <2> HIDE DEF d
  <2> QED BY <1>1, <1>2, Iteration
<1>4. \A n \in 1 .. Len(src) : g[n] = SplitStep(src[n], g[n - 1])
  <2> SUFFICES ASSUME NEW n \in 1 .. Len(src) PROVE g[n] = SplitStep(src[n], g[n - 1])
    OBVIOUS
  <2>1. g[n - 1] \in SplitState
    OBVIOUS
  <2> QED BY <1>3, <2>1 DEF Goes
<1> HIDE DEF d
<1>5. Solves(g)
  BY <1>3, <1>4 DEF Goes
<1>6. Split(src) = CHOOSE at : Solves(at)
  BY DEF Split, SplitStep, NoWord
<1> HIDE DEF Solves
<1>7. Solves(Split(src))
  BY <1>5, <1>6
<1> DEFINE f == Split(src)
<1> HIDE DEF f
<1>8. f = [n \in 0 .. Len(src) |-> IF n = 0 THEN NoWord ELSE SplitStep(src[n], f[n - 1])]
  BY <1>7 DEF Solves, f
<1>9. f[0] = NoWord /\ \A n \in 1 .. Len(src) : f[n] = SplitStep(src[n], f[n - 1])
  BY <1>1, <1>8
<1>10. \A n \in 0 .. Len(src) : f[n] \in SplitState
  <2> DEFINE S == {n \in 0 .. Len(src) : f[n] \in SplitState}
  <2>1. 0 \in S
    BY <1>1, <1>9
  <2>2. ASSUME NEW n \in 0 .. Len(src) - 1, n \in S PROVE n + 1 \in S
    <3>1. n + 1 \in 1 .. Len(src) /\ f[n] \in SplitState /\ n + 1 - 1 = n
      BY <1>1, <2>2
    <3>2. src[n + 1] \in Character
      BY <3>1, ElementOfSeq
    <3>3. f[n + 1] = SplitStep(src[n + 1], f[n])
      BY <1>9, <3>1
    <3> QED BY <3>1, <3>2, <3>3, SplitStepType
  <2> HIDE DEF S
  <2>3. \A n \in 0 .. Len(src) : n \in S
    BY <1>1, <2>1, <2>2, Induction
  <2> QED BY <2>3 DEF S
<1>11. f \in [0 .. Len(src) -> SplitState]
  BY <1>8, <1>10
<1> QED BY <1>9, <1>11 DEF f

(* A subsequence with a character more.                                    *)
LEMMA SubSeqLonger ==
  ASSUME NEW S, NEW s \in Seq(S), NEW b \in Nat, NEW n \in Nat, b <= n, n < Len(s)
  PROVE  Append(SubSeq(s, b + 1, n), s[n + 1]) = SubSeq(s, b + 1, n + 1)
<1>1. Len(s) \in Nat /\ \A q \in 1 .. Len(s) : s[q] \in S
  BY LenProperties, ElementOfSeq
<1>2. \A m \in {n, n + 1} :
        /\ SubSeq(s, b + 1, m) \in Seq(S)
        /\ Len(SubSeq(s, b + 1, m)) = m - b
        /\ \A q \in 1 .. m - b : SubSeq(s, b + 1, m)[q] = s[b + q]
  <2> SUFFICES ASSUME NEW m \in {n, n + 1}
      PROVE  /\ SubSeq(s, b + 1, m) \in Seq(S)
             /\ Len(SubSeq(s, b + 1, m)) = m - b
             /\ \A q \in 1 .. m - b : SubSeq(s, b + 1, m)[q] = s[b + q]
    OBVIOUS
  <2>1. b + 1 \in Int /\ m \in Int /\ \A q \in b + 1 .. m : s[q] \in S
    BY <1>1
  <2>2. /\ SubSeq(s, b + 1, m) \in Seq(S)
        /\ Len(SubSeq(s, b + 1, m)) = IF b + 1 <= m THEN m - (b + 1) + 1 ELSE 0
        /\ \A q \in 1 .. m - (b + 1) + 1 : SubSeq(s, b + 1, m)[q] = s[b + 1 + q - 1]
    BY <2>1, SubSeqProperties
  <2>3. m - (b + 1) + 1 = m - b /\ \A q \in 1 .. m - b : b + 1 + q - 1 = b + q
    OBVIOUS
  <2> QED BY <2>1, <2>2, <2>3
<1> DEFINE u == SubSeq(s, b + 1, n)
           v == SubSeq(s, b + 1, n + 1)
<1>3. /\ u \in Seq(S) /\ Len(u) = n - b /\ \A q \in 1 .. n - b : u[q] = s[b + q]
      /\ v \in Seq(S) /\ Len(v) = n + 1 - b /\ \A q \in 1 .. n + 1 - b : v[q] = s[b + q]
      /\ s[n + 1] \in S
  BY <1>1, <1>2
<1> HIDE DEF u, v
<1>4. /\ Append(u, s[n + 1]) \in Seq(S) /\ Len(Append(u, s[n + 1])) = n - b + 1
      /\ \A q \in 1 .. n - b : Append(u, s[n + 1])[q] = u[q]
      /\ Append(u, s[n + 1])[n - b + 1] = s[n + 1]
  BY <1>3, AppendProperties
<1>5. \A q \in 1 .. n - b + 1 : Append(u, s[n + 1])[q] = v[q]
  BY <1>3, <1>4
<1>6. Append(u, s[n + 1]) = v
  BY <1>3, <1>4, <1>5, SeqEqual
<1> QED BY <1>6 DEF u, v

(* A word could begin at i; none of i to j is a space; one of src begins   *)
(* at i and goes at least to j.                                            *)
Begins(src, i) == i = 1 \/ src[i - 1] = SPACE

Unbroken(src, i, j) == \A q \in i .. j : src[q] # SPACE

IsWord(src, i, j) == i <= j /\ Begins(src, i) /\ Unbroken(src, i, j)

(* What SplitString has after n characters: the words that have ended, and *)
(* the one that has not.                                                   *)
SplitAfter(src, n, r) ==
  /\ \E b \in 0 .. n :
       Begins(src, b + 1) /\ Unbroken(src, b + 1, n) /\ r.s = SubSeq(src, b + 1, n)
  /\ \A w : w \in ToSet(r.destStrings) <=>
       \E i, j \in 1 .. n :
         j < n /\ IsWord(src, i, j) /\ src[j + 1] = SPACE /\ w = SubSeq(src, i, j)

(* There is one place only where the word that ends at n begins.           *)
LEMMA OneBeginning ==
  ASSUME NEW src \in Seq(Character), NEW n \in Nat, NEW b \in 0 .. n,
         Begins(src, b + 1), Unbroken(src, b + 1, n)
  PROVE  \A i \in 1 .. n : IsWord(src, i, n) <=> i = b + 1
<1> SUFFICES ASSUME NEW i \in 1 .. n PROVE IsWord(src, i, n) <=> i = b + 1
  OBVIOUS
<1>2. ASSUME i = b + 1 PROVE IsWord(src, i, n)
  BY <1>2 DEF IsWord
<1>3. ASSUME IsWord(src, i, n), i > b + 1 PROVE FALSE
  <2>1. i # 1 /\ i - 1 \in b + 1 .. n
    BY <1>3
  <2>2. src[i - 1] = SPACE
    BY <1>3, <2>1 DEF IsWord, Begins
  <2> QED BY <2>1, <2>2 DEF Unbroken
<1>4. ASSUME IsWord(src, i, n), i < b + 1 PROVE FALSE
  <2>1. b + 1 # 1 /\ b + 1 - 1 = b /\ b \in i .. n
    BY <1>4
  <2>2. src[b + 1 - 1] = SPACE
    BY <2>1 DEF Begins
  <2>3. src[b] = SPACE
    BY <2>1, <2>2
  <2> QED BY <1>4, <2>1, <2>3 DEF IsWord, Unbroken
<1> QED BY <1>2, <1>3, <1>4

(* A list with a word more has that word and the others.                   *)
LEMMA ToSetAppended ==
  ASSUME NEW S, NEW s \in Seq(S), NEW e \in S
  PROVE  \A w : w \in ToSet(Append(s, e)) <=> w \in ToSet(s) \/ w = e
<1>1. /\ DOMAIN s = 1 .. Len(s) /\ Len(s) \in Nat
      /\ DOMAIN Append(s, e) = 1 .. Len(s) + 1
      /\ \A q \in 1 .. Len(s) : Append(s, e)[q] = s[q]
      /\ Append(s, e)[Len(s) + 1] = e
  OBVIOUS
<1> QED BY <1>1 DEF ToSet

(* One character more.                                                     *)
LEMMA SplitAfterNext ==
  ASSUME NEW src \in Seq(Character), NEW n \in Nat, n < Len(src),
         NEW r \in SplitState, SplitAfter(src, n, r)
  PROVE  SplitAfter(src, n + 1, SplitStep(src[n + 1], r))
<1> DEFINE c == src[n + 1]
           r1 == SplitStep(c, r)
           Ended(m, w) == \E i, j \in 1 .. m :
             j < m /\ IsWord(src, i, j) /\ src[j + 1] = SPACE /\ w = SubSeq(src, i, j)
<1>0. Len(src) \in Nat
  OBVIOUS
<1>1. n \in 0 .. Len(src) /\ n + 1 \in 1 .. Len(src)
  BY <1>0
<1>c. c \in Character
  BY <1>1, ElementOfSeq
<1>r. r1 = SplitStep(c, r)
  OBVIOUS
<1> SUFFICES SplitAfter(src, n + 1, r1)
  OBVIOUS
<1> HIDE DEF c, r1
<1>2. PICK b \in 0 .. n :
        Begins(src, b + 1) /\ Unbroken(src, b + 1, n) /\ r.s = SubSeq(src, b + 1, n)
  BY DEF SplitAfter
<1>3. \A w : w \in ToSet(r.destStrings) <=> Ended(n, w)
  BY DEF SplitAfter
<1>4. r.s \in Seq(Character) /\ r.destStrings \in Seq(Seq(Character))
  BY DEF SplitState
<1>5. (r.s = <<>>) <=> (b = n)
  <2>1. \A q \in b + 1 .. n : src[q] \in Character
    BY <1>0, <1>1, ElementOfSeq
  <2>2. Len(SubSeq(src, b + 1, n)) = IF b + 1 <= n THEN n - (b + 1) + 1 ELSE 0
    BY <1>1, <2>1, SubSeqProperties
  <2>3. Len(r.s) = n - b
    BY <1>2, <2>2
  <2>4. Len(r.s) = 0 <=> r.s = <<>>
    BY <1>4, EmptySeq
  <2> QED BY <2>3, <2>4
<1>6. ASSUME NEW w PROVE Ended(n + 1, w) <=>
        Ended(n, w) \/ (c = SPACE /\ b # n /\ w = SubSeq(src, b + 1, n))
  <2>1. \A i \in 1 .. n : IsWord(src, i, n) <=> i = b + 1
    BY <1>2, OneBeginning
  <2>2. ASSUME Ended(n + 1, w)
        PROVE  Ended(n, w) \/ (c = SPACE /\ b # n /\ w = SubSeq(src, b + 1, n))
    <3>1. PICK i \in 1 .. n + 1, j \in 1 .. n + 1 :
            j < n + 1 /\ IsWord(src, i, j) /\ src[j + 1] = SPACE /\ w = SubSeq(src, i, j)
      BY <2>2
    <3>2. i <= j /\ i \in 1 .. n /\ j \in 1 .. n
      BY <3>1 DEF IsWord
    <3>3. CASE j < n
      BY <3>1, <3>2, <3>3
    <3>4. CASE j = n
      <4>1. i = b + 1 /\ b # n
        BY <2>1, <3>1, <3>2, <3>4
      <4>2. w = SubSeq(src, b + 1, n) /\ src[n + 1] = SPACE
        BY <3>1, <3>4, <4>1
      <4> QED BY <4>1, <4>2 DEF c
    <3> QED BY <3>2, <3>3, <3>4
  <2>3. ASSUME Ended(n, w) PROVE Ended(n + 1, w)
    <3>1. PICK i \in 1 .. n, j \in 1 .. n :
            j < n /\ IsWord(src, i, j) /\ src[j + 1] = SPACE /\ w = SubSeq(src, i, j)
      BY <2>3
    <3>2. i \in 1 .. n + 1 /\ j \in 1 .. n + 1 /\ j < n + 1
      BY <3>1
    <3> QED BY <3>1, <3>2
  <2>4. ASSUME c = SPACE, b # n, w = SubSeq(src, b + 1, n) PROVE Ended(n + 1, w)
    <3>1. b + 1 \in 1 .. n /\ b + 1 \in 1 .. n + 1 /\ n \in 1 .. n + 1 /\ n < n + 1
      BY <2>4
    <3>2. IsWord(src, b + 1, n)
      BY <2>1, <3>1
    <3> QED BY <2>4, <3>1, <3>2 DEF c
  <2> QED BY <2>2, <2>3, <2>4
<1>7. CASE c # SPACE
  <2>1. r1.destStrings = r.destStrings /\ r1.s = Append(r.s, c)
    BY <1>7, <1>r DEF SplitStep
  <2>2. r1.s = SubSeq(src, b + 1, n + 1)
    BY <1>2, <2>1, SubSeqLonger DEF c
  <2>3. Unbroken(src, b + 1, n + 1)
    <3> SUFFICES ASSUME NEW q \in b + 1 .. n + 1 PROVE src[q] # SPACE
      BY DEF Unbroken
    <3>1. q \in b + 1 .. n \/ q = n + 1
      BY <1>1
    <3> QED BY <1>2, <1>7, <3>1 DEF Unbroken, c
  <2>4. b \in 0 .. n + 1
    BY <1>1
  <2>5. \A w : w \in ToSet(r1.destStrings) <=> Ended(n + 1, w)
    <3> HIDE DEF Ended
    <3> QED BY <1>3, <1>6, <1>7, <2>1
  <2> QED BY <1>2, <2>2, <2>3, <2>4, <2>5 DEF SplitAfter
<1>8. CASE c = SPACE
  <2>1. Begins(src, n + 1 + 1) /\ Unbroken(src, n + 1 + 1, n + 1) /\ n + 1 \in 0 .. n + 1
    <3>1. n + 1 + 1 - 1 = n + 1 /\ n + 1 \in 0 .. n + 1
      OBVIOUS
    <3>2. src[n + 1 + 1 - 1] = SPACE
      BY <1>8, <3>1 DEF c
    <3> QED BY <3>1, <3>2 DEF Begins, Unbroken
  <2>2. SubSeq(src, n + 1 + 1, n + 1) = <<>>
    BY <1>1, SubSeqEmpty
  <2>3. r1.s = <<>>
    BY <1>8, <1>r DEF SplitStep
  <2>4. \A w : w \in ToSet(r1.destStrings) <=> Ended(n + 1, w)
    <3> HIDE DEF Ended
    <3>1. CASE b = n
      <4>1. r1 = r
        BY <1>5, <1>8, <3>1, <1>r DEF SplitStep
      <4> QED BY <1>3, <1>6, <3>1, <4>1
    <3>2. CASE b # n
      <4>1. r1.destStrings = Append(r.destStrings, r.s)
        BY <1>5, <1>8, <3>2, <1>r DEF SplitStep
      <4>2. \A w : w \in ToSet(r1.destStrings) <=> w \in ToSet(r.destStrings) \/ w = r.s
        BY <1>4, <4>1, ToSetAppended
      <4> QED BY <1>2, <1>3, <1>6, <1>8, <3>2, <4>2
    <3> QED BY <3>1, <3>2
  <2> QED BY <2>1, <2>2, <2>3, <2>4 DEF SplitAfter
<1> QED BY <1>7, <1>8

(* The words of a string are its longest parts without a space.            *)
LEMMA SplitWords ==
  ASSUME NEW src \in Seq(Character)
  PROVE  \A w : w \in ToSet(SplitString(src)) <=>
           \E i, j \in 1 .. Len(src) :
             /\ IsWord(src, i, j) /\ w = SubSeq(src, i, j)
             /\ j = Len(src) \/ src[j + 1] = SPACE
<1> DEFINE n == Len(src)
           end == Split(src)[n]
           Ended(w) == \E i, j \in 1 .. n :
             j < n /\ IsWord(src, i, j) /\ src[j + 1] = SPACE /\ w = SubSeq(src, i, j)
           AtEnd(w) == \E i \in 1 .. n : IsWord(src, i, n) /\ w = SubSeq(src, i, n)
<1>1. n \in Nat /\ Split(src)[n] \in SplitState
  BY SplitEquations
<1>2. SplitAfter(src, n, end)
  <2> DEFINE S == {m \in 0 .. n : SplitAfter(src, m, Split(src)[m])}
  <2>1. 0 \in S
    <3>1. Split(src)[0] = NoWord /\ 0 \in 0 .. 0
      BY SplitEquations
    <3>2. Begins(src, 0 + 1) /\ Unbroken(src, 0 + 1, 0) /\ NoWord.s = SubSeq(src, 0 + 1, 0)
      BY SubSeqEmpty DEF Begins, Unbroken, NoWord
    <3>3. \A w : ~ (w \in ToSet(NoWord.destStrings))
      BY DEF NoWord, ToSet
    <3>4. SplitAfter(src, 0, NoWord)
      BY <3>1, <3>2, <3>3 DEF SplitAfter
    <3> QED BY <1>1, <3>1, <3>4
  <2>2. ASSUME NEW m \in 0 .. n - 1, m \in S PROVE m + 1 \in S
    <3>1. m \in Nat /\ m < n /\ m + 1 \in 1 .. n /\ m + 1 - 1 = m /\ m \in 0 .. n
      BY <1>1
    <3>2. Split(src)[m] \in SplitState /\ SplitAfter(src, m, Split(src)[m])
      BY <2>2, <3>1, SplitEquations
    <3>3. Split(src)[m + 1] = SplitStep(src[m + 1], Split(src)[m])
      BY <3>1, SplitEquations
    <3>4. SplitAfter(src, m + 1, Split(src)[m + 1])
      BY <3>1, <3>2, <3>3, SplitAfterNext
    <3> QED BY <3>1, <3>4
  <2> HIDE DEF S
  <2>3. \A m \in 0 .. n : m \in S
    BY <1>1, <2>1, <2>2, Induction
  <2> QED BY <1>1, <2>3 DEF S
<1>3. PICK b \in 0 .. n :
        Begins(src, b + 1) /\ Unbroken(src, b + 1, n) /\ end.s = SubSeq(src, b + 1, n)
  BY <1>2 DEF SplitAfter
<1>4. \A w : w \in ToSet(end.destStrings) <=> Ended(w)
  BY <1>2 DEF SplitAfter
<1>5. end.destStrings \in Seq(Seq(Character)) /\ end.s \in Seq(Character)
  BY <1>1 DEF SplitState
<1>6. \A i \in 1 .. n : IsWord(src, i, n) <=> i = b + 1
  BY <1>1, <1>3, OneBeginning
<1>7. (end.s = <<>>) <=> (b = n)
  <2>1. b + 1 \in Int /\ n \in Int /\ \A q \in b + 1 .. n : src[q] \in Character
    BY <1>1, ElementOfSeq
  <2>2. Len(SubSeq(src, b + 1, n)) = IF b + 1 <= n THEN n - (b + 1) + 1 ELSE 0
    BY <2>1, SubSeqProperties
  <2>3. Len(end.s) = n - b
    BY <1>1, <1>3, <2>2
  <2>4. Len(end.s) = 0 <=> end.s = <<>>
    BY <1>5, EmptySeq
  <2> QED BY <1>1, <2>3, <2>4
<1>8. SplitString(src) = IF end.s = <<>> THEN end.destStrings ELSE Append(end.destStrings, end.s)
  BY DEF SplitString
<1> HIDE DEF end
<1>9. \A w : AtEnd(w) <=> b # n /\ w = end.s
  <2> SUFFICES ASSUME NEW w PROVE AtEnd(w) <=> b # n /\ w = end.s
    OBVIOUS
  <2>1. b + 1 \in 1 .. n <=> b # n
    BY <1>1
  <2> QED BY <1>3, <1>6, <2>1
<1>10. \A w : w \in ToSet(SplitString(src)) <=> Ended(w) \/ AtEnd(w)
  <2> HIDE DEF Ended, AtEnd
  <2>1. CASE b = n
    BY <1>4, <1>7, <1>8, <1>9, <2>1
  <2>2. CASE b # n
    <3>1. \A w : w \in ToSet(SplitString(src)) <=> w \in ToSet(end.destStrings) \/ w = end.s
      BY <1>5, <1>7, <1>8, <2>2, ToSetAppended
    <3> QED BY <1>4, <1>9, <2>2, <3>1
  <2> QED BY <2>1, <2>2
<1> SUFFICES ASSUME NEW w
    PROVE  w \in ToSet(SplitString(src)) <=>
             \E i, j \in 1 .. n :
               /\ IsWord(src, i, j) /\ w = SubSeq(src, i, j)
               /\ j = n \/ src[j + 1] = SPACE
  OBVIOUS
<1>11. ASSUME Ended(w) \/ AtEnd(w)
       PROVE  \E i, j \in 1 .. n :
                /\ IsWord(src, i, j) /\ w = SubSeq(src, i, j)
                /\ j = n \/ src[j + 1] = SPACE
  BY <1>1, <1>11
<1>12. ASSUME NEW i \in 1 .. n, NEW j \in 1 .. n,
              IsWord(src, i, j), w = SubSeq(src, i, j), j = n \/ src[j + 1] = SPACE
       PROVE  Ended(w) \/ AtEnd(w)
  <2>1. j < n \/ j = n
    BY <1>1
  <2> QED BY <1>12, <2>1
<1> QED BY <1>10, <1>11, <1>12

(* What the comparison of a word with an extension says, by character.     *)
LEMMA WordCompared ==
  ASSUME NEW src \in Seq(Character), NEW ext,
         NEW i \in 1 .. Len(src), NEW j \in 1 .. Len(src), i <= j
  PROVE  SameNoCase(SubSeq(src, i, j), ext) <=>
           /\ Len(ext) = j - i + 1
           /\ \A q \in 1 .. j - i + 1 : Upper[src[i + q - 1]] = Upper[ext[q]]
<1>1. i \in Int /\ j \in Int /\ \A q \in i .. j : src[q] \in Character
  <2>1. Len(src) \in Nat
    OBVIOUS
  <2> QED BY <2>1, ElementOfSeq
<1>2. /\ Len(SubSeq(src, i, j)) = IF i <= j THEN j - i + 1 ELSE 0
      /\ \A q \in 1 .. j - i + 1 : SubSeq(src, i, j)[q] = src[i + q - 1]
  BY <1>1, SubSeqProperties
<1> QED BY <1>2 DEF SameNoCase

(* CreateInArchive's search for an extension in a format's list finds just *)
(* what is written there between spaces or ends, in whatever case.         *)
THEOREM ListsAreNames ==
  ASSUME NEW exts \in Seq(Character), NEW ext \in Seq(Character)
  PROVE  Lists(exts, ext) <=> Names(exts, ext)
<1> DEFINE padded == <<SPACE>> \o exts \o <<SPACE>>
           n == Len(exts)
           m == Len(ext)
<1>1. /\ n \in Nat /\ m \in Nat
      /\ \A q \in 1 .. n : exts[q] \in Character
      /\ \A q \in 1 .. m : ext[q] \in Character
      /\ ext = <<>> <=> m = 0
  BY ElementOfSeq, EmptySeq
<1>2. /\ Len(padded) = n + 2
      /\ padded[1] = SPACE /\ padded[n + 2] = SPACE
      /\ \A q \in 1 .. n : padded[q + 1] = exts[q]
  OBVIOUS
<1>3. Names(exts, ext) <=>
        /\ m > 0 /\ SPACE \notin ToSet(ext)
        /\ \E i \in 1 .. n + 1 - m :
             /\ padded[i] = SPACE /\ padded[i + m + 1] = SPACE
             /\ \A q \in 1 .. m : Upper[padded[i + q]] = Upper[ext[q]]
  <2>1. Len(padded) - m - 1 = n + 1 - m
    BY <1>1, <1>2
  <2>2. ext # <<>> <=> m > 0
    BY <1>1
  <2> QED BY <2>1, <2>2 DEF Names
<1> HIDE DEF padded
<1> DEFINE Written(i) ==
             /\ Begins(exts, i)
             /\ i + m - 1 = n \/ exts[i + m] = SPACE
             /\ \A q \in 1 .. m : Upper[exts[i + q - 1]] = Upper[ext[q]]
<1>4. ASSUME m > 0, NEW i \in 1 .. n + 1 - m
      PROVE  Written(i) <=>
               /\ padded[i] = SPACE /\ padded[i + m + 1] = SPACE
               /\ \A q \in 1 .. m : Upper[padded[i + q]] = Upper[ext[q]]
  <2>1. i \in 1 .. n /\ i + m - 1 \in 1 .. n
    BY <1>1, <1>4
  <2>2. padded[i] = SPACE <=> Begins(exts, i)
    <3>1. CASE i = 1
      BY <1>2, <3>1 DEF Begins
    <3>2. CASE i # 1
      <4>1. i - 1 \in 1 .. n /\ i - 1 + 1 = i
        BY <2>1, <3>2, <1>1
      <4>2. padded[i] = exts[i - 1]
        BY <1>2, <4>1
      <4> QED BY <3>2, <4>2 DEF Begins
    <3> QED BY <3>1, <3>2
  <2>3. padded[i + m + 1] = SPACE <=> i + m - 1 = n \/ exts[i + m] = SPACE
    <3>1. CASE i + m - 1 = n
      <4>1. i + m + 1 = n + 2
        BY <1>1, <2>1, <3>1
      <4> QED BY <1>2, <3>1, <4>1
    <3>2. CASE i + m - 1 # n
      <4>1. i + m \in 1 .. n
        BY <1>1, <2>1, <3>2
      <4>2. padded[i + m + 1] = exts[i + m]
        BY <1>2, <4>1
      <4> QED BY <3>2, <4>2
    <3> QED BY <3>1, <3>2
  <2>4. ASSUME NEW q \in 1 .. m PROVE padded[i + q] = exts[i + q - 1]
    <3>1. i + q - 1 \in 1 .. n /\ i + q - 1 + 1 = i + q
      BY <1>1, <2>1
    <3> QED BY <1>2, <3>1
  <2> QED BY <2>2, <2>3, <2>4
<1>5. ASSUME m > 0, NEW i \in 1 .. n + 1 - m, Written(i)
      PROVE  Unbroken(exts, i, i + m - 1) <=> SPACE \notin ToSet(ext)
  <2>1. ToSet(ext) = {ext[q] : q \in 1 .. m}
    <3>1. DOMAIN ext = 1 .. m
      OBVIOUS
    <3> QED BY <3>1 DEF ToSet
  <2>2. ASSUME NEW q \in 1 .. m PROVE exts[i + q - 1] = SPACE <=> ext[q] = SPACE
    <3>1. i + q - 1 \in 1 .. n
      BY <1>1
    <3>2. /\ exts[i + q - 1] \in DOMAIN Upper /\ ext[q] \in DOMAIN Upper
          /\ Upper[exts[i + q - 1]] = Upper[ext[q]]
      BY <1>1, <1>5, <3>1 DEF Character
    <3> HIDE DEF Written
    <3> QED BY <3>2, FormatNamesAssumption
  <2>3. ASSUME NEW p \in i .. i + m - 1 PROVE p - i + 1 \in 1 .. m /\ i + (p - i + 1) - 1 = p
    BY <1>1
  <2>4. ASSUME Unbroken(exts, i, i + m - 1), NEW q \in 1 .. m PROVE ext[q] # SPACE
    <3>1. i + q - 1 \in i .. i + m - 1
      BY <1>1
    <3>2. exts[i + q - 1] # SPACE
      BY <2>4, <3>1 DEF Unbroken
    <3> QED BY <2>2, <3>2
  <2>5. ASSUME SPACE \notin ToSet(ext), NEW p \in i .. i + m - 1 PROVE exts[p] # SPACE
    <3>1. p - i + 1 \in 1 .. m /\ i + (p - i + 1) - 1 = p
      BY <2>3
    <3>2. ext[p - i + 1] # SPACE
      BY <2>1, <2>5, <3>1
    <3>3. exts[i + (p - i + 1) - 1] # SPACE
      BY <2>2, <3>1, <3>2
    <3> QED BY <3>1, <3>3
  <2>6. SPACE \notin ToSet(ext) <=> \A q \in 1 .. m : ext[q] # SPACE
    BY <2>1
  <2> HIDE DEF Written
  <2> QED BY <2>4, <2>5, <2>6 DEF Unbroken
<1>6. ASSUME Lists(exts, ext)
      PROVE  m > 0 /\ \E i \in 1 .. n + 1 - m : Written(i) /\ Unbroken(exts, i, i + m - 1)
  <2>1. PICK w \in ToSet(SplitString(exts)) : SameNoCase(w, ext)
    BY <1>6 DEF Lists
  <2>2. PICK i \in 1 .. n, j \in 1 .. n :
          /\ IsWord(exts, i, j) /\ w = SubSeq(exts, i, j)
          /\ j = n \/ exts[j + 1] = SPACE
    BY <2>1, SplitWords
  <2>3. i <= j
    BY <2>2 DEF IsWord
  <2>4. /\ m = j - i + 1
        /\ \A q \in 1 .. j - i + 1 : Upper[exts[i + q - 1]] = Upper[ext[q]]
    BY <2>1, <2>2, <2>3, WordCompared
  <2>5. m > 0 /\ i \in 1 .. n + 1 - m /\ i + m - 1 = j /\ i + m = j + 1
    BY <1>1, <2>3, <2>4
  <2>6. Written(i)
    BY <2>2, <2>4, <2>5 DEF IsWord
  <2>7. Unbroken(exts, i, i + m - 1)
    BY <2>2, <2>5 DEF IsWord
  <2> HIDE DEF Written
  <2> QED BY <2>5, <2>6, <2>7
<1>7. ASSUME m > 0, NEW i \in 1 .. n + 1 - m, Written(i), Unbroken(exts, i, i + m - 1)
      PROVE  Lists(exts, ext)
  <2> DEFINE j == i + m - 1
             w == SubSeq(exts, i, j)
  <2>1. i \in 1 .. n /\ j \in 1 .. n /\ i <= j /\ j + 1 = i + m /\ m = j - i + 1
    BY <1>1, <1>7
  <2>2. IsWord(exts, i, j) /\ (j = n \/ exts[j + 1] = SPACE)
    BY <1>7, <2>1 DEF IsWord
  <2>3. \A q \in 1 .. m : Upper[exts[i + q - 1]] = Upper[ext[q]]
    BY <1>7
  <2> HIDE DEF j, Written
  <2>4. w \in ToSet(SplitString(exts))
    BY <2>1, <2>2, SplitWords
  <2>5. SameNoCase(w, ext)
    BY <2>1, <2>3, WordCompared
  <2> HIDE DEF w
  <2> QED BY <2>4, <2>5 DEF Lists
<1> HIDE DEF Written
<1>8. ASSUME m > 0
      PROVE  Names(exts, ext) <=>
               SPACE \notin ToSet(ext) /\ \E i \in 1 .. n + 1 - m : Written(i)
  BY <1>3, <1>4, <1>8
<1>9. ASSUME Lists(exts, ext) PROVE Names(exts, ext)
  BY <1>5, <1>6, <1>8, <1>9
<1>10. ASSUME Names(exts, ext) PROVE Lists(exts, ext)
  <2>1. m > 0
    BY <1>3, <1>10
  <2> QED BY <1>5, <1>7, <1>8, <1>10, <2>1
<1> QED BY <1>9, <1>10

(* The extension GetExt takes from the path is that of the file's name.    *)
LEMMA ExtensionTaken ==
  ASSUME NEW path \in Seq(Character), NEW ext \in Extensions(path)
  PROVE  GetExt(path) = ext
<1> DEFINE dots == Positions(path, DOT)
<1>1. CASE dots = {}
  BY <1>1 DEF GetExt, Extensions
<1>2. CASE dots # {}
  <2>1. Len(path) \in Nat /\ dots \subseteq 1 .. Len(path)
    BY DEF Positions
  <2>2. PICK i \in dots :
          /\ ext = SubSeq(path, i + 1, Len(path))
          /\ \A j \in i + 1 .. Len(path) : path[j] \notin {DOT, "/"}
    BY <1>2 DEF Extensions
  <2>3. \A j \in dots : i >= j
    BY <2>1, <2>2 DEF Positions
  <2>4. \A x \in dots : (\A j \in dots : x >= j) => x = i
    BY <2>1, <2>3
  <2>5. Max(dots) = i
    <3> HIDE DEF dots
    <3> QED BY <2>3, <2>4 DEF Max
  <2> QED BY <1>2, <2>2, <2>5 DEF GetExt
<1> QED BY <1>1, <1>2

(* The extension of a path is a string.                                    *)
LEMMA ExtensionType ==
  ASSUME NEW path \in Seq(Character), {"7", "z"} \subseteq Character
  PROVE  GetExt(path) \in Seq(Character)
<1> DEFINE dots == Positions(path, DOT)
<1>1. CASE dots = {}
  <2>1. <<"7", "z">> \in Seq(Character)
    OBVIOUS
  <2> QED BY <1>1, <2>1 DEF GetExt
<1>2. CASE dots # {}
  <2>1. Len(path) \in Nat /\ dots \in SUBSET Nat
    BY DEF Positions
  <2> DEFINE up == {Len(path) - i : i \in dots}
  <2>2. PICK u \in up : \A v \in up : u <= v
    <3>1. up \in SUBSET Nat /\ up # {}
      BY <1>2, <2>1 DEF Positions
    <3> HIDE DEF up
    <3> QED BY <3>1, Least
  <2>3. PICK i \in dots : u = Len(path) - i
    BY <2>2
  <2>4. ASSUME NEW j \in dots PROVE i >= j
    <3>1. Len(path) - j \in up
      OBVIOUS
    <3>2. Len(path) - i <= Len(path) - j
      BY <2>2, <2>3, <3>1
    <3> HIDE DEF dots
    <3> QED BY <2>1, <3>2
  <2>5. Max(dots) \in dots
    <3> HIDE DEF dots
    <3> QED BY <2>4 DEF Max
  <2>6. Max(dots) + 1 \in Int /\ Max(dots) \in Nat
    BY <2>1, <2>5
  <2>7. \A q \in Max(dots) + 1 .. Len(path) : path[q] \in Character
    <3> HIDE DEF dots
    <3> QED BY <2>1, <2>6, ElementOfSeq
  <2>8. SubSeq(path, Max(dots) + 1, Len(path)) \in Seq(Character)
    <3> HIDE DEF dots
    <3> QED BY <2>1, <2>6, <2>7, SubSeqProperties
  <2> QED BY <1>2, <2>8 DEF GetExt
<1> QED BY <1>1, <1>2

-----------------------------------------------------------------------------
(* The library *)

(* The steps at which the parts of the Fuse7z_lib7zip object are there.    *)
Before7z == {"fopen", "initialize"}
Loading == {"scan", "try", "open", "mounted", "deleting", "emptying"}

(* One handler at most for each object gone through; none before and after. *)
HandlersKnown ==
  /\ Len(handlers) <= scanned + 1
  /\ step \in Before7z => handlers = <<>> /\ scanned = 0 /\ k = 1
  /\ step \in Loading => m_bInitialized
  /\ step = "scan" => k = 1
  /\ step \in {"destructor", "gone"} => handlers = <<>>
  /\ step = "try" => k <= Len(handlers) + 1
  /\ step \in {"open", "mounted", "deleting"} => k <= Len(handlers)
  /\ infos = Len(handlers)

(* Who holds the archive object, and what it holds: every list of codecs,  *)
(* unless archives decline to.                                             *)
References ==
  /\ codecsInfo \in {0, 1} /\ codecsInfo <= lists
  /\ installation.codecs # "declined" => lists = codecsInfo
  /\ step = "open" => inArchive = OnStack /\ wrap = 2 /\ openCallback = 1
  /\ step \in {"mounted", "deleting"} => inArchive = 1 + items /\ openCallback = 0
  /\ step \notin {"open", "mounted", "deleting"} =>
       inArchive = 0 /\ wrap = 0 /\ codecsInfo = 0 /\ openCallback = 0
  /\ step \notin {"mounted", "deleting"} => items = 0 /\ decoders = {}
  /\ \A d \in decoders : d.object \in Loaders

(* The file is open from fopen to the member's destructor.                 *)
StreamOpen ==
  /\ open = (step \notin {"fopen", "gone"} /\ file.opens)
  /\ step \notin {"fopen", "thrown"} => file.opens
  /\ step # "fopen" /\ open => m_nFileSize = Measured(file.length)
  /\ step \in {"initialize", "scan"} => position = 0

LibraryInv ==
  TypeOK /\ HandlersKnown /\ OneLoadPerHandler /\ References /\ StreamOpen /\ DecodersFitMethods

-----------------------------------------------------------------------------
(* The int that ftell's result is stored in, and GetSize                   *)

(* Half of the range of int.                                               *)
LEMMA Half == (INTS \div 2) \in Nat /\ INTS = 2 * (INTS \div 2)
BY InStreamAssumption, Z3

(* A remainder is below the divisor, and a number below it its own.        *)
LEMMA Remainder ==
  ASSUME NEW a \in Int, NEW n \in Nat, n > 0
  PROVE  /\ a % n \in 0 .. n - 1
         /\ 0 <= a /\ a < n => a % n = a
BY Z3

(* A long stored in an int is an int, and itself when it fits.             *)
LEMMA IntStored ==
  ASSUME NEW len \in Nat
  PROVE  /\ AsInt(len) \in -(INTS \div 2) .. (INTS \div 2) - 1
         /\ len < INTS \div 2 => AsInt(len) = len
<1> DEFINE h == INTS \div 2
<1>1. h \in Nat /\ INTS = 2 * h /\ INTS > 0
  BY Half, InStreamAssumption
<1>2. len + h \in Int
  BY <1>1
<1>3. /\ (len + h) % INTS \in 0 .. INTS - 1
      /\ 0 <= len + h /\ len + h < INTS => (len + h) % INTS = len + h
  BY <1>1, <1>2, Remainder, InStreamAssumption
<1> HIDE DEF h
<1> QED BY <1>1, <1>3 DEF AsInt, h

(* The stream measures the file by going to its end.                       *)
LEMMA MeasuredIsLength ==
  ASSUME NEW len \in Nat
  PROVE  Measured(len) = AsInt(len)
BY DEF Measured, Seek, SEEK_END, SEEK_SET, SEEK_CUR

(* GetSize tells the handlers the length of a file that fits an int.       *)
LEMMA SizeWidened ==
  ASSUME NEW len \in Nat, len < INTS \div 2
  PROVE  GetSize(Measured(len)) = len
<1>1. len < ULLS /\ ULLS > 0 /\ ULLS \in Nat
  BY Half, InStreamAssumption
<1>2. Measured(len) = len
  BY IntStored, MeasuredIsLength
<1> QED BY <1>1, <1>2, Remainder DEF GetSize

-----------------------------------------------------------------------------
(* Handlers and the loads they stand for                                   *)

Places(s, d) == {j \in DOMAIN s : s[j] = d}

(* A handler is in finitely many places of a sequence.                     *)
LEMMA PlacesFinite ==
  ASSUME NEW s \in Seq(Dll), NEW d
  PROVE  IsFiniteSet(Places(s, d)) /\ Cardinality(Places(s, d)) \in Nat
<1>1. DOMAIN s = 1 .. Len(s) /\ Len(s) \in Nat
  OBVIOUS
<1>2. IsFiniteSet(DOMAIN s)
  BY <1>1, FS_Interval
<1>3. IsFiniteSet(Places(s, d))
  BY <1>2, FS_Subset DEF Places
<1> QED BY <1>3, FS_CardinalityType

(* A handler more for d is a place more for d.                             *)
LEMMA PlacesAppended ==
  ASSUME NEW s \in Seq(Dll), NEW d \in Dll, NEW e
  PROVE  Cardinality(Places(Append(s, d), e)) =
           Cardinality(Places(s, e)) + (IF e = d THEN 1 ELSE 0)
<1>1. /\ DOMAIN s = 1 .. Len(s) /\ Len(s) \in Nat
      /\ DOMAIN Append(s, d) = 1 .. Len(s) + 1
      /\ \A j \in 1 .. Len(s) : Append(s, d)[j] = s[j]
      /\ Append(s, d)[Len(s) + 1] = d
  OBVIOUS
<1>2. Len(s) + 1 \notin Places(s, e)
  BY <1>1 DEF Places
<1>3. CASE e = d
  <2>1. Places(Append(s, d), e) = Places(s, e) \cup {Len(s) + 1}
    BY <1>1, <1>3 DEF Places
  <2> QED BY <1>2, <1>3, <2>1, PlacesFinite, FS_AddElement
<1>4. CASE e # d
  <2>1. Places(Append(s, d), e) = Places(s, e)
    BY <1>1, <1>4 DEF Places
  <2> QED BY <1>4, <2>1, PlacesFinite
<1> QED BY <1>3, <1>4

(* Nothing is in a place of the empty sequence.                            *)
LEMMA NoPlaces == ASSUME NEW d PROVE Cardinality(Places(<<>>, d)) = 0
<1>1. Places(<<>>, d) = {}
  BY DEF Places
<1> QED BY <1>1, FS_EmptySet

(* One load per handler, in terms of places.                               *)
LEMMA OneLoad == OneLoadPerHandler <=> \A d \in Dll : loaded[d] = Cardinality(Places(handlers, d))
BY DEF OneLoadPerHandler, HandlersOf, Places

(* An object with a handler is loaded.                                     *)
LEMMA LoadersLoaded ==
  ASSUME TypeOK, OneLoadPerHandler, NEW d \in Loaders
  PROVE  d \in Dll /\ loaded[d] > 0
<1>1. PICK j \in 1 .. Len(handlers) : handlers[j] = d
  BY DEF Loaders
<1>2. handlers \in Seq(Dll) /\ d \in Dll /\ j \in Places(handlers, d)
  BY <1>1 DEF TypeOK, Places
<1>3. Cardinality(Places(handlers, d)) # 0
  BY <1>2, PlacesFinite, FS_EmptySet
<1> QED BY <1>2, <1>3, PlacesFinite, OneLoad

(* Making a handler loads its object and appends it, or changes nothing.   *)
LEMMA Constructed ==
  ASSUME TypeOK, OneLoadPerHandler, infos = Len(handlers), NEW d \in Dll, Construct(d)
  PROVE  /\ loaded' \in [Dll -> Nat] /\ handlers' \in Seq(Dll)
         /\ OneLoadPerHandler'
         /\ infos' \in Nat /\ infos' = Len(handlers')
         /\ Len(handlers') <= Len(handlers) + 1
<1>1. CASE IsInitialized(d)
  <2>1. /\ loaded' = [loaded EXCEPT ![d] = @ + 1]
        /\ infos' = infos + 1
        /\ handlers' = Append(handlers, d)
    BY <1>1 DEF Construct
  <2>2. /\ handlers \in Seq(Dll) /\ handlers' \in Seq(Dll)
        /\ Len(handlers) \in Nat /\ Len(handlers') = Len(handlers) + 1
    BY <2>1 DEF TypeOK
  <2>3. loaded' \in [Dll -> Nat]
    <3>1. loaded \in [Dll -> Nat] /\ loaded[d] + 1 \in Nat
      BY DEF TypeOK
    <3> QED BY <2>1, <3>1
  <2>4. ASSUME NEW e \in Dll PROVE loaded'[e] = Cardinality(Places(handlers', e))
    <3>1. loaded[e] = Cardinality(Places(handlers, e)) /\ loaded[e] \in Nat
      BY OneLoad DEF TypeOK
    <3>2. loaded \in [Dll -> Nat]
      BY DEF TypeOK
    <3>3. loaded'[e] = loaded[e] + (IF e = d THEN 1 ELSE 0)
      BY <2>1, <3>1, <3>2
    <3> QED BY <2>1, <2>2, <3>1, <3>3, PlacesAppended
  <2>5. OneLoadPerHandler'
    BY <2>4 DEF OneLoadPerHandler, HandlersOf, Places
  <2> QED BY <2>1, <2>2, <2>3, <2>5
<1>2. CASE ~IsInitialized(d)
  <2>1. UNCHANGED <<loaded, infos, handlers>>
    BY <1>2 DEF Construct
  <2> QED BY <2>1, SMTT(30) DEF TypeOK, OneLoadPerHandler, HandlersOf
<1> QED BY <1>1, <1>2

(* Deinitialize leaves no handler, no load and no codec info.              *)
LEMMA Deinitialized ==
  ASSUME TypeOK, OneLoadPerHandler, infos = Len(handlers),
         m_bInitialized \/ handlers = <<>>, Deinitialize
  PROVE  /\ loaded' \in [Dll -> Nat] /\ handlers' = <<>> /\ m_bInitialized' \in BOOLEAN
         /\ OneLoadPerHandler'
         /\ infos' = 0
<1>1. CASE m_bInitialized
  <2>1. /\ loaded' = [d \in Dll |-> loaded[d] - Cardinality(Places(handlers, d))]
        /\ infos' = infos - Len(handlers)
        /\ handlers' = <<>> /\ m_bInitialized' = FALSE
    BY <1>1 DEF Deinitialize, Emptied, HandlersOf, Places
  <2>2. ASSUME NEW d \in Dll PROVE loaded'[d] = 0
    BY <2>1, OneLoad DEF TypeOK
  <2>3. loaded' \in [Dll -> Nat]
    BY <2>1, <2>2
  <2>4. infos' = 0
    <3>1. infos \in Nat /\ infos = Len(handlers)
      BY DEF TypeOK
    <3> QED BY <2>1, <3>1
  <2>5. OneLoadPerHandler'
    BY <2>1, <2>2, NoPlaces DEF OneLoadPerHandler, HandlersOf, Places
  <2> QED BY <2>1, <2>3, <2>4, <2>5
<1>2. CASE ~m_bInitialized
  <2>1. UNCHANGED <<loaded, infos, handlers, m_bInitialized>> /\ handlers = <<>>
    BY <1>2 DEF Deinitialize
  <2>2. loaded' \in [Dll -> Nat] /\ m_bInitialized' \in BOOLEAN /\ OneLoadPerHandler'
    BY <2>1 DEF TypeOK, OneLoadPerHandler, HandlersOf
  <2>3. infos' = 0
    BY <2>1
  <2> QED BY <2>1, <2>2, <2>3
<1> QED BY <1>1, <1>2

-----------------------------------------------------------------------------
(* Nothing is loaded or held at first.                                     *)
LEMMA LibraryInit == Init => LibraryInv
<1>1. 0 \in -(INTS \div 2) .. (INTS \div 2) - 1
  BY Half, InStreamAssumption
<1>2. MaxItems \in Nat
  BY ArchiveLibraryAssumption
<1>3. 0 \in 0 .. MaxItems
  BY <1>2
<1>4. \A n \in Nat : 0 \in 0 .. n /\ 1 \in 1 .. n + 2
  OBVIOUS
<1> SUFFICES ASSUME Init PROVE LibraryInv
  OBVIOUS
<1>5. installation.plugins \in Seq(Dll \ {SevenZip})
  BY ArchiveLibraryAssumption DEF Init
<1>6. Len(installation.plugins) \in Nat
  BY <1>5
<1>7. 0 \in 0 .. Len(installation.plugins) /\ 1 \in 1 .. Len(installation.plugins) + 2
  BY <1>4, <1>6
<1>8. handlers \in Seq(Dll) /\ Len(handlers) = 0 /\ loaded \in [Dll -> Nat]
  BY DEF Init
<1>9. {position, start} \subseteq Nat /\ {inArchive, wrap, codecsInfo, lists, openCallback} \subseteq Nat
  BY DEF Init
<1>10. TypeOK
  BY <1>1, <1>3, <1>7, <1>8, <1>9 DEF Init, TypeOK
<1>11. HandlersKnown
  BY <1>8 DEF Init, HandlersKnown, Before7z, Loading
<1>12. References /\ DecodersFitMethods
  BY DEF Init, References, DecodersFitMethods
<1>13. StreamOpen
  BY DEF Init, StreamOpen
<1>14. OneLoadPerHandler
  BY NoPlaces DEF Init, OneLoadPerHandler, HandlersOf, Places
<1> QED BY <1>10, <1>11, <1>12, <1>13, <1>14 DEF LibraryInv

(* What the assumptions say of the installation and the file at hand.      *)
LEMMA AtHand ==
  ASSUME TypeOK
  PROVE  /\ installation.plugins \in Seq(Dll \ {SevenZip}) /\ SevenZip \in Dll
         /\ Len(installation.plugins) \in Nat
         /\ file.length \in Nat
         /\ handlers \in Seq(Dll) /\ Len(handlers) \in Nat
         /\ {position, start, inArchive, wrap, codecsInfo, lists, openCallback, infos, k, items}
              \subseteq Nat
         /\ installation.codecs \in {"unused", "taken", "refused", "declined"}
<1>1. installation \in Installations /\ file \in Files /\ handlers \in Seq(Dll)
  BY DEF TypeOK
<1>2. installation.plugins \in Seq(Dll \ {SevenZip}) /\ SevenZip \in Dll
  BY <1>1, ArchiveLibraryAssumption
<1>3. file.length \in Nat
  BY <1>1, ArchiveLibraryAssumption
<1>4. Len(installation.plugins) \in Nat /\ Len(handlers) \in Nat
  BY <1>1, <1>2
<1>5. k \in 1 .. Len(installation.plugins) + 2 /\ items \in 0 .. MaxItems
  BY DEF TypeOK
<1>6. k \in Nat /\ items \in Nat
  BY <1>4, <1>5, ArchiveLibraryAssumption
<1>7. {position, start, inArchive, wrap, codecsInfo, lists, openCallback, infos} \subseteq Nat
  BY DEF TypeOK
<1>8. installation.codecs \in {"unused", "taken", "refused", "declined"}
  BY <1>1, ArchiveLibraryAssumption
<1> QED BY <1>1, <1>2, <1>3, <1>4, <1>6, <1>7, <1>8

(* LoadDllFromFolder's next plugin, and OpenArchive's next handler.         *)
LEMMA NextPlugin ==
  ASSUME TypeOK, LoadPlugin
  PROVE  /\ scanned \in Nat /\ scanned' \in 0 .. Len(installation.plugins)
         /\ installation.plugins[scanned + 1] \in Dll
<1>1. scanned \in 0 .. Len(installation.plugins)
  BY DEF TypeOK
<1>2. scanned \in Nat /\ scanned < Len(installation.plugins) /\ scanned' = scanned + 1
  BY <1>1, AtHand DEF LoadPlugin
<1>3. scanned + 1 \in 1 .. Len(installation.plugins)
  BY <1>2, AtHand
<1>4. installation.plugins[scanned + 1] \in Dll
  BY <1>3, AtHand
<1> QED BY <1>2, <1>3, <1>4, AtHand

(* The attempt after the k-th handler is one the type of k allows.         *)
LEMMA NextHandler ==
  ASSUME TypeOK, HandlersKnown, k <= Len(handlers)
  PROVE  k + 1 \in 1 .. Len(installation.plugins) + 2
<1>1. scanned \in 0 .. Len(installation.plugins)
  BY DEF TypeOK
<1>2. k <= scanned + 1
  BY <1>1, AtHand DEF HandlersKnown
<1>3. k \in 1 .. Len(installation.plugins) + 2
  BY DEF TypeOK
<1> QED BY <1>1, <1>2, <1>3, AtHand, SMTT(30)

(* SEEK_SET to 0 puts the stream at the start.                            *)
LEMMA AtStart == \A len \in Nat : Seek(len, len, 0, SEEK_SET) = 0
BY DEF Seek, SEEK_SET, SEEK_CUR, SEEK_END

(* Read and Seek leave the stream at a position of the file or beyond it.  *)
LEMMA StreamMoves ==
  ASSUME NEW at \in Nat, NEW len \in Nat
  PROVE  /\ \A size \in Nat : Read(at, len, size) \in Nat
         /\ \A offset \in Int, seekOrigin \in {SEEK_SET, SEEK_CUR, SEEK_END} :
              Seek(at, len, offset, seekOrigin) \in Nat
<1>1. \A size \in Nat : Read(at, len, size) \in Nat
  BY DEF Read
<1>2. ASSUME NEW offset \in Int, NEW seekOrigin \in {SEEK_SET, SEEK_CUR, SEEK_END}
      PROVE  Seek(at, len, offset, seekOrigin) \in Nat
  <2>1. CASE seekOrigin = SEEK_SET
    BY <2>1 DEF Seek, SEEK_SET, SEEK_CUR, SEEK_END
  <2>2. CASE seekOrigin = SEEK_CUR
    BY <2>2 DEF Seek, SEEK_SET, SEEK_CUR, SEEK_END
  <2>3. CASE seekOrigin = SEEK_END
    BY <2>3 DEF Seek, SEEK_SET, SEEK_CUR, SEEK_END
  <2> QED BY <2>1, <2>2, <2>3
<1> QED BY <1>1, <1>2

(* What is left of the archive object: n references, one to its stream and *)
(* its list of codecs, or nothing.                                         *)
Held(n) ==
  /\ inArchive' = n
  /\ wrap' = (IF n = 0 THEN 0 ELSE 1)
  /\ codecsInfo' = (IF n = 0 THEN 0 ELSE codecsInfo)
  /\ lists' = (IF n = 0 THEN lists - codecsInfo ELSE lists)
  /\ openCallback' = 0
  /\ decoders' = (IF n = 0 THEN {} ELSE decoders)
  /\ infos' = infos

(* Once Open has answered, the items and the archive hold the object.      *)
LEMMA Opened ==
  ASSUME TypeOK, References, NEW m \in 0 .. MaxItems, Opens(m)
  PROVE  Held(m + 1)
<1>1. m \in Nat /\ codecsInfo \in Nat
  BY AtHand, ArchiveLibraryAssumption
<1>2. inArchive = OnStack /\ openCallback = 1
  BY DEF Opens, References
<1>3. Adopt(m) = m + 1
  <2>1. OnStack \in Nat
    BY DEF OnStack
  <2> QED BY <1>1, <1>2, <2>1 DEF Adopt
<1>4. Keeps(m + 1) /\ openCallback' = 0
  BY <1>2, <1>3 DEF Opens
<1>5. m + 1 # 0
  BY <1>1
<1> QED BY <1>4, <1>5 DEF Keeps, Held, CodecsInfoGone

(* Deleting the items and the archive gives back what they hold.           *)
LEMMA Deleted ==
  ASSUME TypeOK, References, DeleteArchive
  PROVE  Held(0) /\ decoders' = {}
<1>1. inArchive = 1 + items /\ openCallback = 0 /\ items \in Nat
  BY AtHand DEF DeleteArchive, References
<1>2. inArchive - items - 1 = 0
  BY <1>1
<1>3. Keeps(0)
  BY <1>2 DEF DeleteArchive
<1> QED BY <1>1, <1>3 DEF DeleteArchive, Keeps, Held, CodecsInfoGone

(* A codec info on the list is of a loaded object, and stands for one      *)
(* method of it.                                                           *)
LEMMA Listed ==
  ASSUME TypeOK, NEW c \in CodecInfoArray
  PROVE  /\ c.object \in Loaders /\ c.object \in Dll
         /\ GetProperty(c) = Offer(c.object).coders[c.Decoder].id
         /\ GetProperty(c) \in Methods
<1>1. PICK d \in Loaders : c \in CodecsOf(d)
  BY DEF CodecInfoArray
<1>2. c \in LoadCodecs(d)
  BY <1>1 DEF CodecsOf
<1>3. PICK i \in DOMAIN Offer(d).coders : c.object = d /\ c.CodecIndex = i /\ c.Decoder = i
  BY <1>2 DEF LoadCodecs, ReadableCoders
<1>4. d \in Dll
  BY DEF Loaders, TypeOK
<1>5. Offer(d).coders[i].id \in Methods
  BY <1>3, <1>4, ArchiveLibraryAssumption DEF Offer, TypeOK
<1> QED BY <1>3, <1>4, <1>5 DEF GetProperty

(* A refused or failed attempt gives back all that it made.                *)
LEMMA GivenUp ==
  ASSUME TypeOK, References, OpenFails
  PROVE  Held(0) /\ decoders' = {}
<1>1. inArchive = OnStack /\ openCallback = 1 /\ OnStack \in Nat
  BY DEF OpenFails, References, OnStack
<1>2. inArchive - OnStack = 0
  BY <1>1
<1>3. Keeps(0)
  BY <1>2 DEF OpenFails
<1> QED BY <1>1, <1>3 DEF OpenFails, Keeps, Held, CodecsInfoGone

(* Every list goes with the archive that holds it.                         *)
LEMMA ListsKept ==
  ASSUME TypeOK, References, NEW n \in Nat, Held(n)
  PROVE  /\ {inArchive', wrap', codecsInfo', lists', openCallback'} \subseteq Nat
         /\ codecsInfo' \in {0, 1} /\ codecsInfo' <= lists'
         /\ installation.codecs # "declined" => lists' = codecsInfo'
<1>1. /\ codecsInfo \in {0, 1} /\ lists \in Nat /\ codecsInfo <= lists
      /\ installation.codecs # "declined" => lists = codecsInfo
  BY AtHand DEF References
<1>2. CASE n = 0
  BY <1>1, <1>2 DEF Held
<1>3. CASE n # 0
  BY <1>1, <1>3 DEF Held
<1> QED BY <1>2, <1>3

(* Every step keeps the invariant.                                         *)
LEMMA LibraryNext == LibraryInv /\ [Next]_vars => LibraryInv'
<1> SUFFICES ASSUME LibraryInv, [Next]_vars PROVE LibraryInv'
  OBVIOUS
<1> USE DEF LibraryInv, world, stream, library, objects, Before7z, Loading
<1>1. CASE OpenStream
  <2>1. TypeOK'
    <3>1. m_nFileSize' \in -(INTS \div 2) .. (INTS \div 2) - 1
      BY <1>1, AtHand, IntStored, MeasuredIsLength DEF OpenStream
    <3>2. position' = 0
      BY <1>1, AtHand, AtStart DEF OpenStream
    <3>3. start' \in Nat
      BY <1>1, AtHand DEF OpenStream
    <3> QED BY <1>1, <3>1, <3>2, <3>3, SMTT(30) DEF OpenStream, TypeOK
  <2>2. HandlersKnown' /\ References' /\ StreamOpen'
    <3>1. position' = 0
      BY <1>1, AtHand, AtStart DEF OpenStream
    <3> QED BY <1>1, <3>1, AtHand DEF OpenStream, HandlersKnown, References, StreamOpen, Loaders
  <2>3. OneLoadPerHandler' /\ DecodersFitMethods'
    BY <1>1 DEF OpenStream, OneLoadPerHandler, HandlersOf, DecodersFitMethods
  <2> QED BY <2>1, <2>2, <2>3
<1>2. CASE OpenStreamFails
  <2>1. TypeOK'
    BY <1>2, AtHand DEF OpenStreamFails, TypeOK
  <2>2. HandlersKnown' /\ References' /\ StreamOpen'
    BY <1>2, AtHand DEF OpenStreamFails, HandlersKnown, References, StreamOpen, Loaders
  <2>3. OneLoadPerHandler' /\ DecodersFitMethods'
    BY <1>2 DEF OpenStreamFails, OneLoadPerHandler, HandlersOf, DecodersFitMethods
  <2> QED BY <2>1, <2>2, <2>3
<1>3. CASE InitializeFails
  <2>1. TypeOK'
    BY <1>3, AtHand DEF InitializeFails, TypeOK
  <2>2. HandlersKnown' /\ References' /\ StreamOpen'
    BY <1>3, AtHand DEF InitializeFails, HandlersKnown, References, StreamOpen, Loaders
  <2>3. OneLoadPerHandler' /\ DecodersFitMethods'
    BY <1>3 DEF InitializeFails, OneLoadPerHandler, HandlersOf, DecodersFitMethods
  <2> QED BY <2>1, <2>2, <2>3
<1>4. CASE Initialize
  <2>1. TypeOK'
    BY <1>4, AtHand, Constructed DEF Initialize, IsInitialized, TypeOK, HandlersKnown
  <2>2. HandlersKnown' /\ References' /\ StreamOpen'
    <3>1. infos' = Len(handlers') /\ Len(handlers') <= scanned' + 1
      BY <1>4, AtHand, Constructed DEF Initialize, HandlersKnown
    <3>2. Loaders \subseteq Loaders'
      BY <1>4 DEF Initialize, Loaders, HandlersKnown
    <3> QED BY <1>4, <3>1, <3>2 DEF Initialize, HandlersKnown, References, StreamOpen
  <2>3. OneLoadPerHandler' /\ DecodersFitMethods'
    BY <1>4, AtHand, Constructed DEF Initialize, DecodersFitMethods, HandlersKnown
  <2> QED BY <2>1, <2>2, <2>3
<1>5. CASE LoadPlugin
  <2>1. TypeOK'
    <3>1. scanned' \in 0 .. Len(installation.plugins)
      BY <1>5, NextPlugin
    <3>2. installation.plugins[scanned + 1] \in Dll
      BY <1>5, NextPlugin
    <3>3. loaded' \in [Dll -> Nat] /\ handlers' \in Seq(Dll) /\ infos' \in Nat
      BY <1>5, <3>2, Constructed DEF LoadPlugin, HandlersKnown
    <3> QED BY <1>5, <3>1, <3>3 DEF LoadPlugin, TypeOK
  <2>2. HandlersKnown' /\ References' /\ StreamOpen'
    <3>1. installation.plugins[scanned + 1] \in Dll /\ scanned \in Nat
      BY <1>5, NextPlugin
    <3>2. infos' = Len(handlers') /\ Len(handlers') <= Len(handlers) + 1 /\ handlers' \in Seq(Dll)
      BY <1>5, <3>1, Constructed DEF LoadPlugin, HandlersKnown
    <3>3. Len(handlers') <= scanned' + 1
      BY <1>5, <3>1, <3>2, AtHand DEF LoadPlugin, HandlersKnown
    <3>4. step = "scan" /\ step' = step /\ decoders = {} /\ decoders' = {}
      BY <1>5 DEF LoadPlugin, References
    <3> QED BY <1>5, <3>2, <3>3, <3>4 DEF LoadPlugin, HandlersKnown, References, StreamOpen
  <2>3. OneLoadPerHandler' /\ DecodersFitMethods'
    <3>1. installation.plugins[scanned + 1] \in Dll
      BY <1>5, NextPlugin
    <3> QED BY <1>5, <3>1, Constructed DEF LoadPlugin, DecodersFitMethods, HandlersKnown
  <2> QED BY <2>1, <2>2, <2>3
<1>6. CASE Scanned
  <2>1. TypeOK'
    BY <1>6, AtHand DEF Scanned, TypeOK
  <2>2. HandlersKnown' /\ References' /\ StreamOpen'
    BY <1>6, AtHand DEF Scanned, HandlersKnown, References, StreamOpen, Loaders
  <2>3. OneLoadPerHandler' /\ DecodersFitMethods'
    BY <1>6 DEF Scanned, OneLoadPerHandler, HandlersOf, DecodersFitMethods
  <2> QED BY <2>1, <2>2, <2>3
<1>7. CASE NoFormat
  <2>1. TypeOK'
    <3>1. k' \in 1 .. Len(installation.plugins) + 2
      BY <1>7, NextHandler DEF NoFormat
    <3> QED BY <1>7, <3>1 DEF NoFormat, TypeOK
  <2>2. HandlersKnown' /\ References' /\ StreamOpen'
    BY <1>7, AtHand DEF NoFormat, HandlersKnown, References, StreamOpen, Loaders
  <2>3. OneLoadPerHandler' /\ DecodersFitMethods'
    BY <1>7 DEF NoFormat, OneLoadPerHandler, HandlersOf, DecodersFitMethods
  <2> QED BY <2>1, <2>2, <2>3
<1>20. CASE CreateFails
  <2>1. TypeOK'
    <3>1. k' \in 1 .. Len(installation.plugins) + 2
      BY <1>20, NextHandler DEF CreateFails
    <3> QED BY <1>20, <3>1 DEF CreateFails, TypeOK
  <2>2. HandlersKnown' /\ References' /\ StreamOpen'
    BY <1>20, AtHand DEF CreateFails, HandlersKnown, References, StreamOpen, Loaders
  <2>3. OneLoadPerHandler' /\ DecodersFitMethods'
    BY <1>20 DEF CreateFails, OneLoadPerHandler, HandlersOf, DecodersFitMethods
  <2> QED BY <2>1, <2>2, <2>3
<1>8. CASE CreateInArchive
  <2>1. TypeOK'
    <3>1. {inArchive', wrap', codecsInfo', lists', openCallback'} \subseteq Nat
      BY <1>8, AtHand DEF CreateInArchive
    <3>2. {position', start'} \subseteq Nat
      BY <1>8, AtHand DEF CreateInArchive
    <3> QED BY <1>8, <3>1, <3>2 DEF CreateInArchive, TypeOK
  <2>2. HandlersKnown' /\ References' /\ StreamOpen'
    <3>1. /\ inArchive' = OnStack' /\ wrap' = 2 /\ openCallback' = 1 /\ step' = "open"
          /\ installation' = installation
      BY <1>8 DEF CreateInArchive, OnStack
    <3>2. /\ codecsInfo' \in {0, 1} /\ codecsInfo' <= lists'
          /\ installation.codecs # "declined" => lists' = codecsInfo'
      BY <1>8, AtHand DEF CreateInArchive, References
    <3>3. HandlersKnown' /\ StreamOpen'
      BY <1>8, AtHand DEF CreateInArchive, HandlersKnown, StreamOpen
    <3>4. items' = 0 /\ decoders' = {}
      BY <1>8 DEF CreateInArchive, References
    <3> QED BY <3>1, <3>2, <3>3, <3>4 DEF References
  <2>3. OneLoadPerHandler' /\ DecodersFitMethods'
    BY <1>8 DEF CreateInArchive, OneLoadPerHandler, HandlersOf, DecodersFitMethods
  <2> QED BY <2>1, <2>2, <2>3
<1>9. ASSUME NEW size \in 1 .. MaxPosition, StreamRead(size)
      PROVE  LibraryInv'
  <2>1. TypeOK'
    <3>1. size \in Nat
      BY ArchiveLibraryAssumption
    <3>2. position \in Nat /\ file.length \in Nat
      BY AtHand
    <3>3. position' = Read(position, file.length, size)
      BY <1>9 DEF StreamRead
    <3>4. position' \in Nat
      BY <3>1, <3>2, <3>3, StreamMoves
    <3> QED BY <1>9, <3>4, AtHand DEF StreamRead, TypeOK
  <2>2. HandlersKnown' /\ References' /\ StreamOpen'
    BY <1>9, AtHand
    DEF StreamRead, Reading, HandlersKnown, References, OnStack, StreamOpen, Loaders
  <2>3. OneLoadPerHandler' /\ DecodersFitMethods'
    BY <1>9 DEF StreamRead, Reading, OneLoadPerHandler, HandlersOf, DecodersFitMethods
  <2> QED BY <2>1, <2>2, <2>3
<1>10. ASSUME NEW offset \in Offsets, NEW seekOrigin \in {SEEK_SET, SEEK_CUR, SEEK_END},
             StreamSeek(offset, seekOrigin)
      PROVE  LibraryInv'
  <2>1. TypeOK'
    <3>1. offset \in Int
      BY ArchiveLibraryAssumption
    <3>2. position \in Nat /\ file.length \in Nat
      BY AtHand
    <3>3. position' = Seek(position, file.length, offset, seekOrigin)
      BY <1>10 DEF StreamSeek
    <3>4. position' \in Nat
      BY <3>1, <3>2, <3>3, StreamMoves
    <3> QED BY <1>10, <3>4, AtHand DEF StreamSeek, TypeOK
  <2>2. HandlersKnown' /\ References' /\ StreamOpen'
    BY <1>10, AtHand
    DEF StreamSeek, Reading, HandlersKnown, References, OnStack, StreamOpen, Loaders
  <2>3. OneLoadPerHandler' /\ DecodersFitMethods'
    BY <1>10 DEF StreamSeek, Reading, OneLoadPerHandler, HandlersOf, DecodersFitMethods
  <2> QED BY <2>1, <2>2, <2>3
<1>11. CASE OpenFails
  <2>0. Held(0) /\ decoders' = {} /\ 0 \in Nat
    BY <1>11, GivenUp
  <2>1. TypeOK'
    <3>1. k' \in 1 .. Len(installation.plugins) + 2
      BY <1>11, NextHandler DEF OpenFails, HandlersKnown
    <3>2. {inArchive', wrap', codecsInfo', lists', openCallback'} \subseteq Nat
      BY <2>0, ListsKept
    <3> QED BY <1>11, <2>0, <3>1, <3>2, SMTT(30) DEF OpenFails, Held, TypeOK
  <2>2. HandlersKnown' /\ References' /\ StreamOpen'
    <3>1. /\ codecsInfo' \in {0, 1} /\ codecsInfo' <= lists'
          /\ installation.codecs # "declined" => lists' = codecsInfo'
      BY <2>0, ListsKept
    <3> QED BY <1>11, <2>0, <3>1, AtHand
        DEF OpenFails, Held, HandlersKnown, References, StreamOpen
  <2>3. OneLoadPerHandler' /\ DecodersFitMethods'
    BY <1>11 DEF OpenFails, Keeps, OneLoadPerHandler, HandlersOf, DecodersFitMethods
  <2> QED BY <2>1, <2>2, <2>3
<1>12. ASSUME NEW m \in 0 .. MaxItems, Opens(m)
       PROVE  LibraryInv'
  <2>1. TypeOK'
    <3>1. Held(m + 1)
      BY <1>12, Opened
    <3>2. {inArchive', wrap', codecsInfo', lists', openCallback'} \subseteq Nat
      <4>1. m + 1 \in Nat
        BY ArchiveLibraryAssumption
      <4> QED BY <3>1, <4>1, ListsKept
    <3> QED BY <1>12, <3>1, <3>2 DEF Opens, Held, TypeOK
  <2>2. HandlersKnown' /\ References' /\ StreamOpen'
    <3>1. Held(m + 1)
      BY <1>12, Opened
    <3>2. Loaders' = Loaders
      BY <1>12 DEF Opens, Loaders
    <3>3. /\ m + 1 \in Nat
          /\ codecsInfo' \in {0, 1} /\ codecsInfo' <= lists'
          /\ installation.codecs # "declined" => lists' = codecsInfo'
      <4>1. m + 1 \in Nat
        BY ArchiveLibraryAssumption
      <4> QED BY <3>1, <4>1, ListsKept
    <3> QED BY <1>12, <3>1, <3>2, <3>3, AtHand
        DEF Opens, Held, HandlersKnown, References, StreamOpen
  <2>3. OneLoadPerHandler' /\ DecodersFitMethods'
    <3>1. decoders' = decoders
      BY <1>12, Opened DEF Held
    <3> QED BY <1>12, <3>1 DEF Opens, OneLoadPerHandler, HandlersOf, DecodersFitMethods
  <2> QED BY <2>1, <2>2, <2>3
<1>13. CASE NothingOpens
  <2>1. TypeOK'
    BY <1>13, AtHand DEF NothingOpens, TypeOK
  <2>2. HandlersKnown' /\ References' /\ StreamOpen'
    BY <1>13, AtHand DEF NothingOpens, HandlersKnown, References, StreamOpen, Loaders
  <2>3. OneLoadPerHandler' /\ DecodersFitMethods'
    BY <1>13 DEF NothingOpens, OneLoadPerHandler, HandlersOf, DecodersFitMethods
  <2> QED BY <2>1, <2>2, <2>3
<1>14. ASSUME NEW c \in CodecInfoArray, CreateDecoder(c)
       PROVE  LibraryInv'
  <2>1. TypeOK'
    <3>1. decoders' \subseteq [object : Dll, asked : Methods, made : Methods]
      <4>1. /\ c.object \in Dll /\ GetProperty(c) \in Methods
            /\ GetProperty(c) = Offer(c.object).coders[c.Decoder].id
        BY Listed
      <4>2. decoders' = decoders \cup {[object |-> c.object, asked |-> GetProperty(c),
                                        made |-> GetProperty(c)]}
        BY <1>14, <4>1 DEF CreateDecoder
      <4>3. decoders \subseteq [object : Dll, asked : Methods, made : Methods]
        BY DEF TypeOK
      <4> QED BY <4>1, <4>2, <4>3
    <3> QED BY <1>14, <3>1 DEF CreateDecoder, TypeOK
  <2>2. HandlersKnown' /\ References' /\ StreamOpen'
    <3>1. \A d \in decoders' : d.object \in Loaders'
      BY <1>14, Listed DEF CreateDecoder, References, Loaders
    <3> QED BY <1>14, <3>1 DEF CreateDecoder, HandlersKnown, References, StreamOpen
  <2>3. OneLoadPerHandler' /\ DecodersFitMethods'
    BY <1>14, Listed DEF CreateDecoder, OneLoadPerHandler, HandlersOf, DecodersFitMethods
  <2> QED BY <2>1, <2>2, <2>3
<1>15. CASE Destroy
  <2>1. TypeOK'
    BY <1>15, AtHand DEF Destroy, Unmount, TypeOK
  <2>2. HandlersKnown' /\ References' /\ StreamOpen'
    BY <1>15, AtHand DEF Destroy, Unmount, HandlersKnown, References, StreamOpen, Loaders
  <2>3. OneLoadPerHandler' /\ DecodersFitMethods'
    BY <1>15 DEF Destroy, Unmount, OneLoadPerHandler, HandlersOf, DecodersFitMethods
  <2> QED BY <2>1, <2>2, <2>3
<1>16. CASE DeleteArchive
  <2>1. TypeOK'
    <3>1. Held(0) /\ 0 \in Nat
      BY <1>16, Deleted
    <3>2. 0 \in 0 .. MaxItems
      BY ArchiveLibraryAssumption
    <3>3. {inArchive', wrap', codecsInfo', lists', openCallback'} \subseteq Nat
      BY <3>1, ListsKept
    <3> QED BY <1>16, <3>1, <3>2, <3>3 DEF DeleteArchive, Held, TypeOK
  <2>2. HandlersKnown' /\ References' /\ StreamOpen'
    <3>1. Held(0) /\ decoders' = {} /\ 0 \in Nat
      BY <1>16, Deleted
    <3>2. /\ codecsInfo' \in {0, 1} /\ codecsInfo' <= lists'
          /\ installation.codecs # "declined" => lists' = codecsInfo'
      BY <3>1, ListsKept
    <3> QED BY <1>16, <3>1, <3>2
        DEF DeleteArchive, Held, HandlersKnown, References, StreamOpen
  <2>3. OneLoadPerHandler' /\ DecodersFitMethods'
    BY <1>16, Deleted DEF DeleteArchive, OneLoadPerHandler, HandlersOf, DecodersFitMethods
  <2> QED BY <2>1, <2>2, <2>3
<1>17. CASE DeinitializeLibrary
  <2>1. TypeOK'
    <3>1. /\ loaded' \in [Dll -> Nat] /\ handlers' = <<>> /\ m_bInitialized' \in BOOLEAN
          /\ infos' = 0
      BY <1>17, Deinitialized DEF DeinitializeLibrary, HandlersKnown, Loading
    <3>2. UNCHANGED <<world, m_nFileSize, position, start, scanned, k, objects>>
      BY <1>17 DEF DeinitializeLibrary, Deinitialize
    <3>3. open' \in BOOLEAN
      BY <1>17 DEF DeinitializeLibrary, TypeOK
    <3> QED BY <1>17, <3>1, <3>2, <3>3 DEF DeinitializeLibrary, TypeOK
  <2>2. HandlersKnown' /\ References' /\ StreamOpen'
    <3>1. handlers' = <<>> /\ infos' = 0
      BY <1>17, Deinitialized DEF DeinitializeLibrary, HandlersKnown, Loading
    <3>2. UNCHANGED <<world, m_nFileSize, position, start, scanned, k, objects>>
      BY <1>17 DEF DeinitializeLibrary, Deinitialize
    <3>3. scanned \in Nat /\ decoders = {}
      BY <1>17, AtHand DEF DeinitializeLibrary, References, TypeOK
    <3> QED BY <1>17, <3>1, <3>2, <3>3
        DEF DeinitializeLibrary, HandlersKnown, References, StreamOpen
  <2>3. OneLoadPerHandler' /\ DecodersFitMethods'
    BY <1>17, Deinitialized
      DEF DeinitializeLibrary, Deinitialize, DecodersFitMethods, HandlersKnown, Loading
  <2> QED BY <2>1, <2>2, <2>3
<1>18. CASE DestroyMembers
  <2>1. TypeOK'
    <3>1. /\ loaded' \in [Dll -> Nat] /\ handlers' = <<>> /\ m_bInitialized' \in BOOLEAN
          /\ infos' = 0
      BY <1>18, Deinitialized DEF DestroyMembers, HandlersKnown, Loading
    <3>2. UNCHANGED <<world, m_nFileSize, position, start, scanned, k, objects>>
      BY <1>18 DEF DestroyMembers, Deinitialize
    <3>3. open' \in BOOLEAN
      BY <1>18 DEF DestroyMembers, TypeOK
    <3> QED BY <1>18, <3>1, <3>2, <3>3 DEF DestroyMembers, TypeOK
  <2>2. HandlersKnown' /\ References' /\ StreamOpen'
    <3>1. handlers' = <<>> /\ infos' = 0
      BY <1>18, Deinitialized DEF DestroyMembers, HandlersKnown, Loading
    <3>2. UNCHANGED <<world, m_nFileSize, position, start, scanned, k, objects>>
      BY <1>18 DEF DestroyMembers, Deinitialize
    <3>3. scanned \in Nat /\ decoders = {}
      BY <1>18, AtHand DEF DestroyMembers, References, TypeOK
    <3> QED BY <1>18, <3>1, <3>2, <3>3 DEF DestroyMembers, HandlersKnown, References, StreamOpen
  <2>3. OneLoadPerHandler' /\ DecodersFitMethods'
    BY <1>18, Deinitialized
      DEF DestroyMembers, Deinitialize, DecodersFitMethods, HandlersKnown, Loading
  <2> QED BY <2>1, <2>2, <2>3
<1>19. CASE UNCHANGED vars
  <2>1. TypeOK'
    BY <1>19, AtHand DEF vars, TypeOK
  <2>2. HandlersKnown' /\ References' /\ StreamOpen'
    BY <1>19, AtHand DEF vars, HandlersKnown, References, OnStack, StreamOpen, Loaders
  <2>3. OneLoadPerHandler' /\ DecodersFitMethods'
    BY <1>19 DEF vars, OneLoadPerHandler, HandlersOf, DecodersFitMethods
  <2> QED BY <2>1, <2>2, <2>3
<1> QED
  BY <1>1, <1>2, <1>3, <1>4, <1>5, <1>6, <1>7, <1>8, <1>9, <1>10,
     <1>11, <1>12, <1>13, <1>14, <1>15, <1>16, <1>17, <1>18, <1>19, <1>20
  DEF Next, Stopped

(* The invariant at every step.                                            *)
LEMMA LibraryInvariant == Spec => []LibraryInv
BY LibraryInit, LibraryNext, PTL DEF Spec

-----------------------------------------------------------------------------
(* Every variable keeps its type: reference counts and load counts never   *)
(* fall below zero, whatever is installed and whatever is mounted.         *)
THEOREM LibraryTypes == Spec => []TypeOK
<1>1. LibraryInv => TypeOK
  BY DEF LibraryInv
<1> QED BY <1>1, LibraryInvariant, PTL

(* An object is loaded once per handler kept for it.                       *)
THEOREM LoadsPerHandler == Spec => []OneLoadPerHandler
<1>1. LibraryInv => OneLoadPerHandler
  BY DEF LibraryInv
<1> QED BY <1>1, LibraryInvariant, PTL

(* As long as the archive object lives, the stream is open, and loaded are *)
(* the object it is from and those of its decoders and its list of codecs. *)
THEOREM ArchiveHasItsCode == Spec => []CodeStaysLoaded
<1>1. LibraryInv => CodeStaysLoaded
  <2> SUFFICES ASSUME LibraryInv, inArchive > 0 PROVE CodeStaysLoaded
    BY DEF CodeStaysLoaded
  <2> USE DEF LibraryInv
  <2>1. step \in {"open", "mounted", "deleting"}
    BY DEF References
  <2>2. open /\ k <= Len(handlers) /\ infos = Len(handlers)
    BY <2>1 DEF StreamOpen, HandlersKnown
  <2>3. k \in 1 .. Len(handlers)
    <3>1. k \in 1 .. Len(installation.plugins) + 2
      BY DEF TypeOK
    <3> QED BY <2>2, <3>1, AtHand
  <2>4. handlers[k] \in Loaders
    BY <2>3 DEF Loaders
  <2>5. \A d \in Loaders : loaded[d] > 0
    BY LoadersLoaded
  <2>6. \A d \in decoders : loaded[d.object] > 0
    BY <2>5 DEF References
  <2> QED BY <2>2, <2>4, <2>5, <2>6 DEF CodeStaysLoaded
<1> QED BY <1>1, LibraryInvariant, PTL

(* A failed attempt to open the file leaves no object, and the destructor  *)
(* nothing at all, but the lists of codecs that archives declined.         *)
THEOREM LeavesNothing == Spec => []NothingStays
<1>1. LibraryInv => NothingStays
  <2> SUFFICES ASSUME LibraryInv PROVE NothingStays
    OBVIOUS
  <2> USE DEF LibraryInv
  <2>1. step \in {"try", "thrown", "destructor", "gone"} =>
          /\ inArchive = 0 /\ wrap = 0 /\ codecsInfo = 0 /\ openCallback = 0
          /\ installation.codecs # "declined" => lists = 0
    BY DEF References
  <2>2. ASSUME step = "gone" PROVE ~open /\ infos = 0 /\ \A d \in Dll : loaded[d] = 0
    <3>1. handlers = <<>> /\ infos = Len(handlers)
      BY <2>2 DEF HandlersKnown
    <3>2. \A d \in Dll : loaded[d] = 0
      BY <3>1, OneLoad, NoPlaces
    <3>3. ~open
      BY <2>2 DEF StreamOpen
    <3> QED BY <3>1, <3>2, <3>3
  <2> QED BY <2>1, <2>2 DEF NothingStays
<1> QED BY <1>1, LibraryInvariant, PTL

(* A decoder is of the method it was asked for, whatever methods are left  *)
(* out of the list.                                                        *)
THEOREM RightDecoders == Spec => []DecodersFitMethods
<1>1. LibraryInv => DecodersFitMethods
  BY DEF LibraryInv
<1> QED BY <1>1, LibraryInvariant, PTL

(* Handlers learn the true length of every file below the range of int,    *)
(* whatever the width of an int.                                           *)
THEOREM LengthTold == Spec => []SizeTold
<1>1. LibraryInv => SizeTold
  <2> SUFFICES ASSUME LibraryInv PROVE SizeTold
    OBVIOUS
  <2> USE DEF LibraryInv
  <2>1. ASSUME step # "fopen", open, file.length < INTS \div 2
        PROVE  GetSize(m_nFileSize) = file.length
    <3>1. m_nFileSize = Measured(file.length)
      BY <2>1 DEF StreamOpen
    <3> QED BY <2>1, <3>1, AtHand, SizeWidened
  <2>2. step \in {"initialize", "scan"} => position = 0
    BY DEF StreamOpen
  <2> QED BY <2>1, <2>2 DEF SizeTold
<1> QED BY <1>1, LibraryInvariant, PTL

-----------------------------------------------------------------------------
(* What OpenArchive has tried                                              *)

(* OpenArchive may still come to the handlers, or has been through them.   *)
Searching == step \in {"scan", "try", "open"} \/ (step = "thrown" /\ Usable)

(* h has those of the first m objects of ord that are good, in their       *)
(* order: place[j] is where the object behind the j-th stands.             *)
InOrder(h, ord, good, m) ==
  \E place \in [1 .. Len(h) -> 1 .. m] :
    /\ \A j \in 1 .. Len(h) : h[j] = ord[place[j]]
    /\ \A i, j \in 1 .. Len(h) : i < j => place[i] < place[j]
    /\ \A n \in 1 .. m : ord[n] \in good <=> \E j \in 1 .. Len(h) : place[j] = n

Initialized == {d \in Dll : IsInitialized(d)}

(* A handler stands for each initialized object gone through.              *)
HandlersInOrder == Searching => InOrder(handlers, Order, Initialized, scanned + 1)

(* What each object has for the file: a set of one format, or of none if   *)
(* it can make no archive.                                                 *)
Fit == [d \in Dll |-> IF Offer(d).creates THEN Matching(d) ELSE {}]

(* None of the handlers before the j-th has a format for the file.         *)
NoneFits(j) == \A i \in 1 .. j - 1 : Fit[handlers[i]] = {}

FirstFit(j) == Fit[handlers[j]] # {} /\ NoneFits(j)

(* The stream stays at its start until a handler has a format for the      *)
(* file, and the first one that has cannot read it, if it was given up.    *)
Tried ==
  /\ step = "try" /\ NoneFits(k) => position = 0
  /\ step = "open" => Fit[handlers[k]] # {}
  /\ step = "open" /\ NoneFits(k) => start = 0
  /\ Searching /\ step # "scan" => scanned = Len(installation.plugins)
  /\ Searching /\ Usable =>
       \A j \in 1 .. k - 1 : FirstFit(j) => ~ (Fit[handlers[j]] \subseteq file.readBy)
  /\ step = "thrown" /\ Usable => k > Len(handlers)

OpeningInv == HandlersInOrder /\ Tried

(* The objects are those of the installation, 7z.so first.                 *)
LEMMA Ordered ==
  ASSUME TypeOK
  PROVE  /\ Order \in Seq(Dll) /\ Len(Order) = Len(installation.plugins) + 1
         /\ Order[1] = SevenZip
         /\ \A n \in 1 .. Len(installation.plugins) : Order[n + 1] = installation.plugins[n]
<1>1. installation.plugins \in Seq(Dll) /\ SevenZip \in Dll
  BY AtHand
<1> DEFINE p == installation.plugins
<1> HIDE DEF p
<1>2. ASSUME p \in Seq(Dll), SevenZip \in Dll
      PROVE  /\ <<SevenZip>> \o p \in Seq(Dll) /\ Len(<<SevenZip>> \o p) = Len(p) + 1
             /\ (<<SevenZip>> \o p)[1] = SevenZip
             /\ \A n \in 1 .. Len(p) : (<<SevenZip>> \o p)[n + 1] = p[n]
  BY <1>2
<1> QED BY <1>1, <1>2 DEF Order, p

(* A handler more in its place keeps the handlers in order, and so does an *)
(* object passed over.                                                     *)
LEMMA InOrderNext ==
  ASSUME NEW h \in Seq(Dll), NEW ord \in Seq(Dll), NEW good, NEW m \in 1 .. Len(ord),
         InOrder(h, ord, good, m - 1)
  PROVE  InOrder(IF ord[m] \in good THEN Append(h, ord[m]) ELSE h, ord, good, m)
<1> DEFINE n == Len(h)
           d == ord[m]
<1>1. n \in Nat /\ Len(ord) \in Nat /\ m \in Nat /\ m > 0
  OBVIOUS
<1>2. d \in Dll
  BY ElementOfSeq
<1> HIDE DEF n, d
<1>3. PICK old \in [1 .. n -> 1 .. m - 1] :
        /\ \A j \in 1 .. n : h[j] = ord[old[j]]
        /\ \A i, j \in 1 .. n : i < j => old[i] < old[j]
        /\ \A q \in 1 .. m - 1 : ord[q] \in good <=> \E j \in 1 .. n : old[j] = q
  BY DEF InOrder, n
<1>4. ASSUME d \in good PROVE InOrder(Append(h, d), ord, good, m)
  <2> DEFINE new == [j \in 1 .. n + 1 |-> IF j <= n THEN old[j] ELSE m]
             g == Append(h, d)
  <2>1. Len(g) = n + 1 /\ g[n + 1] = d /\ \A j \in 1 .. n : g[j] = h[j]
    BY <1>2, AppendProperties DEF n
  <2>2. new \in [1 .. n + 1 -> 1 .. m] /\ new[n + 1] = m /\ \A j \in 1 .. n : new[j] = old[j]
    BY <1>1
  <2> HIDE DEF new, g
  <2>3. ASSUME NEW j \in 1 .. n + 1 PROVE g[j] = ord[new[j]]
    <3>1. CASE j \in 1 .. n
      BY <1>3, <2>1, <2>2, <3>1
    <3>2. CASE j = n + 1
      BY <2>1, <2>2, <3>2 DEF d
    <3> QED BY <1>1, <3>1, <3>2
  <2>4. ASSUME NEW i \in 1 .. n + 1, NEW j \in 1 .. n + 1, i < j PROVE new[i] < new[j]
    <3>1. i \in 1 .. n /\ new[i] = old[i] /\ old[i] \in 1 .. m - 1
      BY <1>1, <1>3, <2>2, <2>4
    <3>2. CASE j \in 1 .. n
      BY <1>3, <2>2, <2>4, <3>1, <3>2
    <3>3. CASE j = n + 1
      BY <1>1, <2>2, <3>1, <3>3
    <3> QED BY <1>1, <3>2, <3>3
  <2>5. ASSUME NEW q \in 1 .. m
        PROVE  ord[q] \in good <=> \E j \in 1 .. n + 1 : new[j] = q
    <3>1. CASE q \in 1 .. m - 1
      <4>1. ASSUME NEW j \in 1 .. n + 1 PROVE new[j] = q <=> j \in 1 .. n /\ old[j] = q
        BY <1>1, <2>2, <3>1
      <4>2. 1 .. n \subseteq 1 .. n + 1
        BY <1>1
      <4> QED BY <1>3, <3>1, <4>1, <4>2
    <3>2. CASE q = m
      <4>1. n + 1 \in 1 .. n + 1
        BY <1>1
      <4> QED BY <1>4, <2>2, <3>2, <4>1 DEF d
    <3> QED BY <1>1, <3>1, <3>2
  <2>6. InOrder(g, ord, good, m)
    <3>1. Len(g) = n + 1
      BY <2>1
    <3>2. new \in [1 .. Len(g) -> 1 .. m]
      BY <2>2, <3>1
    <3>3. /\ \A j \in 1 .. Len(g) : g[j] = ord[new[j]]
          /\ \A i, j \in 1 .. Len(g) : i < j => new[i] < new[j]
          /\ \A q \in 1 .. m : ord[q] \in good <=> \E j \in 1 .. Len(g) : new[j] = q
      BY <2>3, <2>4, <2>5, <3>1
    <3> QED BY <3>2, <3>3, Zenon DEF InOrder
  <2> QED BY <2>6 DEF g
<1>5. ASSUME d \notin good PROVE InOrder(h, ord, good, m)
  <2>1. old \in [1 .. n -> 1 .. m]
    BY <1>1
  <2>2. ASSUME NEW q \in 1 .. m
        PROVE  ord[q] \in good <=> \E j \in 1 .. n : old[j] = q
    <3>1. CASE q \in 1 .. m - 1
      BY <1>3, <3>1
    <3>2. CASE q = m
      BY <1>1, <1>3, <1>5, <3>2 DEF d
    <3> QED BY <1>1, <3>1, <3>2
  <2> QED BY <1>3, <2>1, <2>2 DEF InOrder, n
<1> QED BY <1>4, <1>5 DEF d

(* Before the first object there is no handler.                            *)
LEMMA InOrderFirst == ASSUME NEW ord, NEW good PROVE InOrder(<<>>, ord, good, 0)
<1>1. Len(<<>>) = 0 /\ 1 .. 0 = {}
  OBVIOUS
<1>2. [j \in 1 .. 0 |-> 0] \in [1 .. 0 -> 1 .. 0]
  BY <1>1
<1> QED BY <1>1, <1>2 DEF InOrder

(* Nothing that the program does changes what is installed or mounted.     *)
LEMMA SameWorld ==
  ASSUME [Next]_vars
  PROVE  /\ installation' = installation /\ file' = file
         /\ Order' = Order /\ Initialized' = Initialized /\ Fit' = Fit
         /\ Usable' <=> Usable
<1>1. installation' = installation /\ file' = file
  BY DEF Next, vars, world, OpenStream, OpenStreamFails, Initialize, InitializeFails,
         LoadPlugin, Scanned, NoFormat, CreateFails, CreateInArchive, StreamRead, StreamSeek, OpenFails,
         Opens, NothingOpens, CreateDecoder, Destroy, DeleteArchive, DeinitializeLibrary,
         DestroyMembers, Deinitialize, Stopped
<1>2. Order' = Order
  BY <1>1 DEF Order
<1>3. Initialized' = Initialized
  BY <1>1 DEF Initialized, IsInitialized, Offer
<1>4. Usable' <=> Usable
  BY <1>1 DEF Usable, Accepted, IsInitialized, Offer
<1>5. Fit' = Fit
  BY <1>1 DEF Fit, Matching, FormatsOf, Offer
<1> QED BY <1>1, <1>2, <1>3, <1>4, <1>5

(* Nothing has been tried at first.                                        *)
LEMMA OpeningInit == Init => OpeningInv
BY DEF Init, OpeningInv, HandlersInOrder, Tried, Searching

(* The handlers stay in order.                                             *)
LEMMA HandlersInOrderNext ==
  ASSUME LibraryInv, HandlersInOrder, [Next]_vars
  PROVE  HandlersInOrder'
<1>1. Order' = Order /\ Initialized' = Initialized /\ (Usable' <=> Usable)
  BY SameWorld
<1>2. TypeOK
  BY DEF LibraryInv
<1>3. /\ Order \in Seq(Dll) /\ Len(Order) = Len(installation.plugins) + 1
      /\ Order[1] = SevenZip
      /\ \A n \in 1 .. Len(installation.plugins) : Order[n + 1] = installation.plugins[n]
      /\ Len(installation.plugins) \in Nat
  BY <1>2, Ordered, AtHand
<1> SUFFICES ASSUME Searching' PROVE InOrder(handlers', Order, Initialized, scanned' + 1)
  BY <1>1 DEF HandlersInOrder
<1>4. CASE Initialize
  <2>1. IsInitialized(SevenZip)
    BY <1>1, <1>4 DEF Initialize, Searching, Usable
  <2>2. handlers = <<>> /\ scanned' = 0 /\ SevenZip \in Dll
    BY <1>2, <1>4, AtHand DEF Initialize, LibraryInv, HandlersKnown, Before7z
  <2>3. handlers' = Append(<<>>, SevenZip) /\ SevenZip \in Initialized
    BY <1>4, <2>1, <2>2 DEF Initialize, Construct, Initialized
  <2>4. 1 \in 1 .. Len(Order) /\ 1 - 1 = 0 /\ 0 + 1 = 1 /\ <<>> \in Seq(Dll)
    BY <1>3
  <2>5. InOrder(<<>>, Order, Initialized, 1 - 1)
    BY <2>4, InOrderFirst
  <2>6. InOrder(Append(<<>>, Order[1]), Order, Initialized, 1)
    BY <1>3, <2>3, <2>4, <2>5, InOrderNext
  <2> QED BY <1>3, <2>2, <2>3, <2>4, <2>6
<1>5. CASE LoadPlugin
  <2> DEFINE m == scanned + 1 + 1
  <2>1. /\ scanned' = scanned + 1 /\ scanned \in Nat /\ scanned < Len(installation.plugins)
        /\ step = "scan"
    BY <1>2, <1>5, NextPlugin DEF LoadPlugin
  <2>2. m \in 1 .. Len(Order) /\ m - 1 = scanned + 1 /\ scanned + 1 \in 1 .. Len(installation.plugins)
    BY <1>3, <2>1
  <2>3. Order[m] = installation.plugins[scanned + 1] /\ Order[m] \in Dll
    BY <1>3, <2>2, SMTT(30)
  <2>4. handlers \in Seq(Dll) /\ InOrder(handlers, Order, Initialized, m - 1)
    BY <1>2, <2>1, <2>2, AtHand DEF HandlersInOrder, Searching
  <2>5. handlers' = IF Order[m] \in Initialized THEN Append(handlers, Order[m]) ELSE handlers
    BY <1>5, <2>3 DEF LoadPlugin, Construct, Initialized
  <2> HIDE DEF m
  <2>6. InOrder(handlers', Order, Initialized, m)
    BY <1>3, <2>2, <2>4, <2>5, InOrderNext
  <2> QED BY <2>1, <2>6 DEF m
<1>6. ASSUME UNCHANGED <<handlers, scanned>>, Searching
      PROVE  InOrder(handlers', Order, Initialized, scanned' + 1)
  BY <1>6 DEF HandlersInOrder
<1>7. CASE Scanned \/ NoFormat \/ CreateFails \/ CreateInArchive \/ OpenFails
  BY <1>6, <1>7
  DEF Scanned, NoFormat, CreateFails, CreateInArchive, OpenFails, Searching, library
<1>8. CASE \E size \in 1 .. MaxPosition : StreamRead(size)
  BY <1>6, <1>8 DEF StreamRead, Reading, Searching, library
<1>9. CASE \E offset \in Offsets, seekOrigin \in {SEEK_SET, SEEK_CUR, SEEK_END} :
             StreamSeek(offset, seekOrigin)
  BY <1>6, <1>9 DEF StreamSeek, Reading, Searching, library
<1>10. CASE NothingOpens
  BY <1>6, <1>10 DEF NothingOpens, Searching, library
<1>11. CASE UNCHANGED vars
  BY <1>1, <1>6, <1>11 DEF vars, Searching, library
<1>12. CASE OpenStream \/ OpenStreamFails \/ InitializeFails
  BY <1>1, <1>12 DEF OpenStream, OpenStreamFails, InitializeFails, Searching, Usable
<1>13. CASE \/ \E n \in 0 .. MaxItems : Opens(n)
            \/ \E c \in CodecInfoArray : CreateDecoder(c)
            \/ Destroy \/ DeleteArchive \/ DeinitializeLibrary \/ DestroyMembers
  BY <1>13 DEF Opens, CreateDecoder, Destroy, Unmount, DeleteArchive, DeinitializeLibrary,
               DestroyMembers, Searching
<1> QED BY <1>4, <1>5, <1>7, <1>8, <1>9, <1>10, <1>11, <1>12, <1>13 DEF Next, Stopped

(* What has been tried stays tried, and the next handler is tried.         *)
LEMMA TriedNext ==
  ASSUME LibraryInv, Tried, [Next]_vars
  PROVE  Tried'
<1>1. /\ installation' = installation /\ file' = file /\ Fit' = Fit
      /\ (Usable' <=> Usable)
  BY SameWorld
<1>2. TypeOK /\ HandlersKnown /\ StreamOpen
  BY DEF LibraryInv
<1>3. k \in Nat /\ k >= 1 /\ Len(handlers) \in Nat /\ handlers \in Seq(Dll)
  <2>1. k \in 1 .. Len(installation.plugins) + 2
    BY <1>2 DEF TypeOK
  <2> QED BY <1>2, <2>1, AtHand
<1>4. k <= Len(handlers) =>
        Fit[handlers[k]] = IF Offer(handlers[k]).creates THEN Matching(handlers[k]) ELSE {}
  <2> SUFFICES ASSUME k <= Len(handlers) PROVE handlers[k] \in Dll
    BY DEF Fit
  <2> QED BY <1>3, ElementOfSeq
<1>5. CASE Initialize \/ LoadPlugin
  <2>1. k' = k /\ k = 1 /\ step' \in {"scan", "thrown"} /\ (step' = "thrown" => ~Usable)
    BY <1>1, <1>2, <1>5
    DEF Initialize, LoadPlugin, Usable, HandlersKnown, Before7z
  <2>2. 1 .. k - 1 = {}
    BY <2>1
  <2> QED BY <1>1, <2>1, <2>2 DEF Tried, Searching
<1>6. CASE Scanned
  <2>1. k = 1 /\ position = 0 /\ scanned = Len(installation.plugins)
    BY <1>2, <1>6 DEF Scanned, HandlersKnown, StreamOpen
  <2>2. step' = "try" /\ UNCHANGED <<position, scanned, k, handlers>> /\ 1 .. k - 1 = {}
    BY <1>6, <2>1 DEF Scanned, stream, library
  <2> QED BY <1>1, <2>1, <2>2 DEF Tried, Searching
<1>7. ASSUME step = "try" \/ step = "open", step' = "try", k' = k + 1, k <= Len(handlers),
             UNCHANGED <<handlers, position, scanned>>,
             NoneFits(k + 1) => position = 0,
             Usable /\ FirstFit(k) => ~ (Fit[handlers[k]] \subseteq file.readBy)
      PROVE  Tried'
  <2>1. \A j \in 1 .. k + 1 - 1 : j \in 1 .. k - 1 \/ j = k
    BY <1>3
  <2>2. ASSUME Usable, NEW j \in 1 .. k + 1 - 1, FirstFit(j)
        PROVE  ~ (Fit[handlers[j]] \subseteq file.readBy)
    <3>1. CASE j \in 1 .. k - 1
      BY <1>7, <2>2, <3>1 DEF Tried, Searching
    <3>2. CASE j = k
      BY <1>7, <2>2, <3>2
    <3> QED BY <2>1, <3>1, <3>2
  <2>3. scanned' = Len(installation.plugins)
    BY <1>7 DEF Tried, Searching
  <2>4. NoneFits(k)' <=> NoneFits(k + 1)
    BY <1>1, <1>7 DEF NoneFits
  <2>5. \A j \in 1 .. k + 1 - 1 : FirstFit(j)' <=> FirstFit(j)
    BY <1>1, <1>7 DEF FirstFit, NoneFits
  <2>6. (\A j \in 1 .. k - 1 : FirstFit(j) => ~ (Fit[handlers[j]] \subseteq file.readBy))'
          \/ ~Usable'
    <3>1. (1 .. k - 1)' = 1 .. k + 1 - 1
      BY <1>3, <1>7
    <3> SUFFICES ASSUME Usable, NEW j \in 1 .. k + 1 - 1, FirstFit(j)'
        PROVE  ~ (Fit[handlers[j]] \subseteq file.readBy)
      BY <1>1, <1>7, <3>1
    <3> QED BY <2>2, <2>5
  <2>7. (NoneFits(k) => position = 0)'
    BY <1>7, <2>4
  <2> QED BY <1>1, <1>7, <2>3, <2>6, <2>7 DEF Tried, Searching
<1>8. CASE NoFormat \/ CreateFails
  <2>1. /\ step = "try" /\ step' = "try" /\ k' = k + 1 /\ k <= Len(handlers)
        /\ UNCHANGED <<handlers, position, scanned>>
        /\ Fit[handlers[k]] = {}
    BY <1>4, <1>8 DEF NoFormat, CreateFails, stream, library
  <2>2. NoneFits(k + 1) => NoneFits(k)
    <3> SUFFICES ASSUME NoneFits(k + 1), NEW i \in 1 .. k - 1 PROVE Fit[handlers[i]] = {}
      BY DEF NoneFits
    <3>1. i \in 1 .. k + 1 - 1
      BY <1>3
    <3> QED BY <1>3, <3>1 DEF NoneFits
  <2>3. NoneFits(k + 1) => position = 0
    BY <2>1, <2>2 DEF Tried
  <2>4. ~ FirstFit(k)
    BY <2>1 DEF FirstFit
  <2> QED BY <1>7, <2>1, <2>3, <2>4
<1>9. CASE OpenFails
  <2>1. /\ step = "open" /\ step' = "try" /\ k' = k + 1 /\ k <= Len(handlers)
        /\ UNCHANGED <<handlers, position, scanned>>
    BY <1>2, <1>9 DEF OpenFails, HandlersKnown, stream
  <2>2. Fit[handlers[k]] # {} /\ k \in 1 .. k + 1 - 1
    BY <1>3, <2>1 DEF Tried
  <2>3. ~ NoneFits(k + 1)
    BY <2>2 DEF NoneFits
  <2>4. ASSUME Usable, FirstFit(k) PROVE ~ (Fit[handlers[k]] \subseteq file.readBy)
    <3>1. start = 0
      BY <2>1, <2>4 DEF Tried, FirstFit
    <3>2. ~ CanOpen
      BY <1>9, <3>1 DEF OpenFails
    <3>3. Fit[handlers[k]] = Matching(handlers[k])
      BY <1>4, <2>1, <2>2
    <3> QED BY <2>4, <3>2, <3>3 DEF CanOpen, Usable
  <2> QED BY <1>7, <2>1, <2>3, <2>4
<1>10. CASE CreateInArchive
  <2>1. /\ step = "try" /\ step' = "open" /\ k' = k /\ start' = position
        /\ UNCHANGED <<handlers, scanned>> /\ Fit[handlers[k]] # {}
    BY <1>4, <1>10 DEF CreateInArchive, library
  <2> QED BY <1>1, <2>1 DEF Tried, Searching, FirstFit, NoneFits
<1>11. CASE \/ \E size \in 1 .. MaxPosition : StreamRead(size)
            \/ \E offset \in Offsets, seekOrigin \in {SEEK_SET, SEEK_CUR, SEEK_END} :
                 StreamSeek(offset, seekOrigin)
  <2>1. step = "open" /\ UNCHANGED <<step, start, handlers, scanned, k>>
    BY <1>11 DEF StreamRead, StreamSeek, Reading, library
  <2> QED BY <1>1, <2>1 DEF Tried, Searching, FirstFit, NoneFits
<1>12. CASE NothingOpens
  <2>1. step = "try" /\ step' = "thrown" /\ k > Len(handlers) /\ UNCHANGED <<handlers, scanned, k>>
    BY <1>12 DEF NothingOpens, library
  <2> QED BY <1>1, <2>1 DEF Tried, Searching, FirstFit, NoneFits
<1>13. CASE UNCHANGED vars
  <2>1. UNCHANGED <<step, position, start, handlers, scanned, k>>
    BY <1>13 DEF vars, stream, library
  <2> QED BY <1>1, <2>1 DEF Tried, Searching, FirstFit, NoneFits
<1>14. CASE OpenStream \/ OpenStreamFails \/ InitializeFails
  BY <1>1, <1>14 DEF OpenStream, OpenStreamFails, InitializeFails, Tried, Searching, Usable
<1>15. CASE \/ \E n \in 0 .. MaxItems : Opens(n)
            \/ \E c \in CodecInfoArray : CreateDecoder(c)
            \/ Destroy \/ DeleteArchive \/ DeinitializeLibrary \/ DestroyMembers
  BY <1>15 DEF Opens, CreateDecoder, Destroy, Unmount, DeleteArchive, DeinitializeLibrary,
               DestroyMembers, Tried, Searching
<1> QED BY <1>5, <1>6, <1>8, <1>9, <1>10, <1>11, <1>12, <1>13, <1>14, <1>15 DEF Next, Stopped

(* The invariant at every step.                                            *)
LEMMA OpeningInvariant == Spec => []OpeningInv
<1>1. LibraryInv /\ OpeningInv /\ [Next]_vars => OpeningInv'
  BY HandlersInOrderNext, TriedNext DEF OpeningInv
<1> QED BY <1>1, OpeningInit, LibraryInvariant, PTL DEF Spec

(* A format that the installation offers, and its extensions.              *)
LEMMA OfferedFormat ==
  ASSUME TypeOK, NEW n \in 1 .. Len(Order), NEW i \in 1 .. NumFormats(Offer(Order[n])),
         Offer(Order[n]).handles
  PROVE  Format(<<n, i>>).exts \in Seq(Character)
<1>1. Order[n] \in Dll
  BY Ordered, ElementOfSeq
<1> DEFINE o == Offer(Order[n])
           F == [name : STRING, readable : BOOLEAN, exts : Seq(Character)]
<1>2. o.formats \in Seq(F) /\ (o.handles /\ ~o.many => o.formats # <<>>)
  BY <1>1, ArchiveLibraryAssumption DEF TypeOK, Offer, Character
<1>3. i \in 1 .. Len(o.formats)
  <2>1. CASE o.many
    BY <2>1 DEF NumFormats
  <2>2. CASE ~o.many
    <3>1. Len(o.formats) \in Nat /\ Len(o.formats) # 0 /\ i = 1
      BY <1>2, <2>2, EmptySeq DEF NumFormats
    <3> QED BY <3>1
  <2> QED BY <2>1, <2>2
<1>4. o.formats[i] \in F
  <2> HIDE DEF o, F
  <2> QED BY <1>2, <1>3, ElementOfSeq
<1>5. Format(<<n, i>>) = o.formats[i]
  BY DEF Format
<1> QED BY <1>4, <1>5

(* The formats of an object that list the extension of the file's name.    *)
Listing(d) == {i \in FormatsOf(d) : Lists(Offer(d).formats[i].exts, GetExt(file.path))}

(* A format that fits the file is one that its object lists the extension  *)
(* for, and the other way round, if the object can make an archive.        *)
LEMMA FittingListed ==
  ASSUME TypeOK, NEW ext \in Extensions(file.path), NEW n \in 1 .. Len(Order), NEW i,
         IsInitialized(Order[n]), Offer(Order[n]).creates
  PROVE  (<<n, i>> \in Offered /\ Names(Format(<<n, i>>).exts, ext)) <=> i \in Listing(Order[n])
<1> DEFINE d == Order[n]
           o == Offer(Order[n])
<1>1. file.path \in Seq(Character) /\ {"7", "z"} \subseteq Character
  BY ArchiveLibraryAssumption DEF TypeOK, Character
<1>2. GetExt(file.path) = ext /\ ext \in Seq(Character)
  BY <1>1, ExtensionTaken, ExtensionType
<1>3. Format(<<n, i>>) = o.formats[i]
  BY DEF Format
<1>4. <<n, i>> \in Offered <=>
        i \in 1 .. NumFormats(o) /\ o.handles /\ o.counts /\ o.formats[i].readable
  <2>1. <<n, i>> \in Offered <=> \E q \in 1 .. Len(Order) :
          /\ <<n, i>> \in {q} \X (1 .. NumFormats(Offer(Order[q])))
          /\ IsInitialized(Order[q]) /\ Offer(Order[q]).handles /\ Offer(Order[q]).counts
          /\ Offer(Order[q]).creates /\ Format(<<n, i>>).readable
    BY DEF Offered
  <2>2. \A q : <<n, i>> \in {q} \X (1 .. NumFormats(Offer(Order[q]))) <=>
          q = n /\ i \in 1 .. NumFormats(Offer(Order[q]))
    OBVIOUS
  <2> QED BY <1>3, <2>1, <2>2
<1>5. i \in FormatsOf(d) <=>
        i \in 1 .. NumFormats(o) /\ o.handles /\ o.counts /\ o.formats[i].readable
  BY DEF FormatsOf, LoadFormats
<1>6. ASSUME i \in FormatsOf(d)
      PROVE  Names(Format(<<n, i>>).exts, ext) <=> Lists(o.formats[i].exts, GetExt(file.path))
  <2>1. Format(<<n, i>>).exts \in Seq(Character)
    BY <1>5, <1>6, OfferedFormat
  <2> QED BY <1>2, <1>3, <2>1, ListsAreNames
<1> QED BY <1>4, <1>5, <1>6 DEF Listing

(* Whatever is installed and mounted, a file that no handler could open is *)
(* one that the first format listing its extension could not read.         *)
THEOREM FirstFittingFormat == Spec => []OpensWhatFits
<1>1. LibraryInv /\ OpeningInv => OpensWhatFits
  <2> SUFFICES ASSUME LibraryInv, OpeningInv, step = "thrown", Usable,
                      NEW ext \in Extensions(file.path),
                      NEW a \in Offered, Names(Format(a).exts, ext),
                      \A b \in Offered : Names(Format(b).exts, ext) => ~ Before(b, a)
               PROVE  Format(a).name \notin file.readBy
    BY DEF OpensWhatFits
  <2>1. TypeOK /\ Len(installation.plugins) \in Nat /\ handlers \in Seq(Dll)
    BY AtHand DEF LibraryInv
  <2>2. Len(Order) = Len(installation.plugins) + 1 /\ Order \in Seq(Dll)
    BY <2>1, Ordered
  <2>3. scanned + 1 = Len(Order) /\ k > Len(handlers)
    BY <2>2 DEF OpeningInv, Tried, Searching
  <2>4. k \in Nat /\ Len(handlers) \in Nat
    BY <2>1, AtHand
  <2>5. PICK place \in [1 .. Len(handlers) -> 1 .. Len(Order)] :
          /\ \A j \in 1 .. Len(handlers) : handlers[j] = Order[place[j]]
          /\ \A i, j \in 1 .. Len(handlers) : i < j => place[i] < place[j]
          /\ \A n \in 1 .. Len(Order) :
               Order[n] \in Initialized <=> \E j \in 1 .. Len(handlers) : place[j] = n
    BY <2>3 DEF OpeningInv, HandlersInOrder, Searching, InOrder
  <2>6. PICK n \in 1 .. Len(Order) :
          /\ a \in {n} \X (1 .. NumFormats(Offer(Order[n])))
          /\ IsInitialized(Order[n]) /\ Offer(Order[n]).creates
    BY DEF Offered
  <2> DEFINE i == a[2]
  <2>7. /\ a = <<n, i>> /\ i \in 1 .. NumFormats(Offer(Order[n]))
        /\ IsInitialized(Order[n]) /\ Offer(Order[n]).creates
    BY <2>6
  <2> HIDE DEF i
  <2>8. \A q \in 1 .. Len(Order) : Order[q] \in Dll
    BY <2>2, ElementOfSeq
  <2>9. PICK j \in 1 .. Len(handlers) : place[j] = n
    BY <2>5, <2>7, <2>8 DEF Initialized
  <2>10. i \in Listing(Order[n])
    BY <2>1, <2>7, FittingListed
  <2>11. ASSUME NEW q \in Listing(Order[n]) PROVE i <= q
    <3>1. <<n, q>> \in Offered /\ Names(Format(<<n, q>>).exts, ext)
      BY <2>1, <2>7, <2>11, FittingListed
    <3>2. ~ Before(<<n, q>>, <<n, i>>)
      BY <2>7, <3>1
    <3>3. ~ (q < i)
      BY <3>2 DEF Before
    <3>4. q \in 1 .. NumFormats(Offer(Order[n]))
      BY <2>11 DEF Listing, FormatsOf, LoadFormats
    <3> QED BY <2>7, <3>3, <3>4
  <2>12. Format(a) = Offer(Order[n]).formats[i]
    BY <2>7 DEF Format
  <2>13. Matching(Order[n]) = {Format(a).name}
    <3> DEFINE fits == Listing(Order[n])
    <3>1. \A q \in fits : q \in Nat
      BY DEF Listing, FormatsOf, LoadFormats
    <3>2. \A q \in fits : (\A r \in fits : q <= r) <=> q = i
      <4> HIDE DEF fits
      <4>1. i \in fits /\ \A q \in fits : i <= q
        BY <2>10, <2>11 DEF fits
      <4> QED BY <3>1, <4>1
    <3>3. Matching(Order[n]) =
            {Offer(Order[n]).formats[q].name : q \in {q \in fits : \A r \in fits : q <= r}}
      BY DEF Matching, Listing
    <3>4. {q \in fits : \A r \in fits : q <= r} = {i}
      BY <2>10, <3>2
    <3> QED BY <2>12, <3>3, <3>4
  <2>14. ASSUME NEW q \in 1 .. j - 1 PROVE Fit[handlers[q]] = {}
    <3>1. q \in 1 .. Len(handlers) /\ q < j
      BY <2>4
    <3>2. place[q] \in 1 .. Len(Order) /\ place[q] < n /\ handlers[q] = Order[place[q]]
      BY <2>5, <2>9, <3>1
    <3>3. IsInitialized(Order[place[q]])
      BY <2>5, <3>1, <3>2 DEF Initialized
    <3>4. ASSUME Offer(Order[place[q]]).creates, NEW r \in Listing(Order[place[q]])
          PROVE  FALSE
      <4>1. <<place[q], r>> \in Offered /\ Names(Format(<<place[q], r>>).exts, ext)
        BY <2>1, <3>2, <3>3, <3>4, FittingListed
      <4>2. ~ Before(<<place[q], r>>, <<n, i>>)
        BY <2>7, <4>1
      <4> QED BY <3>2, <4>2 DEF Before
    <3>5. Offer(Order[place[q]]).creates => Matching(Order[place[q]]) = {}
      BY <3>4 DEF Matching, Listing
    <3> QED BY <2>8, <3>2, <3>5 DEF Fit
  <2>15. handlers[j] = Order[n] /\ Fit[handlers[j]] = {Format(a).name}
    BY <2>5, <2>7, <2>8, <2>9, <2>13 DEF Fit
  <2>16. FirstFit(j)
    BY <2>14, <2>15 DEF FirstFit, NoneFits
  <2>17. j \in 1 .. k - 1
    BY <2>3, <2>4
  <2> QED BY <2>15, <2>16, <2>17 DEF OpeningInv, Tried, Searching
<1> QED BY <1>1, LibraryInvariant, OpeningInvariant, PTL
=============================================================================
