----------------------------- MODULE ItemProofs ------------------------------
(***************************************************************************)
(* What the indexing loop makes of an item: its arithmetic on a FILETIME,  *)
(* for every gain, bias and width, and the names it cuts a path into, for  *)
(* every path.                                                             *)
(***************************************************************************)
EXTENDS ItemProperties, ItemPaths, SequenceProofs

-----------------------------------------------------------------------------
(* Times                                                                   *)

(* The quotient and the remainder of a division by gain make up the number. *)
LEMMA Division ==
  ASSUME NEW n \in Nat
  PROVE  /\ n \div GAIN \in Nat
         /\ n % GAIN \in 0 .. GAIN - 1
         /\ n = GAIN * (n \div GAIN) + (n % GAIN)
<1>1. n % GAIN \in 0 .. GAIN - 1
  BY ItemPropertiesAssumption, Z3
<1>2. n = GAIN * (n \div GAIN) + (n % GAIN)
  BY ItemPropertiesAssumption, Z3
<1>3. n \div GAIN \in Int
  BY ItemPropertiesAssumption, Z3
<1>4. n \div GAIN >= 0
  BY ItemPropertiesAssumption, <1>3, Z3
<1> QED BY <1>1, <1>2, <1>3, <1>4

(* The unsigned subtraction of the bias does not wrap from 1970 on.        *)
LEMMA NoWrap ==
  ASSUME NEW t \in BIAS .. WIDTH - 1
  PROVE  SinceEpoch(t) = t - BIAS
<1>1. t - BIAS \in 0 .. WIDTH - 1
  BY ItemPropertiesAssumption
<1>2. \A n \in 0 .. WIDTH - 1 : n % WIDTH = n
  BY ItemPropertiesAssumption, Z3
<1> QED BY <1>1, <1>2 DEF SinceEpoch

(* A time from 1970 on is kept to the unit: seconds and nanoseconds say    *)
(* exactly the FILETIME the archive has, with nanoseconds below a second.  *)
THEOREM TimesExact ==
  ASSUME NEW t \in BIAS .. WIDTH - 1
  PROVE  Says(Timespec(t), t)
<1> DEFINE n == t - BIAS
           q == n \div GAIN
           r == n % GAIN
<1>1. n \in Nat /\ t # JUNK
  BY ItemPropertiesAssumption
<1>2. Timespec(t) = [sec |-> q, nsec |-> r * NSEC]
  BY <1>1, NoWrap DEF Timespec, Sec, Nsec
<1>3. q \in Nat /\ r \in 0 .. GAIN - 1 /\ n = GAIN * q + r
  BY <1>1, Division
<1> HIDE DEF n, q, r
<1>4. r * NSEC \in 0 .. GAIN * NSEC - 1
  <2>1. \A x, y, z \in Nat : x <= y - 1 /\ z >= 1 => x * z >= 0 /\ x * z <= y * z - 1
    BY Z3
  <2>2. r \in Nat /\ r <= GAIN - 1 /\ GAIN \in Nat /\ NSEC \in Nat /\ NSEC >= 1
    BY <1>3, ItemPropertiesAssumption
  <2>3. r * NSEC >= 0 /\ r * NSEC <= GAIN * NSEC - 1 /\ r * NSEC \in Nat /\ GAIN * NSEC \in Nat
    BY <2>1, <2>2
  <2> QED BY <2>3
<1>5. q * (GAIN * NSEC) + r * NSEC = n * NSEC
  <2>1. \A x, y, z, w \in Nat : x * (y * z) + w * z = (y * x + w) * z
    BY Z3
  <2>2. q \in Nat /\ GAIN \in Nat /\ NSEC \in Nat /\ r \in Nat
    BY <1>3, ItemPropertiesAssumption
  <2> QED BY <1>3, <2>1, <2>2
<1> QED BY <1>2, <1>4, <1>5 DEF Says, n

-----------------------------------------------------------------------------
(* Paths                                                                   *)

String == Seq(Nat)

CutState == [names : Seq(String), name : String]

NoNames == [names |-> <<>>, name |-> <<>>]

(* What one character does to the names before it and the one it is in.    *)
CutStep(c, r) ==
  IF c = SLASH THEN [names |-> Append(r.names, r.name), name |-> <<>>]
  ELSE [names |-> r.names, name |-> Append(r.name, c)]

(* A step leaves names.                                                    *)
LEMMA CutStepType ==
  ASSUME NEW c \in Nat, NEW r \in CutState
  PROVE  CutStep(c, r) \in CutState
<1>1. r.names \in Seq(String) /\ r.name \in Seq(Nat)
  BY DEF CutState, String
<1>2. Append(r.name, c) \in Seq(Nat) /\ <<>> \in Seq(Nat)
  BY <1>1, AppendProperties
<1>3. Append(r.names, r.name) \in Seq(String)
  BY <1>1, AppendProperties DEF String
<1> QED BY <1>1, <1>2, <1>3 DEF CutStep, CutState, String

(* Node::insert goes through the characters of the path one by one.        *)
LEMMA CutEquations ==
  ASSUME NEW path \in String
  PROVE  /\ Cut(path) \in [0 .. Len(path) -> CutState]
         /\ Cut(path)[0] = NoNames
         /\ \A n \in 1 .. Len(path) : Cut(path)[n] = CutStep(path[n], Cut(path)[n - 1])
<1> DEFINE d == [n \in 1 .. Len(path) |-> [r \in CutState |-> CutStep(path[n], r)]]
           Solves(at) == at = [n \in 0 .. Len(path) |->
                                IF n = 0 THEN NoNames ELSE CutStep(path[n], at[n - 1])]
<1>1. Len(path) \in Nat /\ NoNames \in CutState /\ \A n \in 1 .. Len(path) : path[n] \in Nat
  BY ElementOfSeq DEF NoNames, CutState, String
<1>2. d \in [1 .. Len(path) -> [CutState -> CutState]]
  BY <1>1, CutStepType
<1>3. PICK g \in [0 .. Len(path) -> CutState] : Goes(g, NoNames, Len(path), d)
  <2> HIDE DEF d
  <2> QED BY <1>1, <1>2, Iteration
<1>4. \A n \in 1 .. Len(path) : g[n] = CutStep(path[n], g[n - 1])
  <2> SUFFICES ASSUME NEW n \in 1 .. Len(path) PROVE g[n] = CutStep(path[n], g[n - 1])
    OBVIOUS
  <2>1. g[n - 1] \in CutState
    BY <1>1
  <2> QED BY <1>3, <2>1 DEF Goes
<1> HIDE DEF d
<1>5. Solves(g)
  BY <1>3, <1>4 DEF Goes
<1>6. Cut(path) = CHOOSE at : Solves(at)
  BY DEF Cut, CutStep, NoNames
<1> HIDE DEF Solves
<1>7. Solves(Cut(path))
  BY <1>5, <1>6
<1> DEFINE f == Cut(path)
<1> HIDE DEF f
<1>8. f = [n \in 0 .. Len(path) |-> IF n = 0 THEN NoNames ELSE CutStep(path[n], f[n - 1])]
  BY <1>7 DEF Solves, f
<1>9. f[0] = NoNames /\ \A n \in 1 .. Len(path) : f[n] = CutStep(path[n], f[n - 1])
  BY <1>1, <1>8
<1>10. \A n \in 0 .. Len(path) : f[n] \in CutState
  <2> DEFINE S == {n \in 0 .. Len(path) : f[n] \in CutState}
  <2>1. 0 \in S
    BY <1>1, <1>9
  <2>2. ASSUME NEW n \in 0 .. Len(path) - 1, n \in S PROVE n + 1 \in S
    <3>1. n + 1 \in 1 .. Len(path) /\ f[n] \in CutState /\ n + 1 - 1 = n
      BY <1>1, <2>2
    <3>2. f[n + 1] = CutStep(path[n + 1], f[n])
      BY <1>9, <3>1
    <3> QED BY <1>1, <3>1, <3>2, CutStepType
  <2> HIDE DEF S
  <2>3. \A n \in 0 .. Len(path) : n \in S
    BY <1>1, <2>1, <2>2, Induction
  <2> QED BY <2>3 DEF S
<1>11. f \in [0 .. Len(path) -> CutState]
  BY <1>8, <1>10
<1> QED BY <1>9, <1>11 DEF f

(* fullname() of a node is its parent's, a slash and its name.             *)
FullStep(names, n, r) == IF n = 1 THEN names[1] ELSE r \o <<SLASH>> \o names[n]

(* Node::fullname asks the parent for its own.                             *)
LEMMA FullEquations ==
  ASSUME NEW names \in Seq(String)
  PROVE  /\ FullNames(names) \in [0 .. Len(names) -> String]
         /\ FullNames(names)[0] = <<>>
         /\ \A n \in 1 .. Len(names) :
              FullNames(names)[n] = FullStep(names, n, FullNames(names)[n - 1])
<1> DEFINE d == [n \in 1 .. Len(names) |-> [r \in String |-> FullStep(names, n, r)]]
           Solves(full) == full = [n \in 0 .. Len(names) |->
                                    IF n = 0 THEN <<>> ELSE FullStep(names, n, full[n - 1])]
<1>1. /\ Len(names) \in Nat /\ <<>> \in String /\ <<SLASH>> \in String
      /\ \A n \in 1 .. Len(names) : names[n] \in String
  BY ElementOfSeq, ItemPathsAssumption DEF String
<1>2. ASSUME NEW n \in 1 .. Len(names), NEW r \in String PROVE FullStep(names, n, r) \in String
  <2>1. names[n] \in String /\ (n = 1 => names[1] \in String)
    BY <1>1
  <2>2. r \o <<SLASH>> \o names[n] \in String
    BY <1>1, <2>1, ConcatProperties DEF String
  <2> QED BY <2>1, <2>2 DEF FullStep
<1>3. d \in [1 .. Len(names) -> [String -> String]]
  BY <1>2
<1>4. PICK g \in [0 .. Len(names) -> String] : Goes(g, <<>>, Len(names), d)
  <2> HIDE DEF d
  <2> QED BY <1>1, <1>3, Iteration
<1>5. \A n \in 1 .. Len(names) : g[n] = FullStep(names, n, g[n - 1])
  <2> SUFFICES ASSUME NEW n \in 1 .. Len(names) PROVE g[n] = FullStep(names, n, g[n - 1])
    OBVIOUS
  <2>1. g[n - 1] \in String
    BY <1>1
  <2> QED BY <1>4, <2>1 DEF Goes
<1> HIDE DEF d
<1>6. Solves(g)
  BY <1>4, <1>5 DEF Goes
<1>7. FullNames(names) = CHOOSE full : Solves(full)
  BY DEF FullNames, FullStep
<1> HIDE DEF Solves
<1>8. Solves(FullNames(names))
  BY <1>6, <1>7
<1> DEFINE f == FullNames(names)
<1> HIDE DEF f
<1>9. f = [n \in 0 .. Len(names) |-> IF n = 0 THEN <<>> ELSE FullStep(names, n, f[n - 1])]
  BY <1>8 DEF Solves, f
<1>10. f[0] = <<>> /\ \A n \in 1 .. Len(names) : f[n] = FullStep(names, n, f[n - 1])
  BY <1>1, <1>9
<1>11. \A n \in 0 .. Len(names) : f[n] \in String
  <2> DEFINE S == {n \in 0 .. Len(names) : f[n] \in String}
  <2>1. 0 \in S
    BY <1>1, <1>10
  <2>2. ASSUME NEW n \in 0 .. Len(names) - 1, n \in S PROVE n + 1 \in S
    <3>1. n + 1 \in 1 .. Len(names) /\ f[n] \in String /\ n + 1 - 1 = n
      BY <1>1, <2>2
    <3>2. f[n + 1] = FullStep(names, n + 1, f[n])
      BY <1>10, <3>1
    <3> QED BY <1>2, <3>1, <3>2
  <2> HIDE DEF S
  <2>3. \A n \in 0 .. Len(names) : n \in S
    BY <1>1, <2>1, <2>2, Induction
  <2> QED BY <2>3 DEF S
<1>12. f \in [0 .. Len(names) -> String]
  BY <1>9, <1>11
<1> QED BY <1>10, <1>12 DEF f

(* A name more at the end does not change the nodes before it.             *)
LEMMA FullBefore ==
  ASSUME NEW names \in Seq(String), NEW x \in String
  PROVE  \A n \in 0 .. Len(names) : FullNames(Append(names, x))[n] = FullNames(names)[n]
<1> DEFINE more == Append(names, x)
           S == {n \in 0 .. Len(names) : FullNames(more)[n] = FullNames(names)[n]}
<1>1. /\ more \in Seq(String) /\ Len(names) \in Nat /\ Len(more) = Len(names) + 1
      /\ \A n \in 1 .. Len(names) : more[n] = names[n]
  BY AppendProperties, LenProperties
<1> HIDE DEF more
<1>2. 0 \in S
  BY <1>1, FullEquations
<1>3. ASSUME NEW n \in 0 .. Len(names) - 1, n \in S PROVE n + 1 \in S
  <2>1. /\ n + 1 \in 1 .. Len(names) /\ n + 1 \in 1 .. Len(more) /\ n + 1 - 1 = n
        /\ 1 \in 1 .. Len(names) /\ n + 1 \in 0 .. Len(names)
    BY <1>1
  <2>2. FullNames(more)[n + 1] = FullStep(more, n + 1, FullNames(more)[n])
    BY <1>1, <2>1, FullEquations
  <2>3. FullNames(names)[n + 1] = FullStep(names, n + 1, FullNames(names)[n])
    BY <2>1, FullEquations
  <2>4. more[n + 1] = names[n + 1] /\ more[1] = names[1] /\ FullNames(more)[n] = FullNames(names)[n]
    BY <1>1, <1>3, <2>1
  <2> QED BY <2>1, <2>2, <2>3, <2>4 DEF FullStep
<1> HIDE DEF S
<1>4. \A n \in 0 .. Len(names) : n \in S
  BY <1>1, <1>2, <1>3, Induction
<1> QED BY <1>4 DEF S, more

(* fullname() of a node below the one these names lead to.                 *)
LEMMA SpellAppended ==
  ASSUME NEW names \in Seq(String), NEW x \in String
  PROVE  /\ Spell(names) \in String
         /\ Spell(Append(names, x)) = IF names = <<>> THEN x ELSE Spell(names) \o <<SLASH>> \o x
<1> DEFINE more == Append(names, x)
<1>1. /\ more \in Seq(String) /\ Len(names) \in Nat /\ Len(more) = Len(names) + 1
      /\ more[Len(more)] = x
  BY AppendProperties, LenProperties
<1>2. FullNames(more)[Len(names)] = FullNames(names)[Len(names)]
  BY <1>1, FullBefore
<1> HIDE DEF more
<1>3. Spell(more) = FullStep(more, Len(more), Spell(names))
  <2>1. Len(more) \in 1 .. Len(more) /\ Len(more) - 1 = Len(names)
    BY <1>1
  <2>2. FullNames(more)[Len(more)] = FullStep(more, Len(more), FullNames(more)[Len(more) - 1])
    BY <1>1, <2>1, FullEquations
  <2> QED BY <1>2, <2>1, <2>2 DEF Spell
<1>4. names = <<>> <=> Len(more) = 1
  BY <1>1, EmptySeq
<1>5. Spell(names) \in String
  BY <1>1, FullEquations DEF Spell
<1> QED BY <1>1, <1>3, <1>4, <1>5 DEF FullStep, more

(* What Node::insert has cut off so far and the name it is in spell what   *)
(* it has read.                                                            *)
LEMMA CutSpells ==
  ASSUME NEW path \in String
  PROVE  \A n \in 0 .. Len(path) :
           Spell(Append(Cut(path)[n].names, Cut(path)[n].name)) = Ancestor(path, n)
<1> DEFINE Said(r) == Spell(Append(r.names, r.name))
           S == {n \in 0 .. Len(path) : Said(Cut(path)[n]) = Ancestor(path, n)}
<1>1. path \in Seq(Nat) /\ Len(path) \in Nat /\ <<>> \in String /\ <<SLASH>> \in Seq(Nat)
      /\ <<>> \in Seq(String)
  BY LenProperties, EmptySeq, ItemPathsAssumption DEF String
<1>2. 0 \in S
  <2>1. Said(NoNames) = <<>>
    BY <1>1, SpellAppended DEF NoNames
  <2>2. Cut(path)[0] = NoNames /\ Ancestor(path, 0) = <<>>
    BY <1>1, CutEquations, AncestorEnds
  <2> HIDE DEF Said
  <2> QED BY <1>1, <2>1, <2>2
<1>3. ASSUME NEW n \in 0 .. Len(path) - 1, n \in S PROVE n + 1 \in S
  <2> DEFINE r == Cut(path)[n]
             c == path[n + 1]
             read == Ancestor(path, n)
  <2>1. n + 1 \in 1 .. Len(path) /\ n + 1 - 1 = n /\ n \in 0 .. Len(path)
    BY <1>1
  <2>2. c \in Nat /\ read \in Seq(Nat) /\ Ancestor(path, n + 1) = Append(read, c)
    BY <1>1, <2>1, AncestorStep, AncestorIs
  <2>3. r \in CutState /\ Cut(path)[n + 1] = CutStep(c, r)
    BY <2>1, CutEquations
  <2>4. r.names \in Seq(String) /\ r.name \in String /\ r.name \in Seq(Nat)
    BY <2>3 DEF CutState, String
  <2>5. Spell(Append(r.names, r.name)) = read
    BY <1>3
  <2>6. Append(r.names, r.name) \in Seq(String) /\ Append(r.names, r.name) # <<>>
    BY <2>4, AppendProperties, EmptySeq
  <2>7. Append(read, c) = read \o <<c>>
    BY <2>2, AppendIsConcat
  <2> HIDE DEF r, c, read
  <2>8. ASSUME c = SLASH PROVE Said(CutStep(c, r)) = Append(read, c)
    <3>1. CutStep(c, r) = [names |-> Append(r.names, r.name), name |-> <<>>]
      BY <2>8 DEF CutStep
    <3>2. Said(CutStep(c, r)) = Spell(Append(r.names, r.name)) \o <<SLASH>> \o <<>>
      <4> DEFINE names == Append(r.names, r.name)
      <4>1. Said(CutStep(c, r)) = Spell(Append(names, <<>>))
        BY <3>1
      <4>2. names \in Seq(String) /\ names # <<>>
        BY <2>6
      <4> HIDE DEF names
      <4>3. Spell(Append(names, <<>>)) = Spell(names) \o <<SLASH>> \o <<>>
        BY <1>1, <4>2, SpellAppended
      <4> QED BY <4>1, <4>3 DEF names
    <3>3. Said(CutStep(c, r)) = (read \o <<SLASH>>) \o <<>>
      BY <2>5, <3>2
    <3>4. read \o <<SLASH>> \in Seq(Nat)
      BY <1>1, <2>2, ConcatProperties
    <3>5. (read \o <<SLASH>>) \o <<>> = read \o <<SLASH>>
      BY <3>4, ConcatEmptySeq
    <3> QED BY <2>7, <2>8, <3>3, <3>5
  <2>9. ASSUME c # SLASH PROVE Said(CutStep(c, r)) = Append(read, c)
    <3> DEFINE name == Append(r.name, c)
    <3>1. CutStep(c, r) = [names |-> r.names, name |-> name]
      BY <2>9 DEF CutStep
    <3>2. name \in String
      BY <2>2, <2>4, AppendProperties DEF String
    <3> HIDE DEF name
    <3>3. Said(CutStep(c, r)) = Append(read, c)
      <4>1. CASE r.names = <<>>
        <5>1. Spell(Append(r.names, name)) = name
          BY <2>4, <3>2, <4>1, SpellAppended
        <5>2. read = r.name
          BY <2>4, <2>5, <4>1, SpellAppended
        <5> QED BY <3>1, <5>1, <5>2 DEF name
      <4>2. CASE r.names # <<>>
        <5> DEFINE up == Spell(r.names) \o <<SLASH>>
        <5>1. Spell(Append(r.names, name)) = up \o name
          BY <2>4, <3>2, <4>2, SpellAppended
        <5>2. read = up \o r.name
          BY <2>4, <2>5, <4>2, SpellAppended
        <5>3. up \in Seq(Nat)
          <6>1. Spell(r.names) \in Seq(Nat)
            BY <2>4, <1>1, SpellAppended DEF String
          <6> QED BY <1>1, <6>1, ConcatProperties
        <5> HIDE DEF up
        <5>4. name = Append(r.name, c)
          BY DEF name
        <5>5. up \o Append(r.name, c) = Append(up \o r.name, c)
          <6>1. r.name \in Seq(Nat) /\ c \in Nat
            BY <2>2, <2>4
          <6> QED BY <5>3, <6>1, ConcatAppend, SMTT(30)
        <5> QED BY <3>1, <5>1, <5>2, <5>4, <5>5
      <4> QED BY <4>1, <4>2
    <3> QED BY <3>3
  <2>10. Said(CutStep(c, r)) = Append(read, c)
    BY <2>8, <2>9
  <2> HIDE DEF Said
  <2>11. Said(Cut(path)[n + 1]) = Ancestor(path, n + 1)
    BY <2>2, <2>3, <2>10
  <2> QED BY <2>1, <2>11
<1> HIDE DEF S
<1>4. \A n \in 0 .. Len(path) : n \in S
  BY <1>1, <1>2, <1>3, Induction
<1> QED BY <1>4 DEF S

(* The names Node::insert makes of a path, and that fullname() puts        *)
(* together again, are the path: none is lost, none is merged, and those   *)
(* that are empty are kept.                                                *)
THEOREM PathKept ==
  ASSUME NEW path \in String
  PROVE  /\ Components(path) \in Seq(String) \ {<<>>}
         /\ Spell(Components(path)) = path
<1> DEFINE r == Cut(path)[Len(path)]
<1>1. path \in Seq(Nat) /\ Len(path) \in 0 .. Len(path)
  BY LenProperties DEF String
<1>2. r.names \in Seq(String) /\ r.name \in String
  BY <1>1, CutEquations DEF CutState
<1>3. Spell(Append(r.names, r.name)) = Ancestor(path, Len(path))
  BY <1>1, CutSpells
<1>4. Components(path) = Append(r.names, r.name)
  BY DEF Components
<1> HIDE DEF r
<1>5. Append(r.names, r.name) \in Seq(String) /\ Append(r.names, r.name) # <<>>
  BY <1>2, AppendProperties, EmptySeq
<1> QED BY <1>1, <1>3, <1>4, <1>5, AncestorEnds

(* What c_str() shows of a string of chars is one.                         *)
LEMMA CStringType ==
  ASSUME NEW wpath \in String
  PROVE  CString(Narrow(wpath)) \in String
<1> DEFINE path == Narrow(wpath)
           zeros == {i \in 1 .. Len(path) : path[i] = 0}
<1>1. Len(wpath) \in Nat /\ \A i \in 1 .. Len(wpath) : wpath[i] \in Nat
  BY LenProperties, ElementOfSeq DEF String
<1>2. \A c \in Nat : c % BYTE \in Nat
  BY ItemPathsAssumption, Z3
<1>3. path \in Seq(Nat)
  <2>1. \A i \in 1 .. Len(wpath) : wpath[i] % BYTE \in Nat
    BY <1>1, <1>2
  <2> QED BY <1>1, <2>1 DEF Narrow
<1>4. Len(path) \in Nat /\ \A i \in 1 .. Len(path) : path[i] \in Nat
  BY <1>3, LenProperties, ElementOfSeq
<1>5. CString(path) = IF zeros = {} THEN path ELSE SubSeq(path, 1, Min(zeros) - 1)
  BY DEF CString
<1> HIDE DEF path
<1>6. ASSUME zeros # {} PROVE SubSeq(path, 1, Min(zeros) - 1) \in Seq(Nat)
  <2>1. zeros \in SUBSET Nat /\ zeros # {}
    BY <1>4, <1>6
  <2> HIDE DEF zeros
  <2>2. PICK first \in zeros : \A i \in zeros : first <= i
    BY <2>1, Least
  <2>3. Min(zeros) \in zeros
    BY <2>2 DEF Min
  <2>4. Min(zeros) \in 1 .. Len(path)
    BY <2>3 DEF zeros
  <2>5. Min(zeros) - 1 \in Int /\ \A i \in 1 .. Min(zeros) - 1 : path[i] \in Nat
    BY <1>4, <2>4
  <2> QED BY <2>5, SubSeqProperties
<1>7. CString(path) \in Seq(Nat)
  BY <1>3, <1>5, <1>6
<1> QED BY <1>7 DEF path, String

(* A path of chars comes out of the copy to chars and of c_str() as it is. *)
LEMMA PlainUnchanged ==
  ASSUME NEW wpath \in String, Plain(wpath)
  PROVE  CString(Narrow(wpath)) = wpath
<1>1. wpath \in Seq(Nat) /\ Len(wpath) \in Nat /\ wpath \in [1 .. Len(wpath) -> Nat]
  BY LenProperties DEF String
<1>2. ASSUME NEW i \in 1 .. Len(wpath) PROVE wpath[i] % BYTE = wpath[i] /\ wpath[i] # 0
  <2>1. wpath[i] \in 1 .. BYTE - 1 /\ BYTE \in Nat \ {0}
    BY ItemPathsAssumption DEF Plain
  <2>2. \A c \in 1 .. BYTE - 1 : c % BYTE = c
    BY <2>1, Z3
  <2> QED BY <2>1, <2>2
<1>3. Narrow(wpath) = wpath
  BY <1>1, <1>2 DEF Narrow
<1> QED BY <1>2, <1>3 DEF CString
=============================================================================
