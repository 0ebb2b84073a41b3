------------------------ MODULE ItemExtractionProofs -------------------------
(***************************************************************************)
(* Proofs about ItemExtraction, for every archive, every declared size and *)
(* every choice the archive handler makes.                                 *)
(***************************************************************************)
EXTENDS ItemExtraction, TLAPS

Running == {"asking", "skipping", "writing"}

(* Where the handler is, and what the objects know of it.  The stream is   *)
(* untouched until the handler comes to the item asked for, and in step    *)
(* with the decoder while it is written.                                   *)
Progress ==
  /\ step = "closed" => buffer = <<>> /\ position = 0
  /\ step # "closed" =>
       asked \in Item /\ Len(buffer) = Declared[asked]
  /\ step \in Running => current \in 1 .. Items + 1
  /\ step \in Running /\ current <= asked /\ step # "writing" => position = 0 /\ sent = 0
  /\ step = "skipping" => current < asked
  /\ step \in {"writing", "overrun"} => current = asked /\ sent = position
  /\ step = "overrun" => DataLen[asked] > Declared[asked]

(* Who has a pointer to the wrapper.                                       *)
Ownership ==
  /\ (callback = 1) <=> (step \in Running \cup {"overrun"})
  /\ _outFileStream # NULL => step \in {"writing", "overrun"}
  /\ held # NULL => held = _outFileStream

ExtractionInv == TypeOK /\ OnlyItsBytes /\ CountsMatch /\ Progress /\ Ownership

-----------------------------------------------------------------------------
(* Bytes *)

(* What resize() fills in is a byte.                                       *)
LEMMA ZeroByte == Zero \in Byte
BY ItemExtractionAssumption DEF Zero, Byte

(* Every byte of an item is one.                                           *)
LEMMA ItemByte == \A i \in Item, k \in Nat : <<i, k>> \in Byte
BY ItemExtractionAssumption DEF Item, Byte

-----------------------------------------------------------------------------
(* Counting *)

(* Giving up a pointer uncounts it, whether or not it is NULL.             *)
LEMMA DropCounts ==
  ASSUME NEW count \in [Wrapper -> Nat], NEW p \in Wrapper \cup {NULL},
         p # NULL => count[p] > 0
  PROVE  /\ Drop(count, p) \in [Wrapper -> Nat]
         /\ \A w \in Wrapper : Drop(count, p)[w] = count[w] - (IF p = w THEN 1 ELSE 0)
BY ItemExtractionAssumption DEF Drop

(* Nobody has a pointer: each wrapper is free again.                       *)
LEMMA AllDropped ==
  ASSUME ExtractionInv
  PROVE  Drop(Drop(refs, held), _outFileStream) = [w \in Wrapper |-> 0]
<1> DEFINE rest == Drop(refs, held)
<1>1. \A w \in Wrapper : refs[w] = Pointers(w)
  BY DEF ExtractionInv, CountsMatch
<1>2. /\ refs \in [Wrapper -> Nat]
      /\ held \in Wrapper \cup {NULL}
      /\ _outFileStream \in Wrapper \cup {NULL}
  BY DEF ExtractionInv, TypeOK
<1>3. held # NULL => refs[held] > 0
  BY <1>1, <1>2 DEF Pointers
<1>4. /\ rest \in [Wrapper -> Nat]
      /\ \A w \in Wrapper : rest[w] = IF _outFileStream = w THEN 1 ELSE 0
  BY <1>1, <1>2, <1>3, DropCounts DEF Pointers
<1>5. _outFileStream # NULL => rest[_outFileStream] > 0
  BY <1>2, <1>4
<1>6. /\ Drop(rest, _outFileStream) \in [Wrapper -> Nat]
      /\ \A w \in Wrapper : Drop(rest, _outFileStream)[w] = 0
  BY <1>2, <1>4, <1>5, DropCounts
<1> QED BY <1>6

-----------------------------------------------------------------------------
(* The inductive invariant *)

(* No file is open at first.                                               *)
LEMMA ExtractionInit == Init => ExtractionInv
BY ItemExtractionAssumption
   DEF Init, ExtractionInv, TypeOK, OnlyItsBytes, CountsMatch, Pointers, Progress, Ownership, Running

(* Whatever the handler asks for or writes, wherever it stops, the stream  *)
(* and the references stay in step with it.                                *)
LEMMA ExtractionNext == ExtractionInv /\ [Next]_vars => ExtractionInv'
<1> SUFFICES ASSUME ExtractionInv, [Next]_vars PROVE ExtractionInv'
  OBVIOUS
<1> USE ItemExtractionAssumption DEF ExtractionInv
<1>1. ASSUME NEW i \in Item, NEW first \in 1 .. i, Open(i, first)
      PROVE  ExtractionInv'
  <2>1. buffer' \in Seq(Byte) /\ Len(buffer') = Declared[i]
    <3>1. Declared[i] \in Nat /\ buffer' = [k \in 1 .. Declared[i] |-> Zero]
      BY <1>1 DEF Open
    <3> QED BY <3>1, ZeroByte
  <2>2. TypeOK'
    <3>1. first \in 1 .. Items + 1
      BY DEF Item
    <3>2. 0 \in 0 .. Len(buffer')
      BY <2>1
    <3> QED BY <1>1, <2>1, <3>1, <3>2 DEF Open, TypeOK
  <2>3. OnlyItsBytes'
    BY <1>1, <2>1 DEF Open, OnlyItsBytes
  <2>4. CountsMatch'
    BY <1>1 DEF Open, CountsMatch, Pointers, Ownership, TypeOK, Running
  <2>5. Progress' /\ Ownership'
    BY <1>1, <2>1 DEF Open, Progress, Ownership, Running, Item
  <2> QED BY <2>2, <2>3, <2>4, <2>5
<1>2. CASE GetNoStream
  <2>1. TypeOK' /\ OnlyItsBytes' /\ CountsMatch'
    BY <1>2 DEF GetNoStream, TypeOK, OnlyItsBytes, CountsMatch, Pointers
  <2>2. Progress' /\ Ownership'
    BY <1>2 DEF GetNoStream, Wanted, Progress, Ownership, Running, Item
  <2> QED BY <2>1, <2>2
<1>3. ASSUME NEW w \in Wrapper, GetStream(w)
      PROVE  ExtractionInv'
  <2>1. held = NULL /\ _outFileStream = NULL
    BY <1>3 DEF GetStream, Ownership
  <2>2. refs' \in [Wrapper -> Nat] /\ refs'[w] = 2 /\ \A v \in Wrapper \ {w} : refs'[v] = refs[v]
    BY <1>3 DEF GetStream, HandOut, AddRef, TypeOK
  <2>3. TypeOK' /\ OnlyItsBytes'
    BY <1>3, <2>2 DEF GetStream, TypeOK, OnlyItsBytes
  <2>4. CountsMatch'
    BY <1>3, <2>1, <2>2 DEF GetStream, CountsMatch, Pointers
  <2>5. Progress' /\ Ownership'
    BY <1>3 DEF GetStream, Wanted, Progress, Ownership, Running, Item
  <2> QED BY <2>3, <2>4, <2>5
<1>4. ASSUME NEW n \in 1 .. MaxChunk, Write(n)
      PROVE  ExtractionInv'
  <2>1. /\ current = asked /\ asked \in Item /\ sent = position
        /\ position \in Nat /\ n \in Nat /\ position + n <= Len(buffer)
    BY <1>4 DEF Write, Progress, TypeOK
  <2>2. Len(buffer') = Len(buffer) /\ position' = position + n /\ sent' = position'
    BY <1>4, <2>1 DEF Write, Advance, TypeOK
  <2>3. \A k \in 1 .. Len(buffer) :
          buffer'[k] = IF k <= position' THEN <<asked, k>> ELSE Zero
    BY <1>4, <2>1, <2>2 DEF Write, OnlyItsBytes, TypeOK
  <2>4. buffer' \in Seq(Byte)
    <3>1. \A k \in 1 .. Len(buffer) : buffer'[k] \in Byte
      <4> TAKE k \in 1 .. Len(buffer)
      <4>1. k \in Nat
        BY DEF TypeOK
      <4>2. buffer'[k] = <<asked, k>> \/ buffer'[k] = Zero
        BY <2>3
      <4> QED BY <2>1, <4>1, <4>2, ZeroByte, ItemByte
    <3>2. buffer' = [k \in 1 .. Len(buffer) |-> buffer'[k]] /\ Len(buffer) \in Nat
      BY <1>4 DEF Write, TypeOK
    <3> QED BY <3>1, <3>2
  <2>5. TypeOK'
    BY <1>4, <2>1, <2>2, <2>4 DEF Write, TypeOK
  <2>6. OnlyItsBytes' /\ CountsMatch'
    BY <1>4, <2>2, <2>3 DEF Write, OnlyItsBytes, CountsMatch, Pointers
  <2>7. Progress' /\ Ownership'
    BY <1>4, <2>2 DEF Write, Progress, Ownership, Running
  <2> QED BY <2>5, <2>6, <2>7
<1>5. ASSUME NEW n \in 1 .. MaxChunk, WriteOverruns(n)
      PROVE  ExtractionInv'
  <2>1. TypeOK' /\ OnlyItsBytes' /\ CountsMatch'
    BY <1>5 DEF WriteOverruns, TypeOK, OnlyItsBytes, CountsMatch, Pointers
  <2>2. DataLen[asked] > Declared[asked]
    BY <1>5 DEF WriteOverruns, Progress, TypeOK
  <2>3. Progress' /\ Ownership'
    BY <1>5, <2>2 DEF WriteOverruns, Progress, Ownership, Running
  <2> QED BY <2>1, <2>3
<1>6. CASE LetGo
  <2>1. held \in Wrapper /\ held = _outFileStream /\ refs[held] = 2
    BY <1>6 DEF LetGo, TypeOK, Ownership, CountsMatch, Pointers
  <2>2. /\ refs' \in [Wrapper -> Nat]
        /\ \A w \in Wrapper : refs'[w] = refs[w] - (IF held = w THEN 1 ELSE 0)
    BY <1>6, <2>1, DropCounts, SMTT(30) DEF LetGo, TypeOK
  <2>3. TypeOK' /\ OnlyItsBytes'
    BY <1>6, <2>2 DEF LetGo, TypeOK, OnlyItsBytes
  <2>4. CountsMatch'
    BY <1>6, <2>1, <2>2 DEF LetGo, CountsMatch, Pointers
  <2>5. Progress' /\ Ownership'
    BY <1>6 DEF LetGo, Progress, Ownership, Running
  <2> QED BY <2>3, <2>4, <2>5
<1>7. CASE SetOperationResult
  <2>1. refs' = [w \in Wrapper |-> 0]
    BY <1>7, AllDropped DEF SetOperationResult
  <2>2. current' \in 1 .. Items + 1
    BY <1>7, SMTT(30) DEF SetOperationResult, Progress, Running, Item
  <2>3. TypeOK' /\ OnlyItsBytes'
    BY <1>7, <2>1, <2>2 DEF SetOperationResult, TypeOK, OnlyItsBytes
  <2>4. CountsMatch'
    BY <1>7, <2>1 DEF SetOperationResult, CountsMatch, Pointers
  <2>5. Progress' /\ Ownership'
    BY <1>7, <2>2 DEF SetOperationResult, Progress, Ownership, Running, Item
  <2> QED BY <2>3, <2>4, <2>5
<1>8. ASSUME NEW hr \in {"S_OK", "E_FAIL"}, Return(hr)
      PROVE  ExtractionInv'
  <2>1. refs' = [w \in Wrapper |-> 0]
    BY <1>8, AllDropped DEF Return, CallbackGone
  <2>2. TypeOK' /\ OnlyItsBytes'
    BY <1>8, <2>1 DEF Return, CallbackGone, TypeOK, OnlyItsBytes
  <2>3. CountsMatch'
    BY <1>8, <2>1 DEF Return, CallbackGone, CountsMatch, Pointers
  <2>4. Progress' /\ Ownership'
    BY <1>8 DEF Return, CallbackGone, Progress, Ownership, Running
  <2> QED BY <2>2, <2>3, <2>4
<1>9. ASSUME NEW i \in Item, OpenNoCallback(i)
       PROVE  ExtractionInv'
  <2>1. buffer' \in Seq(Byte) /\ Len(buffer') = Declared[i] /\ position' = 0
    <3>1. Declared[i] \in Nat /\ buffer' = [k \in 1 .. Declared[i] |-> Zero]
      BY <1>9 DEF OpenNoCallback
    <3>2. position = 0
      BY <1>9 DEF OpenNoCallback, Progress
    <3> QED BY <1>9, <3>1, <3>2, ZeroByte DEF OpenNoCallback
  <2>2. TypeOK'
    BY <1>9, <2>1 DEF OpenNoCallback, TypeOK
  <2>3. OnlyItsBytes'
    BY <1>9, <2>1 DEF OpenNoCallback, OnlyItsBytes
  <2>4. CountsMatch'
    BY <1>9 DEF OpenNoCallback, CountsMatch, Pointers
  <2>5. Progress' /\ Ownership'
    BY <1>9, <2>1 DEF OpenNoCallback, Progress, Ownership, Running
  <2> QED BY <2>2, <2>3, <2>4, <2>5
<1>10. CASE Throw
  <2>1. refs' = [w \in Wrapper |-> 0]
    BY <1>10, AllDropped DEF Throw, CallbackGone
  <2>2. TypeOK' /\ OnlyItsBytes'
    BY <1>10, <2>1 DEF Throw, CallbackGone, TypeOK, OnlyItsBytes
  <2>3. CountsMatch'
    BY <1>10, <2>1 DEF Throw, CallbackGone, CountsMatch, Pointers
  <2>4. Progress' /\ Ownership'
    BY <1>10 DEF Throw, CallbackGone, Progress, Ownership, Running
  <2> QED BY <2>2, <2>3, <2>4
<1>11. CASE CloseThrown
  <2>1. TypeOK' /\ OnlyItsBytes' /\ CountsMatch'
    BY <1>11 DEF CloseThrown, TypeOK, OnlyItsBytes, CountsMatch, Pointers
  <2>2. Progress' /\ Ownership'
    BY <1>11 DEF CloseThrown, Progress, Ownership, Running
  <2> QED BY <2>1, <2>2
<1>12. CASE ClientCloses
  <2>1. TypeOK' /\ OnlyItsBytes' /\ CountsMatch'
    BY <1>12 DEF ClientCloses, TypeOK, OnlyItsBytes, CountsMatch, Pointers
  <2>2. Progress' /\ Ownership'
    BY <1>12 DEF ClientCloses, Progress, Ownership, Running
  <2> QED BY <2>1, <2>2
<1>13. CASE Close
  <2>1. held = NULL /\ _outFileStream = NULL
    BY <1>13 DEF Close, Ownership
  <2>2. TypeOK' /\ OnlyItsBytes' /\ CountsMatch'
    BY <1>13 DEF Close, TypeOK, OnlyItsBytes, CountsMatch, Pointers
  <2>3. Progress' /\ Ownership'
    BY <1>13, <2>1 DEF Close, Progress, Ownership, Running
  <2> QED BY <2>2, <2>3
<1>14. CASE UNCHANGED vars
  BY <1>14 DEF vars, TypeOK, OnlyItsBytes, CountsMatch, Pointers, Progress, Ownership, Running
<1> QED BY <1>1, <1>2, <1>3, <1>4, <1>5, <1>6, <1>7, <1>8, <1>12, <1>13, <1>14,
           <1>9, <1>10, <1>11 DEF Next

(* Hence it holds in every reachable state.                                *)
LEMMA ExtractionAlways == Spec => []ExtractionInv
BY ExtractionInit, ExtractionNext, PTL DEF Spec

-----------------------------------------------------------------------------
(* Results *)

(* position never leaves the stream, and nothing loses its type.           *)
THEOREM Typing == Spec => []TypeOK
<1>1. ExtractionInv => TypeOK
  BY DEF ExtractionInv
<1> QED BY <1>1, ExtractionAlways, PTL

(* In the stream open() made there are the item's own bytes, each at its   *)
(* place, and zeros behind them, whichever items the handler decodes on    *)
(* the way, in whatever chunks Write gets them, and wherever it stops.     *)
THEOREM OwnBytes == Spec => []OnlyItsBytes
<1>1. ExtractionInv => OnlyItsBytes
  BY DEF ExtractionInv
<1> QED BY <1>1, ExtractionAlways, PTL

(* Write leaves its buffer only for an item longer than its kpidSize.      *)
THEOREM Inside == Spec => []StaysInside
<1>1. ExtractionInv => StaysInside
  BY DEF ExtractionInv, Progress, StaysInside
<1> QED BY <1>1, ExtractionAlways, PTL

(* The references GetStream, SetOperationResult and the destructors count  *)
(* are the pointers there are.                                             *)
THEOREM Counted == Spec => []CountsMatch
<1>1. ExtractionInv => CountsMatch
  BY DEF ExtractionInv
<1> QED BY <1>1, ExtractionAlways, PTL

(* When Extract has returned or thrown, close() may delete the stream.     *)
THEOREM Deletable == Spec => []NobodyKeepsStream
<1>1. ExtractionInv => NobodyKeepsStream
  <2> SUFFICES ASSUME ExtractionInv, step \in {"closed", "extracted", "closing", "thrown"}
               PROVE  callback = 0 /\ \A w \in Wrapper : refs[w] = 0
    BY DEF NobodyKeepsStream
  <2>1. _outFileStream = NULL /\ held = NULL /\ callback # 1
    BY DEF ExtractionInv, Ownership, Running
  <2> QED BY <2>1, ItemExtractionAssumption
          DEF ExtractionInv, CountsMatch, Pointers, TypeOK
<1> QED BY <1>1, ExtractionAlways, PTL

-----------------------------------------------------------------------------
(* open() implements OpenFiles                                             *)

(* A stream that is in order is what OpenFiles takes it for.               *)
Known ==
  step # "closed" =>
    /\ Contents = [file |-> asked, len |-> Declared[asked], good |-> position]
    /\ position \in 0 .. Declared[asked]

(* ExtractionInv says that it is in order.                                 *)
LEMMA ContentsKnown == ExtractionInv => Known
<1> SUFFICES ASSUME ExtractionInv, step # "closed"
             PROVE  /\ Contents = [file |-> asked, len |-> Declared[asked], good |-> position]
                    /\ position \in 0 .. Declared[asked]
  BY DEF Known
<1> DEFINE Fits(good) == \A j \in 1 .. Len(buffer) :
                           buffer[j] = IF j <= good THEN <<asked, j>> ELSE Zero
<1>1. asked \in Nat \ {0} /\ Len(buffer) = Declared[asked] /\ Len(buffer) \in Nat
  BY ItemExtractionAssumption DEF ExtractionInv, Progress, TypeOK, Item
<1>2. position \in 0 .. Len(buffer) /\ Fits(position)
  BY DEF ExtractionInv, TypeOK, OnlyItsBytes
<1>3. ASSUME NEW good \in 0 .. Len(buffer), Fits(good)
      PROVE  good = position
  <2>1. \A j \in 1 .. Len(buffer) : <<asked, j>> # Zero
    BY <1>1 DEF Zero
  <2>2. CASE good < position
    <3>1. good + 1 \in 1 .. Len(buffer) /\ ~(good + 1 <= good) /\ good + 1 <= position
      BY <1>1, <1>2, <2>2
    <3> QED BY <1>2, <1>3, <2>1, <3>1
  <2>3. CASE position < good
    <3>1. position + 1 \in 1 .. Len(buffer) /\ ~(position + 1 <= position) /\ position + 1 <= good
      BY <1>1, <1>2, <2>3
    <3> QED BY <1>2, <1>3, <2>1, <3>1
  <2> QED BY <1>1, <1>2, <2>2, <2>3
<1>4. (CHOOSE good \in 0 .. Len(buffer) : Fits(good)) = position
  BY <1>2, <1>3
<1> HIDE DEF Fits
<1>5. Contents = [file |-> asked, len |-> Len(buffer), good |-> position]
  BY <1>2, <1>4 DEF Contents, Fits
<1> QED BY <1>1, <1>2, <1>5

(* The steps in which the client has no stream are none of OpenFiles.      *)
LEMMA UnseenSteps ==
  ASSUME step \notin {"extracted", "closing", "thrown"},
         step' \notin {"extracted", "closing", "thrown"},
         result' = result
  PROVE  UNCHANGED Opened!vars
BY DEF Opened!vars, Readable, Attached

(* Extract returns: the file is open.                                      *)
LEMMA ReturnOpens ==
  ASSUME ExtractionInv, Known', NEW hr \in {"S_OK", "E_FAIL"}, Return(hr),
         NEW f \in Item, f = asked, NEW good \in Nat, good = position
  PROVE  Opened!OpenExtracted(TheHandle, f, TheStream, good)
<1>1. /\ step \in Running /\ step' = "extracted" /\ asked' = asked /\ position' = position
      /\ asked \in Item /\ result' = hr
  BY DEF Return, ExtractionInv, Progress, Running
<1>2. Contents' = [file |-> asked, len |-> Declared[asked], good |-> good]
  BY <1>1 DEF Known
<1>3. hr \notin {NULL, "bad_alloc"} /\ asked # NULL
  BY <1>1, ItemExtractionAssumption, ResultAssumption DEF Item
<1>4. /\ ~Readable /\ Readable' /\ ~Attached /\ Attached'
      /\ step \notin {"closing", "thrown"} /\ step' \notin {"closing", "thrown"}
  BY <1>1 DEF Readable, Attached, Running
<1>5. Opened!Request(TheHandle, f)
  BY <1>3, <1>4 DEF Opened!Request, TheHandle
<1>6. Declared[f] <= VectorMax
  BY <1>1, ItemExtractionAssumption
<1>7. Opened!SetBuffer(f, TheStream, Declared[f], good)
  BY <1>1, <1>2, <1>4 DEF Opened!SetBuffer, TheStream
<1>8. [h \in {TheHandle} |-> IF Readable' THEN asked' ELSE NULL]
        = [[h \in {TheHandle} |-> IF Readable THEN asked ELSE NULL] EXCEPT ![TheHandle] = f]
  BY <1>1, <1>4
<1> QED BY <1>1, <1>3, <1>4, <1>5, <1>6, <1>7, <1>8
        DEF Opened!OpenExtracted, Opened!Images!OpenReply

(* The client closes the file.                                             *)
LEMMA ClosingQueues ==
  ASSUME ExtractionInv, ClientCloses
  PROVE  Opened!Close(TheHandle)
<1>1. asked \in Item /\ asked # NULL
  BY ItemExtractionAssumption DEF ClientCloses, ExtractionInv, Progress, Item
<1>2. UNCHANGED <<asked, buffer, result>>
  BY DEF ClientCloses
<1>3. /\ Readable /\ Readable' /\ Attached /\ Attached'
      /\ step # "closing" /\ step' = "closing" /\ step # "thrown"
  BY DEF ClientCloses, Readable, Attached
<1>4. Contents' = Contents
  BY <1>2 DEF Contents
<1> QED BY <1>1, <1>2, <1>3, <1>4 DEF Opened!Close, TheHandle

(* The release deletes the stream.                                         *)
LEMMA CloseReleases ==
  ASSUME ExtractionInv, Close
  PROVE  Opened!Release(TheHandle)
<1>1. asked \in Item /\ asked # NULL
  BY ItemExtractionAssumption DEF Close, ExtractionInv, Progress, Item
<1>2. /\ Readable /\ ~Readable' /\ Attached /\ ~Attached'
      /\ step = "closing" /\ step' \notin {"closing", "thrown"} /\ result' = result
  BY DEF Close, Readable, Attached
<1>3. Opened!DropBuffer([h \in {TheHandle} |-> IF Readable THEN asked ELSE NULL][TheHandle])
  <2>1. TheStream # NULL
    BY ItemExtractionAssumption DEF TheStream
  <2>2. Opened!Freed(TheStream) = [t \in {TheStream} |-> NULL]
    BY <2>1 DEF Opened!Freed
  <2>3. [i \in Item |-> IF Attached /\ asked = i THEN TheStream ELSE NULL][asked] = TheStream
    BY <1>1, <1>2
  <2>4. [t \in {TheStream} |-> IF Attached' THEN Contents' ELSE NULL] = [t \in {TheStream} |-> NULL]
    BY <1>2
  <2>5. [i \in Item |-> IF Attached' /\ asked' = i THEN TheStream ELSE NULL]
          = [[i \in Item |-> IF Attached /\ asked = i THEN TheStream ELSE NULL]
               EXCEPT ![asked] = NULL]
    BY <1>1, <1>2
  <2>6. [h \in {TheHandle} |-> IF Readable THEN asked ELSE NULL][TheHandle] = asked
    BY <1>2
  <2> QED BY <2>2, <2>3, <2>4, <2>5, <2>6 DEF Opened!DropBuffer
<1>4. Opened!Dequeue(TheHandle)
  BY <1>2 DEF Opened!Dequeue
<1>5. TheHandle \in (IF step = "closing" THEN {TheHandle} ELSE {})
  BY <1>2
<1>6. (IF result' = NULL THEN [op |-> "none"]
       ELSE [op |-> "open", handle |-> TheHandle,
             err |-> IF result' = "bad_alloc" THEN "ENOMEM" ELSE "OK"])
      = (IF result = NULL THEN [op |-> "none"]
         ELSE [op |-> "open", handle |-> TheHandle,
               err |-> IF result = "bad_alloc" THEN "ENOMEM" ELSE "OK"])
  BY <1>2
<1>7. /\ (IF step = "thrown" THEN {TheStream} ELSE {}) = {}
      /\ (IF step' = "thrown" THEN {TheStream} ELSE {}) = {}
  BY <1>2
<1> QED BY <1>3, <1>4, <1>5, <1>6, <1>7 DEF Opened!Release

(* An open that throws leaves the stream, with what it has got.            *)
LEMMA ThrowStrands ==
  ASSUME Known', step \notin {"extracted", "closing", "thrown"}, step' = "thrown",
         result' = "bad_alloc", asked' \in Item,
         NEW f \in Item, f = asked', NEW good \in Nat, good = position'
  PROVE  Opened!OpenThrown(TheHandle, f, TheStream, good)
<1>1. Contents' = [file |-> f, len |-> Declared[f], good |-> good]
  BY DEF Known
<1>2. "bad_alloc" # NULL /\ f # NULL
  BY ItemExtractionAssumption, ResultAssumption DEF Item
<1>3. ~Readable /\ ~Readable' /\ ~Attached /\ Attached'
  BY DEF Readable, Attached
<1>4. Opened!Request(TheHandle, f)
  BY <1>2, <1>3 DEF Opened!Request, TheHandle
<1>5. Declared[f] <= VectorMax
  BY ItemExtractionAssumption
<1>6. Opened!SetBuffer(f, TheStream, Declared[f], good)
  BY <1>1, <1>3 DEF Opened!SetBuffer, TheStream
<1> QED BY <1>2, <1>3, <1>4, <1>5, <1>6 DEF Opened!OpenThrown, Opened!Images!OpenReply

(* A release that throws leaves the stream and takes the handle away.      *)
LEMMA CloseThrownReleases ==
  ASSUME ExtractionInv, CloseThrown
  PROVE  Opened!Release(TheHandle)
<1>1. asked \in Item
  BY DEF CloseThrown, ExtractionInv, Progress
<1>2. /\ Readable /\ ~Readable' /\ Attached /\ Attached'
      /\ step = "closing" /\ step' = "thrown"
  BY DEF CloseThrown, Readable, Attached
<1>3. UNCHANGED <<asked, buffer, result>> /\ Contents' = Contents
  BY DEF CloseThrown, Contents
<1>4. Opened!CloseThrown(asked)
  BY <1>1, <1>2, <1>3, ItemExtractionAssumption DEF Opened!CloseThrown, TheStream
<1>5. Opened!Dequeue(TheHandle)
  BY <1>2 DEF Opened!Dequeue
<1>6. [h \in {TheHandle} |-> IF Readable THEN asked ELSE NULL][TheHandle] = asked
  BY <1>2
<1> QED BY <1>2, <1>3, <1>4, <1>5, <1>6 DEF Opened!Release

(* Every step is one of OpenFiles or none, and the file is closed first.   *)
THEOREM OpenInOneStep == Spec => ImplementsOpenFiles
<1>1. Init => Opened!Init
  BY DEF Init, Opened!Init, Readable, Attached, Opened!Images!NoReply
<1>2. ASSUME ExtractionInv, Known', [Next]_vars
      PROVE  [Opened!Next]_(Opened!vars)
  <2>1. ASSUME NEW hr \in {"S_OK", "E_FAIL"}, Return(hr)
        PROVE  Opened!Next
    <3>1. asked \in Item /\ position \in 0 .. Declared[asked]
      BY <1>2, <2>1, ContentsKnown DEF Return, ExtractionInv, Progress, Known
    <3>2. PICK f \in Item, good \in Nat : f = asked /\ good = position
      BY <3>1
    <3>3. Opened!OpenExtracted(TheHandle, f, TheStream, good)
      BY <1>2, <2>1, <3>2, ReturnOpens
    <3>4. good \in 0 .. Declared[f] /\ TheHandle \in {TheHandle} /\ TheStream \in {TheStream}
      BY <3>1, <3>2
    <3> QED BY <3>3, <3>4, Zenon DEF Opened!Next
  <2>2. CASE ClientCloses
    BY <1>2, <2>2, ClosingQueues DEF Opened!Next
  <2>3. CASE Close
    BY <1>2, <2>3, CloseReleases DEF Opened!Next
  <2>4. CASE \/ \E i \in Item : \E first \in 1 .. i : Open(i, first)
             \/ GetNoStream
             \/ \E w \in Wrapper : GetStream(w)
             \/ \E n \in 1 .. MaxChunk : Write(n) \/ WriteOverruns(n)
             \/ LetGo
             \/ SetOperationResult
    <3>1. /\ step \notin {"extracted", "closing", "thrown"}
          /\ step' \notin {"extracted", "closing", "thrown"}
          /\ result' = result
      BY <2>4 DEF Open, GetNoStream, GetStream, Write, WriteOverruns, LetGo, SetOperationResult
    <3> QED BY <3>1, UnseenSteps
  <2>5. CASE Throw \/ \E i \in Item : OpenNoCallback(i)
    <3>1. /\ step \notin {"extracted", "closing", "thrown"} /\ step' = "thrown"
          /\ result' = "bad_alloc" /\ asked' \in Item /\ position' \in 0 .. Declared[asked']
      <4>1. CASE Throw
        BY <1>2, <4>1, ContentsKnown DEF Throw, ExtractionInv, Progress, Known
      <4>2. CASE \E i \in Item : OpenNoCallback(i)
        BY <1>2, <4>2, ItemExtractionAssumption
           DEF OpenNoCallback, ExtractionInv, Progress
      <4> QED BY <2>5, <4>1, <4>2
    <3>2. PICK f \in Item, good \in Nat : f = asked' /\ good = position'
      BY <3>1
    <3>3. Opened!OpenThrown(TheHandle, f, TheStream, good)
      BY <1>2, <3>1, <3>2, ThrowStrands
    <3>4. good \in 0 .. Declared[f] /\ TheHandle \in {TheHandle} /\ TheStream \in {TheStream}
      BY <3>1, <3>2
    <3> QED BY <3>3, <3>4, Zenon DEF Opened!Next
  <2>6. CASE CloseThrown
    BY <1>2, <2>6, CloseThrownReleases DEF Opened!Next
  <2>7. CASE UNCHANGED vars
    BY <2>7 DEF vars, Opened!vars, Readable, Attached, Contents
  <2> QED BY <1>2, <2>1, <2>2, <2>3, <2>4, <2>5, <2>6, <2>7 DEF Next
<1>3. Spec => [](ExtractionInv /\ Known)
  BY ExtractionAlways, ContentsKnown, PTL
<1> QED BY <1>1, <1>2, <1>3, PTL DEF Spec, ImplementsOpenFiles
=============================================================================
