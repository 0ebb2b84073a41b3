--------------------------- MODULE ItemExtraction ---------------------------
(***************************************************************************)
(* One call of C7ZipArchiveImpl::Extract as Fuse7z_lib7zip::open makes it, *)
(* seen from the objects it creates: the callback the archive handler of   *)
(* 7z.so calls back, the C7ZipOutStreamWrap it hands out, and the          *)
(* Fuse7zOutStream the bytes end in.  The handler (external) decodes the   *)
(* solid block that holds the item from some earlier item on, asks for a   *)
(* stream for each one, writes in chunks of its choice, and may fail.      *)
(*                                                                         *)
(* COM objects live as long as their count is positive.  Each CMyComPtr    *)
(* and each pointer the handler was given is a variable here.  OpenFiles   *)
(* takes the whole of open() for one step; ImplementsOpenFiles shows what  *)
(* it may.  Bound: nothing follows here on an open() or close() that has   *)
(* thrown; OpenFiles goes on.                                              *)
(***************************************************************************)
EXTENDS Naturals, Sequences

CONSTANTS
  Items,     \* the archive holds the items 1 .. Items
  DataLen,   \* DataLen[i]: how many bytes the decoder produces for item i
  Declared,  \* Declared[i]: st_size, the archive's kpidSize
  VectorMax, \* vector<char>::max_size()
  MaxChunk,  \* most bytes the decoder passes to one Write
  Wrapper,   \* where the heap can place a C7ZipOutStreamWrap
  NULL

Item == 1 .. Items

ASSUME ItemExtractionAssumption ==
  /\ Items \in Nat
  /\ DataLen \in [Item -> Nat]
  /\ VectorMax \in Nat
  /\ Declared \in [Item -> 0 .. VectorMax]  \* OpenFiles has the others
  /\ MaxChunk \in Nat \ {0}
  /\ NULL \notin Wrapper \cup Nat

ASSUME ResultAssumption == NULL \notin {"S_OK", "E_FAIL", "bad_alloc"}

VARIABLES
  step,            \* where open() is: "closed", "asking", "skipping",
                   \* "writing", "extracted", "closing" when the release is
                   \* queued; or it, or close(), has "thrown", or a Write
                   \* "overrun"
  asked,           \* nArchiveIndex, the item open() wants
  current,         \* the item the handler is at
  sent,            \* bytes of it decoded so far
  buffer,          \* Fuse7zOutStream::buffer
  position,        \* Fuse7zOutStream::position
  callback,        \* references to the CArchiveExtractCallback
  _outFileStream,  \* its CMyComPtr to a wrapper, or NULL
  held,            \* the wrapper pointer the handler holds, or NULL
  refs,            \* refs[w]: references counted at w, 0 when w is free
  result           \* the last HRESULT of IInArchive::Extract, or "bad_alloc"
                   \* when it threw; NULL before

vars == <<step, asked, current, sent, buffer, position,
          callback, _outFileStream, held, refs, result>>

Zero == <<0, 0>>

Init ==
  /\ step = "closed"
  /\ asked = NULL
  /\ current = NULL
  /\ sent = 0
  /\ buffer = <<>>
  /\ position = 0
  /\ callback = 0
  /\ _outFileStream = NULL
  /\ held = NULL
  /\ refs = [w \in Wrapper |-> 0]
  /\ result = NULL

AddRef(count, w) == [count EXCEPT ![w] = @ + 1]

(* Release of a CMyComPtr, which may be NULL.                              *)
Drop(count, w) == IF w = NULL THEN count ELSE [count EXCEPT ![w] = @ - 1]

-----------------------------------------------------------------------------
(* open() makes a stream of st_size zeros and a callback, which one        *)
(* CMyComPtr holds; the handler goes to the start of the item's block.     *)
Open(i, first) ==
  /\ step = "closed"
  /\ step' = "asking"
  /\ asked' = i
  /\ current' = first
  /\ sent' = 0
  /\ buffer' = [k \in 1 .. Declared[i] |-> Zero]
  /\ position' = 0
  /\ callback' = 1
  /\ _outFileStream' = NULL
  /\ held' = NULL
  /\ UNCHANGED <<refs, result>>

(* new CArchiveExtractCallback throws: the stream stays as it was made.    *)
OpenNoCallback(i) ==
  /\ step = "closed"
  /\ step' = "thrown"
  /\ asked' = i
  /\ buffer' = [k \in 1 .. Declared[i] |-> Zero]
  /\ result' = "bad_alloc"
  /\ UNCHANGED <<current, sent, position, callback, _outFileStream, held, refs>>

(* Mutant of Wanted: the mode is not looked at.                            *)
WantedAlways == TRUE

(* The handler asks kExtract for the item and kSkip for those before it.   *)
Wanted == current = asked

(* Mutant of HandOut: Detach is left out and the local pointer's Release   *)
(* takes the handler's reference away.                                     *)
HandOutBorrowed(w) == refs' = AddRef(refs, w)

(* One reference for _outFileStream, one for the handler.                  *)
HandOut(w) == refs' = AddRef(AddRef(refs, w), w)

(* GetStream without kExtract: S_OK and no stream.                         *)
GetNoStream ==
  /\ step = "asking"
  /\ current <= asked
  /\ ~Wanted
  /\ step' = "skipping"
  /\ UNCHANGED <<asked, current, sent, buffer, position, callback, _outFileStream, held, refs,
                 result>>

GetStream(w) ==
  /\ step = "asking"
  /\ current <= asked
  /\ Wanted
  /\ refs[w] = 0
  /\ HandOut(w)
  /\ _outFileStream' = w
  /\ held' = w
  /\ step' = "writing"
  /\ UNCHANGED <<asked, current, sent, buffer, position, callback, result>>

(* Mutant of Advance: position += size is missing.                         *)
AdvanceNot(n) == UNCHANGED position

Advance(n) == position' = position + n

(* memcpy of n bytes to &buffer[position]; position += n.                  *)
Write(n) ==
  /\ step = "writing"
  /\ held # NULL
  /\ sent + n <= DataLen[current]
  /\ position + n <= Len(buffer)
  /\ buffer' = [k \in 1 .. Len(buffer) |->
                  IF k \in position + 1 .. position + n
                    THEN <<current, sent + k - position>> ELSE buffer[k]]
  /\ Advance(n)
  /\ sent' = sent + n
  /\ UNCHANGED <<step, asked, current, callback, _outFileStream, held, refs, result>>

(* The same memcpy when it leaves the buffer: from here on anything.       *)
WriteOverruns(n) ==
  /\ step = "writing"
  /\ held # NULL
  /\ sent + n <= DataLen[current]
  /\ position + n > Len(buffer)
  /\ step' = "overrun"
  /\ UNCHANGED <<asked, current, sent, buffer, position, callback, _outFileStream, held, refs,
                 result>>

(* The handler is through with the stream it was given.                    *)
LetGo ==
  /\ step = "writing"
  /\ held # NULL
  /\ refs' = Drop(refs, held)
  /\ held' = NULL
  /\ UNCHANGED <<step, asked, current, sent, buffer, position, callback, _outFileStream, result>>

(* Every result is ignored; the callback gives its wrapper back.  The      *)
(* handler lets go of the stream before or after this call.                *)
SetOperationResult ==
  /\ step \in {"skipping", "writing"}
  /\ refs' = Drop(Drop(refs, held), _outFileStream)
  /\ held' = NULL
  /\ _outFileStream' = NULL
  /\ current' = current + 1
  /\ sent' = 0
  /\ step' = "asking"
  /\ UNCHANGED <<asked, buffer, position, callback, result>>

(* Mutant of CallbackGone: the wrapper pointer is a plain one.             *)
CallbackGonePlain(count) ==
  callback' = 0 /\ _outFileStream' = NULL /\ refs' = count

(* The last reference to the callback goes, and the wrapper with it.       *)
CallbackGone(count) ==
  callback' = 0 /\ _outFileStream' = NULL /\ refs' = Drop(count, _outFileStream)

(* IInArchive::Extract returns: S_OK past the item, an error at any point, *)
(* without the handler's pointer.  Extract's own CMyComPtr then drops the  *)
(* callback, and open() does not look at the result.                       *)
Return(hr) ==
  /\ step \in {"asking", "skipping", "writing"}
  /\ hr = "S_OK" => step = "asking" /\ current > asked
  /\ CallbackGone(Drop(refs, held))
  /\ held' = NULL
  /\ result' = hr
  /\ step' = "extracted"
  /\ UNCHANGED <<asked, current, sent, buffer, position>>

(* new C7ZipOutStreamWrap in GetStream, or the log of Write, throws and    *)
(* the handler lets it through: the pointers of Extract and of the handler *)
(* are destroyed on the way to fuse7z_open.                                *)
Throw ==
  /\ \/ step = "asking" /\ Wanted
     \/ step = "writing" /\ held # NULL
  /\ CallbackGone(Drop(refs, held))
  /\ held' = NULL
  /\ result' = "bad_alloc"
  /\ step' = "thrown"
  /\ UNCHANGED <<asked, current, sent, buffer, position>>

(* The client closes the file; the kernel queues the release.              *)
ClientCloses ==
  /\ step = "extracted"
  /\ step' = "closing"
  /\ UNCHANGED <<asked, current, sent, buffer, position, callback, _outFileStream, held, refs,
                 result>>

(* fuse7z_release: close() deletes the stream.                             *)
Close ==
  /\ step = "closing"
  /\ step' = "closed"
  /\ asked' = NULL
  /\ current' = NULL
  /\ sent' = 0
  /\ buffer' = <<>>
  /\ position' = 0
  /\ UNCHANGED <<callback, _outFileStream, held, refs, result>>

(* The log of close() throws before the delete.                            *)
CloseThrown ==
  /\ step = "closing"
  /\ step' = "thrown"
  /\ UNCHANGED <<asked, current, sent, buffer, position, callback, _outFileStream, held, refs,
                 result>>

Next ==
  \/ \E i \in Item : OpenNoCallback(i) \/ \E first \in 1 .. i : Open(i, first)
  \/ GetNoStream
  \/ \E w \in Wrapper : GetStream(w)
  \/ \E n \in 1 .. MaxChunk : Write(n) \/ WriteOverruns(n)
  \/ LetGo
  \/ SetOperationResult
  \/ \E hr \in {"S_OK", "E_FAIL"} : Return(hr)
  \/ Throw
  \/ ClientCloses \/ Close \/ CloseThrown

Spec == Init /\ [][Next]_vars

-----------------------------------------------------------------------------
(* Properties *)

Byte == (0 .. Items) \X Nat

(* Every variable keeps its type, and position never leaves the stream.    *)
TypeOK ==
  /\ step \in {"closed", "asking", "skipping", "writing", "extracted", "closing",
              "thrown", "overrun"}
  /\ asked \in Item \cup {NULL}
  /\ current \in (1 .. Items + 1) \cup {NULL}
  /\ sent \in Nat
  /\ buffer \in Seq(Byte)
  /\ position \in 0 .. Len(buffer)
  /\ callback \in {0, 1}
  /\ _outFileStream \in Wrapper \cup {NULL}
  /\ held \in Wrapper \cup {NULL}
  /\ refs \in [Wrapper -> Nat]
  /\ result \in {"S_OK", "E_FAIL", "bad_alloc", NULL}

(* What the stream holds is the item's own bytes, each at its place, up to *)
(* position, and zeros behind: nothing of the items that were only skipped *)
(* and no gaps, wherever the handler stops.                                *)
OnlyItsBytes ==
  \A k \in 1 .. Len(buffer) :
    buffer[k] = IF k <= position THEN <<asked, k>> ELSE Zero

(* A declared size at least the true one keeps every Write inside the      *)
(* buffer: Write has no check of its own.                                  *)
StaysInside == step = "overrun" => DataLen[asked] > Declared[asked]

Pointers(w) == (IF _outFileStream = w THEN 1 ELSE 0) + (IF held = w THEN 1 ELSE 0)

(* Each wrapper counts exactly the pointers to it: none is freed while the *)
(* handler or the callback still has it, and none outlives both.           *)
CountsMatch == \A w \in Wrapper : refs[w] = Pointers(w)

(* Once Extract has returned or thrown nothing refers to the stream any    *)
(* more, so that close() may delete it, also when the handler gave up      *)
(* half-way without reporting a result.                                    *)
NobodyKeepsStream ==
  step \in {"closed", "extracted", "closing", "thrown"} =>
    callback = 0 /\ \A w \in Wrapper : refs[w] = 0

(* Does the client have a stream to read from, does the node have one?     *)
Readable == step \in {"extracted", "closing"}
Attached == Readable \/ step = "thrown"

(* What a stream holds, as OpenFiles sees it: the first good bytes are the *)
(* item's, each at its place, and the others zeros; NULL if it is not so.  *)
Contents ==
  LET Fits(good) == \A j \in 1 .. Len(buffer) :
                      buffer[j] = IF j <= good THEN <<asked, j>> ELSE Zero
  IN  IF \E good \in 0 .. Len(buffer) : Fits(good)
      THEN [file |-> asked, len |-> Len(buffer),
            good |-> CHOOSE good \in 0 .. Len(buffer) : Fits(good)]
      ELSE NULL

(* One handle, opened again and again, and the place of one stream.        *)
TheHandle == 1
TheStream == 1

Opened == INSTANCE OpenFiles WITH
  File <- Item, Dir <- {}, Handle <- {TheHandle}, Stream <- {TheStream},
  Size <- Declared, MaxRead <- 1, SharedOpens <- FALSE, LateRelease <- FALSE,
  PastEnd <- FALSE, ResizeMayFail <- FALSE, NewMayFail <- TRUE, ExtractMayFail <- TRUE,
  status <- "mounted",
  buffer <- [i \in Item |-> IF Attached /\ asked = i THEN TheStream ELSE NULL],
  heap <- [t \in {TheStream} |-> IF Attached THEN Contents ELSE NULL],
  fh <- [h \in {TheHandle} |-> IF Readable THEN asked ELSE NULL],
  closing <- IF step = "closing" THEN {TheHandle} ELSE {},
  reply <- IF result = NULL THEN [op |-> "none"]
           ELSE [op |-> "open", handle |-> TheHandle,
                 err |-> IF result = "bad_alloc" THEN "ENOMEM" ELSE "OK"],
  stranded <- IF step = "thrown" THEN {TheStream} ELSE {}

(* open(), with all the calls of the archive handler inside, does what     *)
(* OpenExtracted says: the file is open at once, on a stream of its        *)
(* declared length that holds a beginning of its own bytes and zeros, also *)
(* when the handler fails; close() gives the stream back.  When open()     *)
(* throws that is OpenThrown: the same stream stays on the node, without a *)
(* handle.                                                                 *)
ImplementsOpenFiles == Opened!Init /\ [][Opened!Next]_(Opened!vars)
=============================================================================
