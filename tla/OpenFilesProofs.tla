--------------------------- MODULE OpenFilesProofs ---------------------------
(***************************************************************************)
(* Proofs about OpenFiles, for every set of files, sizes, handles and      *)
(* streams.  Safety is the invariant of one inductive formula: the typing, *)
(* the ownership of buffers and the lengths of the streams hold together   *)
(* (a reply is typed because the buffer it is read from is allocated).     *)
(***************************************************************************)
EXTENDS OpenFiles, TLAPS

(* A stream holds the whole file or, when resize failed, nothing; bytes are *)
(* missing from it only where extraction, or a new in it, can fail.        *)
StreamLengths ==
  \A s \in Stream : heap[s] # NULL =>
    /\ heap[s].len \in {0, Size[heap[s].file]}
    /\ ExtractMayFail \/ NewMayFail \/ heap[s].good = heap[s].len

StreamsInv == TypeOK /\ BufferOwnership /\ StreamLengths

-----------------------------------------------------------------------------
(* What an open that assigns node->buffer leaves behind.                   *)
LEMMA SetBufferKeeps ==
  ASSUME StreamsInv,
         NEW f \in File, NEW s \in Stream, NEW len \in {0, Size[f]}, NEW good \in Nat,
         ExtractMayFail \/ NewMayFail \/ good = len,
         SetBuffer(f, s, len, good)
  PROVE  /\ buffer' \in [File -> Stream \cup {NULL}]
         /\ heap' \in [Stream -> Image \cup {NULL}]
         /\ BufferOwnership'
         /\ StreamLengths'
         /\ Allocated' = Allocated \cup {s}
<1> DEFINE new == [file |-> f, len |-> len, good |-> good]
<1>1. new \in Image /\ new # NULL
  BY OpenFilesAssumption DEF Image
<1>2. buffer' \in [File -> Stream \cup {NULL}] /\ heap' \in [Stream -> Image \cup {NULL}]
  BY <1>1 DEF StreamsInv, TypeOK, SetBuffer
<1>3. heap'[s] = new /\ \A t \in Stream \ {s} : heap'[t] = heap[t]
  BY DEF StreamsInv, TypeOK, SetBuffer
<1>4. BufferOwnership'
  <2> SUFFICES ASSUME NEW g \in File, buffer'[g] # NULL
               PROVE  heap'[buffer'[g]] # NULL /\ heap'[buffer'[g]].file = g
    BY DEF BufferOwnership
  <2>1. CASE g = f
    BY <2>1, <1>1, <1>3 DEF StreamsInv, TypeOK, SetBuffer
  <2>2. CASE g # f
    <3>1. buffer'[g] = buffer[g] /\ buffer[g] \in Stream
      BY <2>2 DEF StreamsInv, TypeOK, SetBuffer
    <3>2. heap[buffer[g]] # NULL /\ heap[buffer[g]].file = g
      BY <3>1 DEF StreamsInv, BufferOwnership
    <3>3. buffer[g] # s
      BY <3>2 DEF SetBuffer
    <3> QED BY <3>1, <3>2, <3>3, <1>3
  <2> QED BY <2>1, <2>2
<1>5. StreamLengths'
  BY <1>3 DEF StreamsInv, StreamLengths
<1>6. Allocated' = Allocated \cup {s}
  BY <1>1, <1>3 DEF Allocated
<1> QED BY <1>2, <1>4, <1>5, <1>6

(* A byte answered from a stream is one of the kinds Byte lists.           *)
LEMMA ByteOfTyped ==
  ASSUME NEW f \in File, NEW len \in Nat, NEW good \in Nat, NEW i \in Nat
  PROVE  Images!ByteOf(f, len, good, i) \in Byte
BY DEF Images!ByteOf, Byte

(* The answers to open and read are members of Reply.                      *)
LEMMA OpenReplyTyped ==
  ASSUME NEW h \in Handle, NEW err \in Errno
  PROVE  Images!OpenReply(h, err) \in Reply
BY DEF Images!OpenReply, Reply

(* What a read answers is a sequence of such bytes, so a member of Reply.    *)
LEMMA ReadBytesTyped ==
  ASSUME StreamsInv, NEW h \in Handle, NEW at \in Nat, NEW n \in Nat, ReadBytes(h, at, n)
  PROVE  /\ fh[h] \in File
         /\ buffer[fh[h]] \in Stream
         /\ heap[buffer[fh[h]]] \in Image
         /\ heap[buffer[fh[h]]].file = fh[h]
         /\ reply' \in Reply
<1> DEFINE f == fh[h]
           s == buffer[f]
           bytes == [i \in 1 .. n |->
                       Images!ByteOf(heap[s].file, heap[s].len, heap[s].good, at + i - 1)]
<1>1. f \in File
  BY DEF StreamsInv, TypeOK, ReadBytes, ReadRequest
<1>2. s \in Stream
  BY <1>1 DEF StreamsInv, TypeOK, ReadBytes
<1>3. heap[s] \in Image /\ heap[s].file = f
  BY <1>1, <1>2 DEF StreamsInv, TypeOK, BufferOwnership, ReadBytes
<1>4. \A i \in 1 .. n :
        Images!ByteOf(heap[s].file, heap[s].len, heap[s].good, at + i - 1) \in Byte
  <2> TAKE i \in 1 .. n
  <2>1. at + i - 1 \in Nat
    OBVIOUS
  <2>2. heap[s].file \in File /\ heap[s].len \in Nat /\ heap[s].good \in Nat
    BY <1>3 DEF Image
  <2> QED BY <2>1, <2>2, ByteOfTyped
<1>5. bytes \in Seq(Byte)
  BY <1>4
<1>6. reply' = Images!ReadReply(h, f, at, bytes)
  BY DEF ReadBytes, Copy
<1>7. reply' \in Reply
  BY <1>1, <1>5, <1>6 DEF Images!ReadReply, Reply
<1> QED BY <1>1, <1>2, <1>3, <1>7

-----------------------------------------------------------------------------
(* The inductive invariant *)

(* A mounted file system starts without streams.                            *)
LEMMA StreamsInit == Init => StreamsInv
<1> SUFFICES ASSUME Init PROVE StreamsInv
  OBVIOUS
<1>1. TypeOK
  BY DEF Init, TypeOK, Reply, Allocated
<1>2. BufferOwnership /\ StreamLengths
  BY DEF Init, BufferOwnership, StreamLengths
<1> QED BY <1>1, <1>2 DEF StreamsInv

(* Every handler, and every request of the kernel, keeps node->buffer owned. *)
LEMMA StreamsNext == StreamsInv /\ [Next]_vars => StreamsInv'
<1> SUFFICES ASSUME StreamsInv, [Next]_vars PROVE StreamsInv'
  OBVIOUS
<1> USE DEF StreamsInv
<1>1. ASSUME NEW h \in Handle, NEW node \in Dir \cup {NULL}, OpenRefused(h, node)
      PROVE  StreamsInv'
  <2>1. reply' \in Reply
    BY <1>1, OpenReplyTyped DEF OpenRefused, Errno
  <2> QED BY <1>1, <2>1 DEF OpenRefused, TypeOK, BufferOwnership, StreamLengths, Allocated
<1>2. ASSUME NEW h \in Handle, NEW f \in File, OpenNoMemory(h, f)
      PROVE  StreamsInv'
  <2>1. reply' \in Reply
    BY <1>2, OpenReplyTyped DEF OpenNoMemory, Errno
  <2> QED BY <1>2, <2>1 DEF OpenNoMemory, TypeOK, BufferOwnership, StreamLengths,
                               Allocated
<1>3. ASSUME NEW h \in Handle, NEW f \in File, NEW s \in Stream, OpenNoSpace(h, f, s)
      PROVE  StreamsInv'
  <2>1. reply' \in Reply
    BY <1>3, OpenReplyTyped DEF OpenNoSpace, Errno
  <2>2. SetBuffer(f, s, 0, 0)
    BY <1>3 DEF OpenNoSpace
  <2> QED BY <1>3, <2>1, <2>2, SetBufferKeeps DEF OpenNoSpace, TypeOK
<1>4. ASSUME NEW h \in Handle, NEW f \in File, NEW s \in Stream, OpenTooLong(h, f, s)
      PROVE  StreamsInv'
  <2>1. SetBuffer(f, s, 0, 0)
    BY <1>4 DEF OpenTooLong
  <2> QED BY <1>4, <2>1, SetBufferKeeps DEF OpenTooLong, TypeOK
<1>5. ASSUME NEW h \in Handle, NEW f \in File, NEW s \in Stream, NEW good \in 0 .. Size[f],
              OpenThrown(h, f, s, good)
       PROVE  StreamsInv'
  <2>1. reply' \in Reply
    BY <1>5, OpenReplyTyped DEF OpenThrown, Errno
  <2>2. SetBuffer(f, s, Size[f], good) /\ good \in Nat /\ NewMayFail
    BY <1>5, OpenFilesAssumption DEF OpenThrown
  <2> QED BY <1>5, <2>1, <2>2, SetBufferKeeps DEF OpenThrown, TypeOK
<1>6. ASSUME NEW h \in Handle, NEW f \in File, NEW s \in Stream, NEW good \in 0 .. Size[f],
             OpenExtracted(h, f, s, good)
      PROVE  StreamsInv'
  <2>1. reply' \in Reply
    BY <1>6, OpenReplyTyped DEF OpenExtracted, Errno
  <2>2. SetBuffer(f, s, Size[f], good) /\ (ExtractMayFail \/ good = Size[f])
    BY <1>6 DEF OpenExtracted
  <2>3. good \in Nat
    BY <1>6, OpenFilesAssumption
  <2>4. buffer' \in [File -> Stream \cup {NULL}] /\ heap' \in [Stream -> Image \cup {NULL}]
        /\ BufferOwnership' /\ StreamLengths' /\ Allocated' = Allocated \cup {s}
    BY <2>2, <2>3, SetBufferKeeps
  <2>5. fh' \in [Handle -> File \cup {NULL}] /\ closing' \subseteq {g \in Handle : fh'[g] # NULL}
    BY <1>6, OpenFilesAssumption DEF OpenExtracted, TypeOK
  <2> QED BY <1>6, <2>1, <2>4, <2>5 DEF OpenExtracted, TypeOK
<1>7. ASSUME NEW h \in Handle, NEW n \in 1 .. MaxRead, NEW at \in 0 .. Size[fh[h]],
             fh[h] # NULL, ReadBytes(h, at, n)
      PROVE  StreamsInv'
  <2>1. at \in Nat /\ n \in Nat
    BY <1>7, OpenFilesAssumption DEF TypeOK
  <2>2. reply' \in Reply
    BY <1>7, <2>1, ReadBytesTyped
  <2> QED BY <1>7, <2>2 DEF ReadBytes, TypeOK, BufferOwnership, StreamLengths, Allocated
<1>8. ASSUME NEW h \in Handle, NEW n \in 1 .. MaxRead, NEW at \in 0 .. Size[fh[h]],
             ReadFaults(h, at, n)
      PROVE  StreamsInv'
  BY <1>8 DEF ReadFaults, TypeOK, BufferOwnership, StreamLengths, Allocated
<1>9. ASSUME NEW h \in Handle, NEW n \in 1 .. MaxRead, NEW at \in 0 .. Size[fh[h]],
              ReadNoMemory(h, at, n)
       PROVE  StreamsInv'
  BY <1>9 DEF ReadNoMemory, TypeOK, BufferOwnership, StreamLengths, Allocated
<1>10. ASSUME NEW h \in Handle, Close(h)
      PROVE  StreamsInv'
  BY <1>10 DEF Close, TypeOK, BufferOwnership, StreamLengths, Allocated
<1>11. ASSUME NEW h \in Handle, Release(h), DropBuffer(fh[h]),
             stranded' = stranded \ {buffer[fh[h]]}
      PROVE  StreamsInv'
  <2> DEFINE f == fh[h]
             s == buffer[f]
  <2>1. f \in File /\ s \in Stream \cup {NULL}
    BY <1>11 DEF Release, TypeOK
  <2>2. heap' = IF s = NULL THEN heap ELSE [heap EXCEPT ![s] = NULL]
    BY <1>11 DEF DropBuffer, Freed
  <2>3. Allocated' = Allocated \ {s}
    BY <2>1, <2>2, OpenFilesAssumption DEF Allocated, TypeOK
  <2>4. TypeOK'
    <3>1. buffer' \in [File -> Stream \cup {NULL}] /\ heap' \in [Stream -> Image \cup {NULL}]
      BY <1>11, <2>1 DEF DropBuffer, Freed, TypeOK
    <3>2. /\ fh' \in [Handle -> File \cup {NULL}]
          /\ closing' \subseteq {g \in Handle : fh'[g] # NULL}
      BY <1>11 DEF Release, Dequeue, TypeOK
    <3>3. stranded' \subseteq Allocated'
      BY <1>11, <2>3 DEF TypeOK
    <3> QED BY <1>11, <3>1, <3>2, <3>3 DEF Release, TypeOK
  <2>5. \A t \in Stream : heap'[t] # NULL => heap'[t] = heap[t]
    BY <2>1, <2>2 DEF TypeOK
  <2>6. StreamLengths'
    BY <2>5 DEF StreamLengths
  <2>7. BufferOwnership'
    <3> SUFFICES ASSUME NEW g \in File, buffer'[g] # NULL
                 PROVE  heap'[buffer'[g]] # NULL /\ heap'[buffer'[g]].file = g
      BY DEF BufferOwnership
    <3>1. g # f /\ buffer'[g] = buffer[g] /\ buffer[g] \in Stream
      BY <1>11, <2>1 DEF DropBuffer, TypeOK
    <3>2. heap[buffer[g]] # NULL /\ heap[buffer[g]].file = g
      BY <3>1 DEF BufferOwnership
    <3>3. s # NULL => heap[s].file = f
      BY <2>1 DEF BufferOwnership
    <3>4. buffer[g] # s
      BY <3>1, <3>2, <3>3
    <3>5. heap'[buffer[g]] = heap[buffer[g]]
      BY <2>1, <2>2, <3>1, <3>4 DEF TypeOK
    <3> QED BY <3>1, <3>2, <3>5
  <2> QED BY <2>4, <2>6, <2>7
<1>12. ASSUME NEW h \in Handle, Release(h), CloseThrown(fh[h])
       PROVE  StreamsInv'
  <2>1. UNCHANGED <<status, buffer, heap, reply>> /\ fh[h] \in File
    BY <1>12 DEF Release, CloseThrown, TypeOK
  <2>2. /\ fh' \in [Handle -> File \cup {NULL}]
        /\ closing' \subseteq {g \in Handle : fh'[g] # NULL}
    BY <1>12 DEF Release, Dequeue, TypeOK
  <2>3. {buffer[fh[h]]} \ {NULL} \subseteq Allocated
    BY <2>1 DEF Allocated, BufferOwnership, TypeOK
  <2>4. stranded' \subseteq Allocated'
    BY <1>12, <2>1, <2>3 DEF CloseThrown, TypeOK, Allocated
  <2> QED BY <2>1, <2>2, <2>4 DEF TypeOK, BufferOwnership, StreamLengths
<1>13. ASSUME Destroy
       PROVE  StreamsInv'
  <2>1. TypeOK'
    BY <1>13 DEF Destroy, Orphaned, TypeOK, Allocated
  <2>2. BufferOwnership'
    BY <1>13 DEF Destroy, Orphaned, BufferOwnership
  <2>3. \A t \in Stream : heap'[t] # NULL => heap'[t] = heap[t]
    BY <1>13 DEF Destroy, Orphaned
  <2>4. StreamLengths'
    BY <2>3 DEF StreamLengths
  <2> QED BY <2>1, <2>2, <2>4
<1>14. CASE UNCHANGED vars
  BY <1>14 DEF vars, TypeOK, BufferOwnership, StreamLengths, Allocated
<1>15. ASSUME NEW h \in Handle, Release(h) PROVE StreamsInv'
  BY <1>11, <1>12, <1>15 DEF Release
<1> QED BY <1>1, <1>2, <1>3, <1>4, <1>6, <1>7, <1>8, <1>10, <1>13, <1>14, <1>5, <1>9, <1>15
        DEF Next

(* Hence the streams invariant holds in every reachable state.              *)
LEMMA StreamsAlways == Spec => []StreamsInv
BY StreamsInit, StreamsNext, PTL DEF Spec

(* Every variable keeps its type; a handle waits for release only while open. *)
THEOREM Typing == Spec => []TypeOK
<1>1. StreamsInv => TypeOK
  BY DEF StreamsInv
<1> QED BY <1>1, StreamsAlways, PTL

(* No order of opens and releases makes a node refer to a freed stream or   *)
(* to another node's stream, so close() and ~Node never delete one twice.   *)
THEOREM NoDanglingBuffer == Spec => []BufferOwnership
<1>1. StreamsInv => BufferOwnership
  BY DEF StreamsInv
<1> QED BY <1>1, StreamsAlways, PTL

-----------------------------------------------------------------------------
(* Answers *)

(* A read answers the archived bytes: the stream it copies from belongs to *)
(* the file asked for and has the file's length, since it is not empty.    *)
LEMMA RepliesNext ==
  StreamsInv /\ RepliesFaithful /\ [Next]_vars => RepliesFaithful'
<1> SUFFICES ASSUME StreamsInv, RepliesFaithful, [Next]_vars PROVE RepliesFaithful'
  OBVIOUS
<1>1. ASSUME NEW h \in Handle, NEW err, reply' = Images!OpenReply(h, err)
      PROVE  RepliesFaithful'
  BY <1>1 DEF RepliesFaithful, Images!OpenReply
<1>2. ASSUME NEW h \in Handle, NEW n \in 1 .. MaxRead, NEW at \in 0 .. Size[fh[h]],
             fh[h] # NULL, ReadBytes(h, at, n)
      PROVE  RepliesFaithful'
  <2> DEFINE f == fh[h]
             im == heap[buffer[f]]
  <2>1. at \in Nat /\ n \in Nat
    BY <1>2, OpenFilesAssumption DEF StreamsInv, TypeOK
  <2>2. f \in File /\ buffer[f] \in Stream /\ im \in Image /\ im.file = f
    BY <1>2, <2>1, ReadBytesTyped
  <2>3. im.len = Size[f] /\ (ExtractMayFail \/ NewMayFail \/ im.good = Size[f])
    BY <1>2, <2>2, OpenFilesAssumption DEF StreamsInv, StreamLengths, ReadBytes, Image
  <2>4. reply' = Images!ReadReply(h, f, at,
                    [i \in 1 .. n |-> Images!ByteOf(f, Size[f], im.good, at + i - 1)])
    BY <1>2, <2>2, <2>3 DEF ReadBytes, Copy
  <2>5. /\ reply'.file = f /\ reply'.at = at /\ Len(reply'.bytes) = n
        /\ \A i \in 1 .. n : reply'.bytes[i] = Images!ByteOf(f, Size[f], im.good, at + i - 1)
    BY <2>1, <2>4 DEF Images!ReadReply
  <2>6. ASSUME NEW i \in 1 .. n, at + i - 1 < Size[f]
        PROVE  \/ reply'.bytes[i] = <<"archived", f, at + i - 1>>
               \/ (ExtractMayFail \/ NewMayFail) /\ reply'.bytes[i] = <<"zero">>
    <3>1. Size[f] \in Nat /\ im.good \in Nat /\ at + i - 1 \in Nat
      BY <2>1, <2>2, OpenFilesAssumption DEF Image
    <3>2. reply'.bytes[i] = IF at + i - 1 < im.good THEN <<"archived", f, at + i - 1>> ELSE <<"zero">>
      BY <2>5, <2>6, <3>1 DEF Images!ByteOf
    <3>3. CASE im.good = Size[f]
      BY <2>6, <3>2, <3>3
    <3>4. CASE ExtractMayFail \/ NewMayFail
      BY <3>2, <3>4
    <3> QED BY <2>3, <3>3, <3>4
  <2> QED BY <2>5, <2>6 DEF RepliesFaithful
<1>3. CASE UNCHANGED reply
  BY <1>3 DEF RepliesFaithful
<1> QED BY <1>1, <1>2, <1>3 DEF Next, vars, OpenRefused, OpenNoMemory, OpenNoSpace, OpenTooLong,
                                OpenThrown, OpenExtracted, ReadFaults, ReadNoMemory, Close,
                                Release, Destroy

(* Each byte answered below st_size is the archived byte of that file at   *)
(* that offset, or zero where extraction stopped early.                    *)
THEOREM Faithful == Spec => []RepliesFaithful
<1>1. Init => RepliesFaithful
  BY DEF Init, RepliesFaithful, Images!NoReply
<1> QED BY <1>1, RepliesNext, StreamsAlways, PTL DEF Spec

-----------------------------------------------------------------------------
(* Clients that take turns *)

(* Two handles never have the same file open.                              *)
OneHandleEach ==
  TakingTurns => \A g, h \in Handle : fh[g] # NULL /\ fh[g] = fh[h] => g = h

TurnsInv == OneHandleEach /\ HandlesServed

(* An open that was allowed to start found its file closed.                *)
LEMMA RequestAlone ==
  ASSUME TakingTurns, NEW h \in Handle, NEW f \in File, Request(h, f)
  PROVE  \A g \in Handle : fh[g] # f
BY DEF TakingTurns, Request

(* The stream behind a handle another open or release does not concern.    *)
StreamKept(g) ==
  /\ buffer'[fh[g]] = buffer[fh[g]]
  /\ heap'[buffer[fh[g]]] = heap[buffer[fh[g]]]

(* An open touches no stream a handle has behind it: nobody has its file open. *)
LEMMA SetBufferElsewhere ==
  ASSUME StreamsInv, TurnsInv, TakingTurns, status = "mounted",
         NEW h \in Handle, NEW f \in File, Request(h, f),
         NEW s \in Stream, NEW len, NEW good, SetBuffer(f, s, len, good),
         NEW g \in Handle, fh[g] # NULL
  PROVE  StreamKept(g)
<1>1. fh[g] \in File /\ fh[g] # f
  BY RequestAlone DEF StreamsInv, TypeOK
<1>2. buffer'[fh[g]] = buffer[fh[g]]
  BY <1>1 DEF SetBuffer, StreamsInv, TypeOK
<1>3. buffer[fh[g]] \in Stream /\ buffer[fh[g]] # s
  BY <1>1 DEF TurnsInv, HandlesServed, SetBuffer, StreamsInv, TypeOK, BufferOwnership
<1>4. heap'[buffer[fh[g]]] = heap[buffer[fh[g]]]
  BY <1>3 DEF SetBuffer, StreamsInv, TypeOK
<1> QED BY <1>2, <1>4 DEF StreamKept

(* A release touches only the stream of the handle it is for.              *)
LEMMA ReleaseElsewhere ==
  ASSUME StreamsInv, TurnsInv, TakingTurns,
         NEW h \in Handle, Release(h),
         NEW g \in Handle, g # h, fh[g] # NULL
  PROVE  StreamKept(g)
<1> DEFINE f == fh[h]
           s == buffer[f]
<1>1. f \in File /\ s \in Stream \cup {NULL} /\ status = "mounted"
  BY DEF Release, DropBuffer, Dequeue, Freed, StreamsInv, TypeOK
<1>2. fh[g] \in File /\ fh[g] # f
  BY <1>1, OpenFilesAssumption DEF TurnsInv, OneHandleEach, StreamsInv, TypeOK
<1>3. buffer[fh[g]] # NULL
  BY <1>1 DEF TurnsInv, HandlesServed
<1>4. buffer[fh[g]] \in Stream /\ buffer[fh[g]] # s
  BY <1>1, <1>2, <1>3 DEF StreamsInv, TypeOK, BufferOwnership
<1>5. CASE DropBuffer(f)
  <2>1. buffer'[fh[g]] = buffer[fh[g]]
    BY <1>2, <1>5 DEF DropBuffer, StreamsInv, TypeOK
  <2>2. heap'[buffer[fh[g]]] = heap[buffer[fh[g]]]
    BY <1>1, <1>4, <1>5 DEF DropBuffer, Freed, StreamsInv, TypeOK
  <2> QED BY <2>1, <2>2 DEF StreamKept
<1>6. CASE CloseThrown(f)
  BY <1>6 DEF CloseThrown, StreamKept
<1> QED BY <1>5, <1>6 DEF Release

(* Every step keeps one handle per file, with its own buffer behind it.      *)
LEMMA TurnsNext == StreamsInv /\ TurnsInv /\ [Next]_vars => TurnsInv'
<1> SUFFICES ASSUME StreamsInv, TurnsInv, [Next]_vars, TakingTurns PROVE TurnsInv'
  BY DEF TurnsInv, OneHandleEach, HandlesServed, TakingTurns
<1> USE DEF TurnsInv
<1>1. ASSUME UNCHANGED <<status, buffer, heap, fh>>
      PROVE  TurnsInv'
  BY <1>1 DEF OneHandleEach, HandlesServed
<1>2. ASSUME NEW h \in Handle, NEW f \in File, NEW s \in Stream, OpenNoSpace(h, f, s)
      PROVE  TurnsInv'
  <2>1. \A g \in Handle : fh[g] # NULL => StreamKept(g)
    BY <1>2, SetBufferElsewhere DEF OpenNoSpace, Request
  <2> QED BY <1>2, <2>1 DEF OpenNoSpace, OneHandleEach, HandlesServed, StreamKept
<1>3. ASSUME NEW h \in Handle, NEW f \in File, NEW s \in Stream, NEW good \in 0 .. Size[f],
             OpenThrown(h, f, s, good)
      PROVE  TurnsInv'
  <2>1. \A g \in Handle : fh[g] # NULL => StreamKept(g)
    BY <1>3, SetBufferElsewhere DEF OpenThrown, Request
  <2> QED BY <1>3, <2>1 DEF OpenThrown, OneHandleEach, HandlesServed, StreamKept
<1>4. ASSUME NEW h \in Handle, NEW f \in File, NEW s \in Stream, OpenTooLong(h, f, s)
      PROVE  TurnsInv'
  BY <1>4 DEF OpenTooLong, OneHandleEach, HandlesServed
<1>5. ASSUME NEW h \in Handle, NEW f \in File, NEW s \in Stream, NEW good \in 0 .. Size[f],
             OpenExtracted(h, f, s, good)
      PROVE  TurnsInv'
  <2>1. SetBuffer(f, s, Size[f], good) /\ Request(h, f) /\ status = "mounted"
    BY <1>5 DEF OpenExtracted, Request
  <2>2. fh' = [fh EXCEPT ![h] = f]
    BY <1>5 DEF OpenExtracted
  <2>3. OneHandleEach'
    BY <2>1, <2>2, RequestAlone DEF StreamsInv, TypeOK, OneHandleEach, TakingTurns
  <2>4. buffer'[f] = s /\ s # NULL /\ heap'[s].len = Size[f]
    BY <2>1, OpenFilesAssumption DEF SetBuffer, StreamsInv, TypeOK
  <2>5. \A g \in Handle : fh[g] # NULL => StreamKept(g)
    BY <2>1, SetBufferElsewhere
  <2>6. \A g \in Handle : fh'[g] = IF g = h THEN f ELSE fh[g]
    BY <2>2 DEF StreamsInv, TypeOK
  <2>7. HandlesServed'
    BY <2>1, <2>4, <2>5, <2>6 DEF HandlesServed, StreamKept
  <2> QED BY <2>3, <2>7
<1>6. ASSUME NEW h \in Handle, NEW n \in 1 .. MaxRead, NEW at \in 0 .. Size[fh[h]],
             ReadFaults(h, at, n) \/ ReadNoMemory(h, at, n)
      PROVE  TurnsInv'
  BY <1>6 DEF ReadFaults, ReadNoMemory, OneHandleEach, HandlesServed
<1>7. ASSUME NEW h \in Handle, Release(h)
      PROVE  TurnsInv'
  <2>1. status = "mounted" /\ \A g \in Handle : fh'[g] = IF g = h THEN NULL ELSE fh[g]
    BY <1>7 DEF Release, Dequeue, StreamsInv, TypeOK
  <2>2. OneHandleEach'
    BY <2>1 DEF OneHandleEach, TakingTurns
  <2>3. \A g \in Handle : g # h /\ fh[g] # NULL => StreamKept(g)
    BY <1>7, ReleaseElsewhere
  <2>4. HandlesServed'
    BY <2>1, <2>3 DEF HandlesServed, StreamKept
  <2> QED BY <2>2, <2>4
<1>8. ASSUME Destroy
      PROVE  TurnsInv'
  BY <1>8 DEF Destroy, Orphaned, OneHandleEach, HandlesServed
<1> QED BY <1>1, <1>2, <1>4, <1>5, <1>6, <1>7, <1>8, <1>3
        DEF Next, vars, OpenRefused, OpenNoMemory, ReadBytes, Close

(* Hence clients that take turns are always served from their own buffer.    *)
LEMMA TurnsAlways == Spec => []TurnsInv
<1>1. Init => TurnsInv
  BY DEF Init, TurnsInv, OneHandleEach, HandlesServed
<1> QED BY <1>1, TurnsNext, StreamsAlways, PTL DEF Spec

(* When clients take turns, every handle not yet released finds a buffer of *)
(* the full length of its file.                                            *)
THEOREM Served == Spec => []HandlesServed
<1>1. TurnsInv => HandlesServed
  BY DEF TurnsInv
<1> QED BY <1>1, TurnsAlways, PTL

(* When clients take turns, keep below st_size, no file is longer than a    *)
(* vector can be and new never fails, no order of calls kills the process.  *)
THEOREM Survival == Spec => []Survives
<1> DEFINE Polite == TakingTurns /\ ~PastEnd /\ ~NewMayFail /\ \A f \in File : Size[f] <= VectorMax
<1>1. Init => Survives
  BY DEF Init, Survives
<1>2. StreamsInv /\ TurnsInv /\ Survives /\ [Next]_vars => Survives'
  <2> SUFFICES ASSUME StreamsInv, TurnsInv, Survives, [Next]_vars, Polite
               PROVE  status' \in {"mounted", "unmounted"}
    BY DEF Survives, TakingTurns
  <2>1. \A h \in Handle, f \in File, s \in Stream : ~OpenTooLong(h, f, s)
    BY OpenFilesAssumption DEF OpenTooLong
  <2>2. ASSUME NEW h \in Handle, NEW n \in 1 .. MaxRead, NEW at \in 0 .. Size[fh[h]],
               ReadFaults(h, at, n)
        PROVE  FALSE
    <3>1. buffer[fh[h]] # NULL /\ heap[buffer[fh[h]]].len = Size[fh[h]]
      BY <2>2 DEF ReadFaults, ReadRequest, TurnsInv, HandlesServed
    <3>2. fh[h] \in File /\ at + n <= Size[fh[h]] /\ at + n > Size[fh[h]]
      BY <2>2, <3>1 DEF ReadFaults, ReadRequest, StreamsInv, TypeOK
    <3> QED BY <3>2, OpenFilesAssumption
  <2>3. \A h \in Handle, n \in 1 .. MaxRead : \A at \in 0 .. Size[fh[h]] : ~ReadNoMemory(h, at, n)
    BY DEF ReadNoMemory
  <2>4. status' \in {status, "unmounted"}
    BY <2>1, <2>2, <2>3 DEF Next, vars, OpenRefused, OpenNoMemory, OpenNoSpace, OpenThrown,
                            OpenExtracted, ReadBytes, Close, Release, Destroy
  <2> QED BY <2>4 DEF Survives
<1> QED BY <1>1, <1>2, StreamsAlways, TurnsAlways, PTL DEF Spec

-----------------------------------------------------------------------------
(* Leaks *)

(* Memory that never runs out strands no stream.                            *)
LEMMA StrandedByFailure ==
  Spec => [](stranded # {} => ResizeMayFail \/ NewMayFail)
<1> DEFINE Caused == stranded # {} => ResizeMayFail \/ NewMayFail
<1>1. Init => Caused
  BY DEF Init
<1>2. Caused /\ [Next]_vars => Caused'
  BY DEF Next, vars, OpenRefused, OpenNoMemory, OpenNoSpace, OpenTooLong, OpenThrown,
              OpenExtracted, ReadBytes, ReadFaults, ReadNoMemory, Close, CloseThrown, Release,
              Destroy
<1> QED BY <1>1, <1>2, PTL DEF Spec

(* When clients take turns, each allocated stream is the buffer of a node   *)
(* some handle has open or was left by an open or release that failed for   *)
(* want of memory, and unmounting frees all the others.                     *)
THEOREM NoLeak == Spec => []NothingLeaks
<1> DEFINE Kept == TakingTurns /\ status \in {"mounted", "unmounted"} =>
                     \A s \in Allocated \ stranded :
                       \E h \in Handle : fh[h] # NULL /\ buffer[fh[h]] = s
<1>1. Init => Kept
  BY DEF Init, Allocated
<1>2. StreamsInv /\ Kept /\ [Next]_vars => Kept'
  <2> SUFFICES ASSUME StreamsInv, Kept, [Next]_vars, TakingTurns,
                      status' \in {"mounted", "unmounted"},
                      NEW t \in Stream, heap'[t] # NULL, t \notin stranded'
               PROVE  \E g \in Handle : fh'[g] # NULL /\ buffer'[fh'[g]] = t
    BY DEF Allocated, TakingTurns
  <2>1. ASSUME UNCHANGED <<status, buffer, heap, fh, stranded>>
        PROVE  \E g \in Handle : fh'[g] # NULL /\ buffer'[fh'[g]] = t
    BY <2>1 DEF Allocated
  <2>5. ASSUME NEW h \in Handle, NEW f \in File, NEW s \in Stream, NEW len, NEW good,
               Request(h, f), SetBuffer(f, s, len, good), stranded' = stranded \cup {s},
               UNCHANGED fh
        PROVE  \E g \in Handle : fh'[g] # NULL /\ buffer'[fh'[g]] = t
    <3>1. heap[t] # NULL /\ t \notin stranded
      BY <2>5 DEF SetBuffer, StreamsInv, TypeOK
    <3>2. PICK g \in Handle : fh[g] # NULL /\ buffer[fh[g]] = t
      BY <2>5, <3>1 DEF Request, Allocated
    <3>3. fh[g] # f
      BY <2>5, RequestAlone
    <3> QED BY <2>5, <3>2, <3>3 DEF SetBuffer, StreamsInv, TypeOK
  <2>2. ASSUME NEW h \in Handle, NEW f \in File, NEW s \in Stream, NEW good \in 0 .. Size[f],
               OpenExtracted(h, f, s, good)
        PROVE  \E g \in Handle : fh'[g] # NULL /\ buffer'[fh'[g]] = t
    <3>1. SetBuffer(f, s, Size[f], good) /\ Request(h, f) /\ status = "mounted"
      BY <2>2 DEF OpenExtracted, Request
    <3>2. \A g \in Handle : fh'[g] = IF g = h THEN f ELSE fh[g]
      BY <2>2 DEF OpenExtracted, StreamsInv, TypeOK
    <3>3. CASE t = s
      <4>1. buffer'[f] = s /\ f # NULL
        BY <3>1, OpenFilesAssumption DEF SetBuffer, StreamsInv, TypeOK
      <4> QED BY <3>2, <3>3, <4>1
    <3>4. CASE t # s
      <4>1. heap[t] # NULL /\ t \notin stranded
        BY <2>2, <3>1, <3>4 DEF OpenExtracted, SetBuffer, StreamsInv, TypeOK
      <4>2. PICK g \in Handle : fh[g] # NULL /\ buffer[fh[g]] = t
        BY <3>1, <4>1 DEF Allocated
      <4>3. g # h /\ fh[g] # f /\ fh[g] \in File
        BY <3>1, <4>2, RequestAlone DEF Request, StreamsInv, TypeOK
      <4> QED BY <3>1, <3>2, <4>2, <4>3 DEF SetBuffer, StreamsInv, TypeOK
    <3> QED BY <3>3, <3>4
  <2>3. ASSUME NEW h \in Handle, Release(h)
        PROVE  \E g \in Handle : fh'[g] # NULL /\ buffer'[fh'[g]] = t
    <3>1. fh[h] \in File /\ buffer[fh[h]] \in Stream \cup {NULL} /\ status = "mounted"
      BY <2>3 DEF Release, StreamsInv, TypeOK
    <3>2. heap[t] # NULL /\ t # buffer[fh[h]] /\ t \notin stranded
      <4>1. CASE DropBuffer(fh[h]) /\ stranded' = stranded \ {buffer[fh[h]]}
        BY <3>1, <4>1, OpenFilesAssumption DEF DropBuffer, Freed, StreamsInv, TypeOK
      <4>2. CASE CloseThrown(fh[h])
        BY <3>1, <4>2, OpenFilesAssumption DEF CloseThrown, StreamsInv, TypeOK
      <4> QED BY <2>3, <4>1, <4>2 DEF Release
    <3>3. PICK g \in Handle : fh[g] # NULL /\ buffer[fh[g]] = t
      BY <3>1, <3>2 DEF Allocated
    <3>4. g # h /\ fh[g] # fh[h] /\ fh[g] \in File
      BY <3>2, <3>3 DEF StreamsInv, TypeOK
    <3>5. fh'[g] = fh[g] /\ buffer'[fh[g]] = buffer[fh[g]]
      BY <2>3, <3>1, <3>4 DEF Release, DropBuffer, CloseThrown, Dequeue, StreamsInv, TypeOK
    <3> QED BY <3>3, <3>5
  <2>4. ASSUME Destroy
        PROVE  FALSE
    <3>1. heap[t] # NULL /\ t \notin stranded /\ \A f \in File : buffer[f] # t
      BY <2>4 DEF Destroy, Orphaned
    <3>2. PICK g \in Handle : fh[g] # NULL /\ buffer[fh[g]] = t
      BY <2>4, <3>1 DEF Destroy, Allocated
    <3> QED BY <3>1, <3>2 DEF StreamsInv, TypeOK
  <2> QED BY <2>1, <2>2, <2>3, <2>4, <2>5
          DEF Next, vars, OpenRefused, OpenNoMemory, OpenNoSpace, OpenTooLong, OpenThrown,
              ReadBytes, ReadFaults, ReadNoMemory, Close
<1>3. Kept /\ (stranded # {} => ResizeMayFail \/ NewMayFail) => NothingLeaks
  BY DEF NothingLeaks
<1> QED BY <1>1, <1>2, <1>3, StreamsAlways, StrandedByFailure, PTL DEF Spec

-----------------------------------------------------------------------------
(* Private images *)

(* What the refinement asks of the clients and of the archive.             *)
Polite == TakingTurns /\ ~PastEnd /\ ~NewMayFail /\ \A f \in File : Size[f] <= VectorMax

(* What a handle sees while its client has it open.                        *)
LEMMA ViewOf ==
  ASSUME StreamsInv, TurnsInv, TakingTurns, status = "mounted",
         NEW h \in Handle, fh[h] # NULL, h \notin closing
  PROVE  /\ buffer[fh[h]] \in Stream
         /\ View[h] = [file |-> fh[h], good |-> heap[buffer[fh[h]]].good]
         /\ View[h] # NULL
<1>1. fh[h] \in File /\ buffer[fh[h]] \in Stream
  BY DEF TurnsInv, HandlesServed, StreamsInv, TypeOK
<1>2. heap[buffer[fh[h]]].good \in Nat
  BY <1>1, OpenFilesAssumption DEF StreamsInv, TypeOK, BufferOwnership, Image
<1>3. View[h] = [file |-> fh[h], good |-> heap[buffer[fh[h]]].good]
  BY <1>1, OpenFilesAssumption DEF View
<1> QED BY <1>1, <1>2, <1>3, OpenFilesAssumption

(* A handle keeps its view when it stays open and its stream is kept.      *)
LEMMA ViewKept ==
  ASSUME NEW h \in Handle, fh'[h] = fh[h], h \in closing' <=> h \in closing,
         fh[h] # NULL => StreamKept(h)
  PROVE  View'[h] = View[h]
BY DEF View, StreamKept

(* When one handle's view changes and the others' do not, View is updated    *)
(* there.                                                                   *)
LEMMA ViewExcept ==
  ASSUME NEW h \in Handle, NEW seen, View'[h] = seen,
         \A g \in Handle \ {h} : View'[g] = View[g]
  PROVE  View' = [View EXCEPT ![h] = seen]
<1>1. View' = [g \in Handle |-> View'[g]]
  BY DEF View
<1>2. [View EXCEPT ![h] = seen] = [g \in Handle |-> IF g = h THEN seen ELSE View[g]]
  BY DEF View
<1> QED BY <1>1, <1>2

(* Every step of a polite system is a step of PrivateImages or a stutter.  *)
LEMMA RefinementStep ==
  ASSUME Polite, StreamsInv, TurnsInv, [Next]_vars
  PROVE  [Images!Next]_(Images!vars)
<1> USE DEF Polite
<1>1. ASSUME NEW h \in Handle, NEW err \in {"ENOENT", "EISDIR", "ENOMEM"},
             reply' = Images!OpenReply(h, err), status = "mounted", status' = status,
             View' = View
      PROVE  Images!Next
  BY <1>1 DEF Images!Next, Images!OpenFails
<1>2. UNCHANGED <<buffer, heap, fh, closing>> => View' = View
  BY DEF View
<1>3. ASSUME NEW h \in Handle, NEW node \in Dir \cup {NULL}, OpenRefused(h, node)
      PROVE  Images!Next
  BY <1>1, <1>2, <1>3 DEF OpenRefused
<1>4. ASSUME NEW h \in Handle, NEW f \in File, OpenNoMemory(h, f)
      PROVE  Images!Next
  BY <1>1, <1>2, <1>4 DEF OpenNoMemory, Request
<1>5. ASSUME NEW h \in Handle, NEW f \in File, NEW s \in Stream, OpenNoSpace(h, f, s)
      PROVE  Images!Next
  <2>1. \A g \in Handle : fh[g] # NULL => StreamKept(g)
    BY <1>5, SetBufferElsewhere DEF OpenNoSpace, Request
  <2>2. \A g \in Handle : View'[g] = View[g]
    BY <1>5, <2>1, ViewKept DEF OpenNoSpace
  <2>3. View' = View
    BY <2>2 DEF View
  <2> QED BY <1>1, <1>5, <2>3 DEF OpenNoSpace, Request
<1>6. ASSUME NEW h \in Handle, NEW f \in File, NEW s \in Stream, NEW good \in 0 .. Size[f],
             OpenExtracted(h, f, s, good)
      PROVE  Images!Next
  <2>1. SetBuffer(f, s, Size[f], good) /\ Request(h, f) /\ status = "mounted"
    BY <1>6 DEF OpenExtracted, Request
  <2>2. fh[h] = NULL /\ fh' = [fh EXCEPT ![h] = f] /\ closing' = closing
    BY <1>6, <2>1 DEF OpenExtracted, Request
  <2>3. View[h] = NULL /\ h \notin closing
    BY <2>2 DEF View, StreamsInv, TypeOK
  <2>4. \A g \in Handle \ {h} : View'[g] = View[g]
    BY <2>1, <2>2, SetBufferElsewhere, ViewKept DEF StreamsInv, TypeOK
  <2>5. fh'[h] = f /\ buffer'[f] = s /\ f # NULL /\ s # NULL /\ heap'[s].good = good
    BY <2>1, <2>2, OpenFilesAssumption DEF SetBuffer, StreamsInv, TypeOK
  <2>6. View'[h] = [file |-> f, good |-> good]
    BY <2>2, <2>3, <2>5 DEF View
  <2>7. View' = [View EXCEPT ![h] = [file |-> f, good |-> good]]
    BY <2>4, <2>6, ViewExcept
  <2> QED BY <1>6, <2>1, <2>3, <2>7 DEF Images!Next, Images!Open, OpenExtracted
<1>7. ASSUME NEW h \in Handle, NEW n \in 1 .. MaxRead, NEW at \in 0 .. Size[fh[h]],
             fh[h] # NULL, ReadBytes(h, at, n)
      PROVE  Images!Next
  <2> DEFINE f == fh[h]
             im == heap[buffer[f]]
  <2>1. status = "mounted" /\ h \notin closing
    BY <1>7 DEF ReadBytes, ReadRequest
  <2>2. View[h] = [file |-> f, good |-> im.good] /\ View[h] # NULL
    BY <1>7, <2>1, ViewOf
  <2>3. f \in File /\ buffer[f] \in Stream /\ im \in Image /\ im.file = f
    BY <1>7, OpenFilesAssumption, ReadBytesTyped DEF StreamsInv, TypeOK
  <2>4. im.len = Size[f]
    BY <1>7, <2>1 DEF TurnsInv, HandlesServed
  <2>5. reply' = Images!ReadReply(h, f, at,
                    [i \in 1 .. n |-> Images!ByteOf(f, Size[f], View[h].good, at + i - 1)])
    BY <1>7, <2>2, <2>3, <2>4 DEF ReadBytes, Copy
  <2>6. View' = View /\ status' = status
    BY <1>7, <1>2 DEF ReadBytes, Copy
  <2>7. Images!Read(h, at, n)
    BY <2>1, <2>2, <2>5, <2>6 DEF Images!Read
  <2> QED BY <2>2, <2>7 DEF Images!Next
<1>8. ASSUME NEW h \in Handle, NEW n \in 1 .. MaxRead, NEW at \in 0 .. Size[fh[h]],
             ReadFaults(h, at, n)
      PROVE  FALSE
  <2>1. buffer[fh[h]] # NULL /\ heap[buffer[fh[h]]].len = Size[fh[h]]
    BY <1>8 DEF ReadFaults, ReadRequest, TurnsInv, HandlesServed
  <2>2. fh[h] \in File /\ at + n <= Size[fh[h]] /\ at + n > Size[fh[h]]
    BY <1>8, <2>1 DEF ReadFaults, ReadRequest, StreamsInv, TypeOK
  <2> QED BY <2>2, OpenFilesAssumption
<1>9. ASSUME NEW h \in Handle, Close(h)
      PROVE  Images!Next
  <2>1. View[h] # NULL
    BY <1>9, ViewOf DEF Close
  <2>2. View' = [View EXCEPT ![h] = NULL]
    BY <1>9 DEF Close, View
  <2> QED BY <1>9, <2>1, <2>2 DEF Close, Images!Next, Images!Close
<1>10. ASSUME NEW h \in Handle, Release(h)
       PROVE  UNCHANGED Images!vars
  <2>1. h \in closing /\ closing' = closing \ {h} /\ fh' = [fh EXCEPT ![h] = NULL]
    BY <1>10 DEF Release, Dequeue
  <2>2. View'[h] = NULL /\ View[h] = NULL
    BY <2>1 DEF View, StreamsInv, TypeOK
  <2>3. \A g \in Handle \ {h} : View'[g] = View[g]
    BY <1>10, <2>1, ReleaseElsewhere, ViewKept DEF StreamsInv, TypeOK
  <2>4. View' = View
    BY <2>2, <2>3 DEF View
  <2> QED BY <1>10, <2>4 DEF Release, Images!vars
<1>11. ASSUME Destroy
       PROVE  Images!Next
  <2>1. View' = [h \in Handle |-> NULL]
    BY <1>11 DEF Destroy, Orphaned, View
  <2> QED BY <1>11, <2>1 DEF Destroy, Orphaned, Images!Next, Images!Unmount
<1>12. CASE UNCHANGED vars
  BY <1>2, <1>12 DEF vars, Images!vars
<1>13. \A h \in Handle, f \in File, s \in Stream : ~OpenTooLong(h, f, s)
  BY OpenFilesAssumption DEF OpenTooLong
<1>14. /\ \A h \in Handle, f \in File, s \in Stream : \A good \in 0 .. Size[f] :
            ~OpenThrown(h, f, s, good)
       /\ \A h \in Handle, n \in 1 .. MaxRead : \A at \in 0 .. Size[fh[h]] : ~ReadNoMemory(h, at, n)
  BY DEF OpenThrown, ReadNoMemory
<1> QED BY <1>3, <1>4, <1>5, <1>6, <1>7, <1>8, <1>9, <1>10, <1>11, <1>12, <1>13, <1>14 DEF Next

(* To clients that take turns and keep below st_size, the shared buffers    *)
(* of the nodes are private images, one to a handle.                       *)
THEOREM Refinement ==
  ASSUME Polite
  PROVE  Spec => ImplementsPrivateImages
<1>1. Init => Images!Init
  BY DEF Init, Images!Init, View
<1> QED BY <1>1, RefinementStep, StreamsAlways, TurnsAlways, PTL
        DEF Spec, ImplementsPrivateImages, Images!Spec
=============================================================================
