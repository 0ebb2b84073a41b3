------------------------------ MODULE OpenFiles ------------------------------
(***************************************************************************)
(* The open files of a mounted archive: fuse7z_open, fuse7z_read,          *)
(* fuse7z_release and fuse7z_destroy with the Fuse7z_lib7zip methods they  *)
(* call, and the life of the Fuse7zOutStream objects that hold extracted   *)
(* files.  The program extracts the whole file at open, into a stream that *)
(* hangs off the NODE (node->buffer), not off the handle.                  *)
(*                                                                         *)
(* fuse_loop serves one request at a time, so a handler is one action; the *)
(* order of requests is the kernel's.  A file's bytes are not modelled one *)
(* by one: a stream holds len bytes of which the first good are the        *)
(* archived ones and the rest the zeros vector::resize filled in.          *)
(***************************************************************************)
EXTENDS Naturals, Sequences, FiniteSets

CONSTANTS
  File, Dir,      \* the tree's nodes with is_dir false and true
  Handle,         \* the open file descriptions the kernel can hold
  Stream,         \* where the heap can place a Fuse7zOutStream
  Size,           \* Size[f] is node->stat.st_size, the archive's kpidSize
  VectorMax,      \* vector<char>::max_size()
  MaxRead,        \* largest read the kernel sends
  SharedOpens,    \* may a file be opened while another handle has it open?
  LateRelease,    \* may an open overtake the release of a closed handle?
  PastEnd,        \* may a read reach past st_size (whole pages)?
  ResizeMayFail,  \* may vector::resize run out of memory?
  NewMayFail,     \* may a new, or a string of the log, run out of memory?
  ExtractMayFail, \* may archive->Extract stop before the last byte?
  NULL

Image == [file : File, len : Nat, good : Nat]

ASSUME OpenFilesAssumption ==
  /\ File \cap Dir = {}
  /\ Size \in [File -> Nat]
  /\ VectorMax \in Nat
  /\ MaxRead \in Nat
  /\ {SharedOpens, LateRelease, PastEnd,
      ResizeMayFail, NewMayFail, ExtractMayFail} \subseteq BOOLEAN
  /\ NULL \notin File \cup Dir \cup Stream \cup Image \cup [file : File, good : Nat]

VARIABLES
  status,    \* "mounted", "unmounted", or how the process died
  buffer,    \* buffer[f] is node->buffer
  heap,      \* heap[s]: the stream allocated at s, NULL when s is free
  fh,        \* fh[h] is fi->fh: the node of an open handle, or NULL
  closing,   \* handles the client has closed whose release is still queued
  reply,     \* the last answer to an open or a read
  stranded   \* history: the streams that a failed open or release left on
             \* a node; no guard reads it

vars == <<status, buffer, heap, fh, closing, reply, stranded>>

View == [h \in Handle |->
           IF fh[h] = NULL \/ h \in closing THEN NULL
           ELSE [file |-> fh[h],
                 good |-> IF buffer[fh[h]] = NULL THEN 0 ELSE heap[buffer[fh[h]]].good]]

Images == INSTANCE PrivateImages WITH view <- View

Allocated == {s \in Stream : heap[s] # NULL}

(* The handlers find node->buffer NULL until the first open.               *)
Init ==
  /\ status = "mounted"
  /\ buffer = [f \in File |-> NULL]
  /\ heap = [s \in Stream |-> NULL]
  /\ fh = [h \in Handle |-> NULL]
  /\ closing = {}
  /\ reply = Images!NoReply
  /\ stranded = {}

-----------------------------------------------------------------------------
(* Open *)

(* The kernel's rule for sending an open of f on h.                        *)
Request(h, f) ==
  /\ status = "mounted"
  /\ fh[h] = NULL
  /\ \A g \in Handle :
       fh[g] = f => IF g \in closing THEN LateRelease ELSE SharedOpens

(* Mutant of OpenRefused: is_dir is not looked at.                         *)
OpenUnchecked(h, node) ==
  /\ status = "mounted"
  /\ fh[h] = NULL
  /\ reply' = Images!OpenReply(h, IF node = NULL THEN "ENOENT" ELSE "OK")
  /\ fh' = [fh EXCEPT ![h] = node]
  /\ UNCHANGED <<status, buffer, heap, closing, stranded>>

(* find() returned NULL or a directory.                                    *)
OpenRefused(h, node) ==
  /\ status = "mounted"
  /\ fh[h] = NULL
  /\ reply' = Images!OpenReply(h, IF node = NULL THEN "ENOENT" ELSE "EISDIR")
  /\ UNCHANGED <<status, buffer, heap, fh, closing, stranded>>

(* bad_alloc from new, or from the log before it: nothing was assigned yet. *)
OpenNoMemory(h, f) ==
  /\ Request(h, f)
  /\ Allocated = Stream \/ NewMayFail
  /\ reply' = Images!OpenReply(h, "ENOMEM")
  /\ UNCHANGED <<status, buffer, heap, fh, closing, stranded>>

(* Mutant of SetBuffer: the stream is not resized but grows as it is written. *)
SetUnsized(f, s, len, good) ==
  /\ heap[s] = NULL
  /\ heap' = [heap EXCEPT ![s] = [file |-> f, len |-> good, good |-> good]]
  /\ buffer' = [buffer EXCEPT ![f] = s]

(* node->buffer = stream; the stream the node had before is not deleted.   *)
SetBuffer(f, s, len, good) ==
  /\ heap[s] = NULL
  /\ heap' = [heap EXCEPT ![s] = [file |-> f, len |-> len, good |-> good]]
  /\ buffer' = [buffer EXCEPT ![f] = s]

(* bad_alloc from resize: the open fails, the empty stream stays.          *)
OpenNoSpace(h, f, s) ==
  /\ Request(h, f)
  /\ ResizeMayFail
  /\ Size[f] <= VectorMax
  /\ SetBuffer(f, s, 0, 0)
  /\ stranded' = stranded \cup {s}
  /\ reply' = Images!OpenReply(h, "ENOMEM")
  /\ UNCHANGED <<status, fh, closing>>

(* length_error from resize: no handler catches it, the process aborts.    *)
OpenTooLong(h, f, s) ==
  /\ Request(h, f)
  /\ Size[f] > VectorMax
  /\ SetBuffer(f, s, 0, 0)
  /\ status' = "aborted"
  /\ UNCHANGED <<fh, closing, reply, stranded>>

(* bad_alloc after resize, from new CArchiveExtractCallback or later out   *)
(* of Extract: the open fails, the stream stays with what it has got.      *)
OpenThrown(h, f, s, good) ==
  /\ Request(h, f)
  /\ NewMayFail
  /\ Size[f] <= VectorMax
  /\ SetBuffer(f, s, Size[f], good)
  /\ stranded' = stranded \cup {s}
  /\ reply' = Images!OpenReply(h, "ENOMEM")
  /\ UNCHANGED <<status, fh, closing>>

(* Extract's result is dropped: the open succeeds however far it got.      *)
OpenExtracted(h, f, s, good) ==
  /\ Request(h, f)
  /\ Size[f] <= VectorMax
  /\ good = Size[f] \/ ExtractMayFail
  /\ SetBuffer(f, s, Size[f], good)
  /\ fh' = [fh EXCEPT ![h] = f]
  /\ reply' = Images!OpenReply(h, "OK")
  /\ UNCHANGED <<status, closing, stranded>>

-----------------------------------------------------------------------------
(* Read *)

(* The kernel asks for bytes below the st_size it was told, rounded up to  *)
(* whole pages where PastEnd.                                              *)
ReadRequest(h, at, n) ==
  /\ status = "mounted"
  /\ fh[h] # NULL
  /\ h \notin closing
  /\ at < Size[fh[h]]
  /\ PastEnd \/ at + n <= Size[fh[h]]

(* Mutants of Copy: one byte too far; always from the start of the stream. *)
CopyShifted(im, at, n) == [i \in 1 .. n |-> Images!ByteOf(im.file, im.len, im.good, at + i)]
CopyFromStart(im, at, n) == [i \in 1 .. n |-> Images!ByteOf(im.file, im.len, im.good, i - 1)]

Copy(im, at, n) == [i \in 1 .. n |-> Images!ByteOf(im.file, im.len, im.good, at + i - 1)]

(* memcpy of n bytes from at, and n is the answer whatever the length.     *)
ReadBytes(h, at, n) ==
  LET f == fh[h]
      s == buffer[f]
  IN  /\ ReadRequest(h, at, n)
      /\ s # NULL
      /\ heap[s].len > 0
      /\ reply' = Images!ReadReply(h, f, at, Copy(heap[s], at, n))
      /\ UNCHANGED <<status, buffer, heap, fh, closing, stranded>>

(* The memcpy faults for certain when there is no buffer or an empty one,  *)
(* and may fault when it leaves the vector.                                *)
ReadFaults(h, at, n) ==
  LET s == buffer[fh[h]]
  IN  /\ ReadRequest(h, at, n)
      /\ s # NULL => at + n > heap[s].len
      /\ status' = "crashed"
      /\ UNCHANGED <<buffer, heap, fh, closing, reply, stranded>>

(* bad_alloc from the log of read(): nothing catches it.                   *)
ReadNoMemory(h, at, n) ==
  /\ ReadRequest(h, at, n)
  /\ NewMayFail
  /\ status' = "aborted"
  /\ UNCHANGED <<buffer, heap, fh, closing, reply, stranded>>

-----------------------------------------------------------------------------
(* Close and unmount *)

(* The last descriptor of h goes away; the kernel queues the release.      *)
Close(h) ==
  /\ status = "mounted"
  /\ fh[h] # NULL
  /\ h \notin closing
  /\ closing' = closing \cup {h}
  /\ UNCHANGED <<status, buffer, heap, fh, reply, stranded>>

(* delete of NULL does nothing.                                            *)
Freed(s) == IF s = NULL THEN heap ELSE [heap EXCEPT ![s] = NULL]

(* Mutants of DropBuffer: the node keeps its pointer to the freed stream;  *)
(* the buffer stays when no other handle has the file.                     *)
DropDangling(f) == heap' = Freed(buffer[f]) /\ UNCHANGED buffer

(* delete node->buffer and forget it.                                      *)
DropBuffer(f) == heap' = Freed(buffer[f]) /\ buffer' = [buffer EXCEPT ![f] = NULL]

Dequeue(h) == fh' = [fh EXCEPT ![h] = NULL] /\ closing' = closing \ {h}

(* bad_alloc from the log of close(), before the delete; fuse7z_release    *)
(* answers ENOMEM, but the handle is gone all the same.                    *)
CloseThrown(f) ==
  /\ NewMayFail
  /\ stranded' = stranded \cup ({buffer[f]} \ {NULL})
  /\ UNCHANGED <<heap, buffer>>

Release(h) ==
  /\ status = "mounted"
  /\ h \in closing
  /\ \/ DropBuffer(fh[h]) /\ stranded' = stranded \ {buffer[fh[h]]}
     \/ CloseThrown(fh[h])
  /\ Dequeue(h)
  /\ UNCHANGED <<status, reply>>

(* Mutant of Orphaned: ~Node does not delete its buffer.                   *)
OrphanedAll == heap

(* What is left when every buffer the tree refers to is deleted.           *)
Orphaned == [s \in Stream |-> IF \E f \in File : buffer[f] = s THEN NULL ELSE heap[s]]

(* delete data: ~Node deletes every buffer the tree still refers to.       *)
Destroy ==
  /\ status = "mounted"
  /\ status' = "unmounted"
  /\ heap' = Orphaned
  /\ buffer' = [f \in File |-> NULL]
  /\ fh' = [h \in Handle |-> NULL]
  /\ closing' = {}
  /\ stranded' = {s \in stranded : Orphaned[s] # NULL}
  /\ UNCHANGED reply

Next ==
  \/ \E h \in Handle, node \in Dir \cup {NULL} : OpenRefused(h, node)
  \/ \E h \in Handle, f \in File :
       \/ OpenNoMemory(h, f)
       \/ \E s \in Stream :
            \/ OpenNoSpace(h, f, s)
            \/ OpenTooLong(h, f, s)
            \/ \E good \in 0 .. Size[f] :
                 OpenThrown(h, f, s, good) \/ OpenExtracted(h, f, s, good)
  \/ \E h \in Handle, n \in 1 .. MaxRead :
       fh[h] # NULL /\ \E at \in 0 .. Size[fh[h]] :
         ReadBytes(h, at, n) \/ ReadFaults(h, at, n) \/ ReadNoMemory(h, at, n)
  \/ \E h \in Handle : Close(h) \/ Release(h)
  \/ Destroy

(* fuse_loop takes every queued request in the end, releases included.     *)
Fairness == \A h \in Handle : WF_vars(Release(h))

Spec == Init /\ [][Next]_vars /\ Fairness

-----------------------------------------------------------------------------
(* Properties *)

Errno == {"OK", "ENOENT", "EISDIR", "ENOMEM"}

Byte == {<<"junk">>, <<"zero">>} \cup ({"archived"} \X File \X Nat)

Reply ==
  {Images!NoReply}
    \cup [op : {"open"}, handle : Handle, err : Errno]
    \cup [op : {"read"}, handle : Handle, file : File, at : Nat, bytes : Seq(Byte)]

(* Every variable keeps its type, only an open handle awaits release, and  *)
(* a stream is stranded only while it is allocated.                        *)
TypeOK ==
  /\ status \in {"mounted", "unmounted", "crashed", "aborted"}
  /\ buffer \in [File -> Stream \cup {NULL}]
  /\ heap \in [Stream -> Image \cup {NULL}]
  /\ fh \in [Handle -> File \cup {NULL}]
  /\ closing \subseteq {h \in Handle : fh[h] # NULL}
  /\ reply \in Reply
  /\ stranded \subseteq Allocated

(* The buffer a node refers to is allocated and was filled for that node,  *)
(* however opens and releases are ordered: no freed stream is ever read    *)
(* or deleted again by close() or ~Node, and no two nodes share one.       *)
BufferOwnership ==
  \A f \in File : buffer[f] # NULL => heap[buffer[f]] # NULL /\ heap[buffer[f]].file = f

(* A byte answered below st_size is the archived byte of that file at that *)
(* place, or zero where extraction stopped early, which needs a failure of *)
(* Extract or of a new in it: read() never mixes files, offsets or stale   *)
(* memory.                                                                 *)
RepliesFaithful ==
  reply.op = "read" =>
    \A i \in 1 .. Len(reply.bytes) :
      LET at == reply.at + i - 1 IN
        at < Size[reply.file] =>
          \/ reply.bytes[i] = <<"archived", reply.file, at>>
          \/ (ExtractMayFail \/ NewMayFail) /\ reply.bytes[i] = <<"zero">>

(* The clients take turns: nobody opens a file before the previous handle  *)
(* on it has been released.                                                *)
TakingTurns == ~SharedOpens /\ ~LateRelease

(* When clients take turns, every handle not yet released has a buffer of  *)
(* the full length behind it, so close() and read() find what open() left. *)
HandlesServed ==
  TakingTurns /\ status = "mounted" =>
    \A h \in Handle : fh[h] # NULL =>
      buffer[fh[h]] # NULL /\ heap[buffer[fh[h]]].len = Size[fh[h]]

(* When clients take turns, each allocated stream is the buffer of a node  *)
(* some handle has open, or one that a failed open or release has left;    *)
(* where memory never runs out there is none of those, so that nothing     *)
(* leaks, and nothing is left after unmounting.                            *)
NothingLeaks ==
  TakingTurns /\ status \in {"mounted", "unmounted"} =>
    /\ \A s \in Allocated \ stranded : \E h \in Handle : fh[h] # NULL /\ buffer[fh[h]] = s
    /\ stranded # {} => ResizeMayFail \/ NewMayFail

(* When clients take turns, stay below st_size, no size exceeds what a     *)
(* vector can hold and new never fails, no sequence of calls kills the     *)
(* process, not even where resize fails.                                   *)
Survives ==
  TakingTurns /\ ~PastEnd /\ ~NewMayFail /\ (\A f \in File : Size[f] <= VectorMax) =>
    status \in {"mounted", "unmounted"}

(* Under the same conditions the node's buffer behaves as if each handle   *)
(* had a private image.                                                    *)
ImplementsPrivateImages == Images!Spec

HeldOpen(f) == \E h \in Handle : fh[h] = f /\ h \notin closing


(* A handle the client holds open has a buffer behind it, shared or not.   *)
BufferWhileOpen ==
  status = "mounted" =>
    \A h \in Handle : fh[h] # NULL /\ h \notin closing => buffer[fh[h]] # NULL
=============================================================================
