--------------------------- MODULE PrivateImages ---------------------------
(***************************************************************************)
(* What a client of a mounted archive is promised about the files it       *)
(* opens.  Every successful open gives the handle an image of its own: the *)
(* first good bytes of the archived file, the rest zero when extraction    *)
(* stopped early.  Reads come from that image and from nothing else until  *)
(* the client closes the handle, whatever is done with other handles.      *)
(***************************************************************************)
EXTENDS Naturals, Sequences

CONSTANTS
  File,      \* the regular files of the mounted archive
  Handle,    \* the open file descriptions the clients can hold
  Size,      \* Size[f] is the length stat() reports for f
  MaxRead,   \* the largest read request
  NULL

VARIABLES
  status,    \* "mounted" or "unmounted"
  view,      \* view[h]: the image handle h reads from, or NULL
  reply      \* the last answer to an open or a read

vars == <<status, view, reply>>

NoReply == [op |-> "none"]

OpenReply(h, err) == [op |-> "open", handle |-> h, err |-> err]

ReadReply(h, f, at, bytes) ==
  [op |-> "read", handle |-> h, file |-> f, at |-> at, bytes |-> bytes]

(* Byte i of an image of f: archived, zero-filled, or past the end, where  *)
(* nothing is promised.                                                    *)
ByteOf(f, len, good, i) ==
  IF i >= len THEN <<"junk">>
  ELSE IF i < good THEN <<"archived", f, i>> ELSE <<"zero">>

Init ==
  /\ status = "mounted"
  /\ view = [h \in Handle |-> NULL]
  /\ reply = NoReply

Open(h, f) ==
  /\ status = "mounted"
  /\ view[h] = NULL
  /\ \E good \in 0 .. Size[f] :
       view' = [view EXCEPT ![h] = [file |-> f, good |-> good]]
  /\ reply' = OpenReply(h, "OK")
  /\ UNCHANGED status

OpenFails(h, err) ==
  /\ status = "mounted"
  /\ reply' = OpenReply(h, err)
  /\ UNCHANGED <<status, view>>

Read(h, at, n) ==
  /\ status = "mounted"
  /\ view[h] # NULL
  /\ LET f == view[h].file IN
       reply' = ReadReply(h, f, at,
                  [i \in 1 .. n |-> ByteOf(f, Size[f], view[h].good, at + i - 1)])
  /\ UNCHANGED <<status, view>>

Close(h) ==
  /\ status = "mounted"
  /\ view[h] # NULL
  /\ view' = [view EXCEPT ![h] = NULL]
  /\ UNCHANGED <<status, reply>>

Unmount ==
  /\ status = "mounted"
  /\ status' = "unmounted"
  /\ view' = [h \in Handle |-> NULL]
  /\ UNCHANGED reply

Next ==
  \/ \E h \in Handle, f \in File : Open(h, f)
  \/ \E h \in Handle, err \in {"ENOENT", "EISDIR", "ENOMEM"} : OpenFails(h, err)
  \/ \E h \in Handle, n \in 1 .. MaxRead :
       view[h] # NULL /\ \E at \in 0 .. Size[view[h].file] : Read(h, at, n)
  \/ \E h \in Handle : Close(h)
  \/ Unmount

Spec == Init /\ [][Next]_vars
=============================================================================
