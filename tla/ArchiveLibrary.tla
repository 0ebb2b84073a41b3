--------------------------- MODULE ArchiveLibrary ---------------------------
(***************************************************************************)
(* The life of the objects behind a mounted archive: C7ZipLibrary with its *)
(* C7ZipDllHandlers, one per shared object it keeps loaded, the IInArchive *)
(* object a handler opens, and the C7ZipArchive and items that refer to    *)
(* it, and the Fuse7zInStream they all read, from the constructor of       *)
(* Fuse7z_lib7zip to its destructor.                                       *)
(*                                                                         *)
(* A shared object's code is gone once it has been closed as often as it   *)
(* was opened.  COM objects carry their reference counts; those of one     *)
(* attempt to open the file are gone before the next one starts.           *)
(***************************************************************************)
EXTENDS FormatNames, InStream

CONSTANTS
  Dll,            \* the shared objects, 7z.so and the plugins
  SevenZip,       \* 7z.so
  Installations,  \* what may be installed
  Files,          \* what may be mounted
  Methods,        \* the ids of compression methods
  MaxItems,       \* bound: items of an archive
  MaxPosition,    \* bound: how far in the file a handler goes
  Offsets         \* bound: the offsets handlers seek to

ASSUME ArchiveLibraryAssumption ==
  /\ SevenZip \in Dll
  /\ \A i \in Installations :
       /\ i.found \in BOOLEAN               \* does dlopen find 7z.so?
       /\ i.plugins \in Seq(Dll \ {SevenZip})  \* what LoadDllFromFolder opens
       /\ i.codecs \in {"unused", "taken", "refused", "declined"}
            \* by its archives: not asked for, accepted, kept although
            \* SetCompressCodecsInfo fails, not even looked at
       /\ DOMAIN i.offer = Dll              \* what each object exports
       /\ \A d \in Dll : \A j \in DOMAIN i.offer[d].coders :
            i.offer[d].coders[j].id \in Methods
       /\ \A d \in Dll :
            /\ i.offer[d].creates \in BOOLEAN  \* does CreateObject succeed?
            /\ i.offer[d].formats \in
                 Seq([name : STRING, readable : BOOLEAN, exts : Seq(DOMAIN Upper)])
            /\ i.offer[d].handles /\ ~i.offer[d].many => i.offer[d].formats # <<>>
  /\ {"7", "z"} \subseteq DOMAIN Upper
  /\ \A f \in Files : f.length \in Nat /\ f.path \in Seq(DOMAIN Upper)
  /\ MaxItems \in Nat
  /\ MaxPosition \in Nat
  /\ Offsets \subseteq Int

VARIABLES
  installation,  \* the one at hand
  file,          \* [path, opens, length, readBy, counted]: its name, does
                 \* fopen open it, which formats can read it
  step,          \* where the program is
  open,          \* is m_pFile open?
  m_nFileSize,
  position,      \* of m_pFile
  start,         \* where it was when the attempt at hand began
  loaded,        \* loaded[d]: dlopens of d less dlcloses
  handlers,      \* m_InternalObjectsArray: the object behind each handler
  m_bInitialized,
  infos,         \* arrays of C7ZipCodecInfo, filled less deleted
  scanned,       \* plugins LoadDllFromFolder has been through
  k,             \* the handler OpenArchive is at
  items,         \* length of m_ArchiveItems
  inArchive,     \* references to the IInArchive of the attempt
  wrap,          \* to its CInFileStreamWrap
  codecsInfo,    \* to its C7ZipCompressCodecsInfo
  lists,         \* C7ZipCompressCodecsInfos allocated less deleted
  openCallback,  \* to its CArchiveOpenCallback
  decoders       \* made through that list: [object, asked, made], the object
                 \* it is from, the method asked for, the method it is of

world == <<installation, file>>
stream == <<open, m_nFileSize, position>>
library == <<loaded, handlers, m_bInitialized, infos, scanned>>
objects == <<items, inArchive, wrap, codecsInfo, lists, openCallback, decoders>>
vars == <<world, step, stream, start, library, k, objects>>

Offer(d) == installation.offer[d]

Init ==
  /\ installation \in Installations
  /\ file \in Files
  /\ step = "fopen"
  /\ open = FALSE
  /\ m_nFileSize = 0
  /\ position = 0
  /\ start = 0
  /\ loaded = [d \in Dll |-> 0]
  /\ handlers = <<>>
  /\ m_bInitialized = FALSE
  /\ infos = 0
  /\ scanned = 0
  /\ k = 1
  /\ items = 0
  /\ inArchive = 0
  /\ wrap = 0
  /\ codecsInfo = 0
  /\ lists = 0
  /\ openCallback = 0
  /\ decoders = {}

-----------------------------------------------------------------------------
(* The stream *)

(* Fuse7zInStream measures the file and goes back to its start.            *)
OpenStream ==
  /\ step = "fopen"
  /\ file.opens
  /\ open' = TRUE
  /\ m_nFileSize' = Measured(file.length)
  /\ position' = Seek(file.length, file.length, 0, SEEK_SET)
  /\ step' = "initialize"
  /\ UNCHANGED <<world, start, library, k, objects>>

(* The member's constructor throws before the library is touched.          *)
OpenStreamFails ==
  /\ step = "fopen"
  /\ ~file.opens
  /\ step' = "thrown"
  /\ UNCHANGED <<world, stream, start, library, k, objects>>

-----------------------------------------------------------------------------
(* Loading *)

(* How many formats the loop asks about: all that GetNumberOfFormats       *)
(* counts, or the only one of an object without GetHandlerProperty2.       *)
NumFormats(o) == IF o.many THEN Len(o.formats) ELSE 1

(* Mutant of LoadFormats: an unreadable format ends the loop (break).      *)
LoadFormatsUpTo(o) ==
  {i \in 1 .. NumFormats(o) : \A j \in 1 .. i : o.formats[j].readable}

(* The infos of an object's formats, in the order of their indexes: one    *)
(* with a property that cannot be read is passed over (continue).          *)
LoadFormats(o) == {i \in 1 .. NumFormats(o) : o.formats[i].readable}

FormatsOf(d) ==
  IF Offer(d).handles /\ Offer(d).counts THEN LoadFormats(Offer(d)) ELSE {}

ReadableCoders(d) == {i \in DOMAIN Offer(d).coders : Offer(d).coders[i].readable}

(* Mutant of LoadCodecs: CodecIndex is the place in the list.              *)
LoadCodecsRenumbered(d) ==
  {[object |-> d, CodecIndex |-> Cardinality({j \in ReadableCoders(d) : j <= i}),
    Decoder |-> i, DecoderAssigned |-> Offer(d).coders[i].decoder] : i \in ReadableCoders(d)}

(* The C7ZipCodecInfos of an object: a method whose classes cannot be read *)
(* is passed over, and the others keep their index in the object.  Decoder *)
(* is the class the object makes for the method of that index.             *)
LoadCodecs(d) ==
  {[object |-> d, CodecIndex |-> i,
    Decoder |-> i, DecoderAssigned |-> Offer(d).coders[i].decoder] : i \in ReadableCoders(d)}

CodecsOf(d) == IF Offer(d).methods THEN LoadCodecs(d) ELSE {}

(* The functions of IsValid are there, and LoadCodecs or LoadFormats       *)
(* succeeded.                                                              *)
IsInitialized(d) ==
  /\ Offer(d).valid
  /\ Offer(d).methods \/ (Offer(d).handles /\ Offer(d).counts)

(* Mutant of Construct: an uninitialized handler is not deleted.           *)
ConstructKeeping(d) ==
  /\ loaded' = [loaded EXCEPT ![d] = @ + 1]
  /\ infos' = infos + (IF IsInitialized(d) THEN 1 ELSE 0)
  /\ handlers' = IF IsInitialized(d) THEN Append(handlers, d) ELSE handlers

(* A handler made for an object just opened is deleted, which closes the   *)
(* object and deletes its codec infos, unless it is initialized.           *)
Construct(d) ==
  IF IsInitialized(d)
    THEN /\ loaded' = [loaded EXCEPT ![d] = @ + 1]
         /\ infos' = infos + 1
         /\ handlers' = Append(handlers, d)
    ELSE UNCHANGED <<loaded, infos, handlers>>

Initialize ==
  /\ step = "initialize"
  /\ installation.found
  /\ Construct(SevenZip)
  /\ m_bInitialized' = IsInitialized(SevenZip)
  /\ step' = IF IsInitialized(SevenZip) THEN "scan" ELSE "thrown"
  /\ UNCHANGED <<world, stream, start, scanned, k, objects>>

(* 7z.so is not on the library path: Initialize returns false, and the     *)
(* constructor throws.                                                     *)
InitializeFails ==
  /\ step = "initialize"
  /\ ~installation.found
  /\ step' = "thrown"
  /\ UNCHANGED <<world, stream, start, library, k, objects>>

(* LoadDllFromFolder comes to the next plugin.                             *)
LoadPlugin ==
  /\ step = "scan"
  /\ scanned < Len(installation.plugins)
  /\ Construct(installation.plugins[scanned + 1])
  /\ scanned' = scanned + 1
  /\ UNCHANGED <<world, step, stream, start, m_bInitialized, k, objects>>

Scanned ==
  /\ step = "scan"
  /\ scanned = Len(installation.plugins)
  /\ step' = "try"
  /\ UNCHANGED <<world, stream, start, library, k, objects>>

-----------------------------------------------------------------------------
(* Opening *)

(* The name, in a set, of the handler's first format with the extension.   *)
Matching(d) ==
  LET formats == Offer(d).formats
      fits == {i \in FormatsOf(d) : Lists(formats[i].exts, GetExt(file.path))}
  IN  {formats[i].name : i \in {i \in fits : \A j \in fits : i <= j}}

(* The handler has no format for the extension: OpenArchive goes on.       *)
NoFormat ==
  /\ step = "try"
  /\ k <= Len(handlers)
  /\ Matching(handlers[k]) = {}
  /\ k' = k + 1
  /\ UNCHANGED <<world, step, stream, start, library, objects>>

(* CreateObject fails, or makes no archive: InternalOpenArchive returns    *)
(* false before it has made anything.                                      *)
CreateFails ==
  /\ step = "try"
  /\ k <= Len(handlers)
  /\ Matching(handlers[k]) # {}
  /\ ~Offer(handlers[k]).creates
  /\ k' = k + 1
  /\ UNCHANGED <<world, step, stream, start, library, objects>>

(* CreateObject made the archive.  Two CMyComPtr hold the stream wrapper;  *)
(* an archive that takes external codecs is held twice, and is given their *)
(* list, which points into every handler, by a plain pointer: only the     *)
(* archive can hold it.  Open begins wherever the stream is.               *)
CreateInArchive ==
  /\ step = "try"
  /\ k <= Len(handlers)
  /\ Matching(handlers[k]) # {}
  /\ Offer(handlers[k]).creates
  /\ inArchive' = IF installation.codecs = "unused" THEN 1 ELSE 2
  /\ codecsInfo' = IF installation.codecs \in {"taken", "refused"} THEN 1 ELSE 0
  /\ lists' = IF installation.codecs = "unused" THEN lists ELSE lists + 1
  /\ wrap' = 2
  /\ openCallback' = 1
  /\ start' = position
  /\ step' = "open"
  /\ UNCHANGED <<world, stream, library, k, items, decoders>>

(* SetCompressCodecsInfo was not called, or succeeded.                     *)
Accepted == installation.codecs \in {"unused", "taken"}

(* The archive reads the file while it is opened.  (Decoders do when an    *)
(* item is extracted, but nobody depends on the position any more.)        *)
Reading == step = "open" /\ Accepted

StreamRead(size) ==
  /\ Reading
  /\ position' = Read(position, file.length, size)
  /\ UNCHANGED <<world, step, open, m_nFileSize, start, library, k, objects>>

StreamSeek(offset, seekOrigin) ==
  /\ Reading
  /\ Seek(position, file.length, offset, seekOrigin) <= MaxPosition
  /\ position' = Seek(position, file.length, offset, seekOrigin)
  /\ UNCHANGED <<world, step, open, m_nFileSize, start, library, k, objects>>

(* Mutant of OnStack: the reference QueryInterface added is forgotten.     *)
OnStackForgotten == 1

(* The CMyComPtrs to the archive on InternalOpenArchive's stack.           *)
OnStack == IF installation.codecs = "unused" THEN 1 ELSE 2

(* Mutant of CodecsInfoGone: its array deletes the infos it points to.     *)
CodecsInfoGoneReleasing == infos' = IF codecsInfo > 0 THEN 0 ELSE infos

(* m_CodecInfoArray(false): only the pointers go.                          *)
CodecsInfoGone == UNCHANGED infos

(* What an archive with n references left keeps, besides that: its stream  *)
(* wrapper, its codecs and its decoders, or nothing when it is destroyed;  *)
(* the list it holds goes with it.                                         *)
Keeps(n) ==
  /\ inArchive' = n
  /\ wrap' = IF n = 0 THEN 0 ELSE 1
  /\ codecsInfo' = IF n = 0 THEN 0 ELSE codecsInfo
  /\ lists' = IF n = 0 THEN lists - codecsInfo ELSE lists
  /\ decoders' = IF n = 0 THEN {} ELSE decoders
  /\ IF n = 0 THEN CodecsInfoGone ELSE UNCHANGED infos

CanOpen ==
  /\ Accepted
  /\ Matching(handlers[k]) \subseteq file.readBy
  /\ file.counted

(* The archive refuses the codecs, or archive->Open fails, because the     *)
(* format cannot read the file, does not begin at its start or the items   *)
(* cannot be counted: the attempt's objects go, the next is tried, and the *)
(* stream stays where it is.                                               *)
OpenFails ==
  /\ step = "open"
  /\ ~CanOpen \/ start # 0
  /\ Keeps(inArchive - OnStack)
  /\ openCallback' = openCallback - 1
  /\ k' = k + 1
  /\ step' = "try"
  /\ UNCHANGED <<world, stream, start, loaded, handlers, m_bInitialized, scanned, items>>

(* Mutant of Adopt: the C7ZipArchiveImpl takes the pointer over without    *)
(* a reference of its own.                                                 *)
AdoptBare(n) == inArchive - OnStack + n

(* The C7ZipArchiveImpl and each of its n items hold the archive.          *)
Adopt(n) == inArchive - OnStack + 1 + n

(* archive->Open succeeds and Create7ZipArchive makes one item per index.  *)
Opens(n) ==
  /\ step = "open"
  /\ CanOpen
  /\ Keeps(Adopt(n))
  /\ openCallback' = openCallback - 1
  /\ items' = n
  /\ step' = "mounted"
  /\ UNCHANGED <<world, stream, start, loaded, handlers, m_bInitialized, scanned, k>>

(* No handler is left: OpenArchive returns false, the constructor throws.  *)
NothingOpens ==
  /\ step = "try"
  /\ k > Len(handlers)
  /\ step' = "thrown"
  /\ UNCHANGED <<world, stream, start, library, k, objects>>

-----------------------------------------------------------------------------
(* Serving and unmounting *)

Loaders == {handlers[j] : j \in 1 .. Len(handlers)}

(* The handlers made for an object, which may have several names.          *)
HandlersOf(d) == {j \in DOMAIN handlers : handlers[j] = d}

(* InitData: the list is that of all handlers.                             *)
CodecInfoArray == UNION {CodecsOf(d) : d \in Loaders}

(* The id the object answers for the info's index.                         *)
GetProperty(c) == Offer(c.object).coders[c.CodecIndex].id

(* Extracting an item makes the decoder of a method it finds in the list;  *)
(* the object makes one of the class that was read when it was loaded.     *)
CreateDecoder(c) ==
  /\ step = "mounted"
  /\ codecsInfo > 0
  /\ c \in CodecInfoArray
  /\ c.DecoderAssigned
  /\ decoders' = decoders \cup {[object |-> c.object, asked |-> GetProperty(c),
                                 made |-> Offer(c.object).coders[c.Decoder].id]}
  /\ UNCHANGED <<world, step, stream, start, library, k, items, inArchive, wrap,
                 codecsInfo, lists, openCallback>>

(* Mutant of Unmount: the library goes before the archive.                 *)
UnmountLibraryFirst == "emptying"

(* ~Fuse7z_lib7zip deletes the archive first.                              *)
Unmount == "deleting"

Destroy ==
  /\ step = "mounted"
  /\ step' = Unmount
  /\ UNCHANGED <<world, stream, start, library, k, objects>>

(* delete archive: each item and the C7ZipArchiveImpl drop a reference.    *)
DeleteArchive ==
  /\ step = "deleting"
  /\ Keeps(inArchive - items - 1)
  /\ items' = 0
  /\ step' = "emptying"
  /\ UNCHANGED <<world, stream, start, loaded, handlers, m_bInitialized, scanned, k,
                 openCallback>>

(* Mutant of Emptied: the array keeps its pointers and the flag stays.     *)
EmptiedNot == UNCHANGED <<handlers, m_bInitialized>>

Emptied == handlers' = <<>> /\ m_bInitialized' = FALSE

(* Deinitialize: unless it has run, every handler is deleted, and each     *)
(* closes its object and deletes its codec infos.                          *)
Deinitialize ==
  /\ IF m_bInitialized
       THEN /\ loaded' = [d \in Dll |-> loaded[d] - Cardinality(HandlersOf(d))]
            /\ infos' = infos - Len(handlers)
            /\ Emptied
       ELSE UNCHANGED <<loaded, infos, handlers, m_bInitialized>>
  /\ UNCHANGED <<world, m_nFileSize, position, start, scanned, k, objects>>

DeinitializeLibrary ==
  /\ step = "emptying"
  /\ Deinitialize
  /\ UNCHANGED open
  /\ step' = "destructor"

(* The members' destructors: ~Fuse7zInStream closes the file, ~C7ZipLibrary *)
(* deinitializes once more.                                                *)
DestroyMembers ==
  /\ step = "destructor"
  /\ open' = FALSE
  /\ Deinitialize
  /\ step' = "gone"

(* An exception of the constructor meets no handler in main: the process   *)
(* ends with what it has loaded.                                           *)
Stopped == step \in {"thrown", "gone"} /\ UNCHANGED vars

Next ==
  \/ OpenStream \/ OpenStreamFails
  \/ Initialize \/ InitializeFails
  \/ LoadPlugin \/ Scanned
  \/ NoFormat \/ CreateFails
  \/ CreateInArchive
  \/ \E size \in 1 .. MaxPosition : StreamRead(size)
  \/ \E offset \in Offsets, seekOrigin \in {SEEK_SET, SEEK_CUR, SEEK_END} :
       StreamSeek(offset, seekOrigin)
  \/ OpenFails
  \/ \E n \in 0 .. MaxItems : Opens(n)
  \/ NothingOpens
  \/ \E c \in CodecInfoArray : CreateDecoder(c)
  \/ Destroy \/ DeleteArchive \/ DeinitializeLibrary \/ DestroyMembers
  \/ Stopped

Spec == Init /\ [][Next]_vars

-----------------------------------------------------------------------------
(* Properties *)

(* Every variable keeps its type: no reference is dropped twice and no     *)
(* object closed more often than opened.                                   *)
TypeOK ==
  /\ installation \in Installations
  /\ file \in Files
  /\ step \in {"fopen", "initialize", "scan", "try", "open", "mounted", "deleting",
               "emptying", "destructor", "gone", "thrown"}
  /\ open \in BOOLEAN
  /\ m_nFileSize \in -(INTS \div 2) .. (INTS \div 2) - 1
  /\ {position, start} \subseteq Nat
  /\ loaded \in [Dll -> Nat]
  /\ handlers \in Seq(Dll)
  /\ m_bInitialized \in BOOLEAN
  /\ infos \in Nat
  /\ scanned \in 0 .. Len(installation.plugins)
  /\ k \in 1 .. Len(installation.plugins) + 2
  /\ items \in 0 .. MaxItems
  /\ {inArchive, wrap, codecsInfo, lists, openCallback} \subseteq Nat
  /\ decoders \subseteq [object : Dll, asked : Methods, made : Methods]

(* As long as the archive object lives, what it uses does: the stream it   *)
(* reads is open, and loaded are the object that made it, every object     *)
(* whose decoders it has and, when it has a list of codecs, every object   *)
(* listed there, the infos of which are still in memory.                   *)
CodeStaysLoaded ==
  inArchive > 0 =>
    /\ open
    /\ k <= Len(handlers)
    /\ loaded[handlers[k]] > 0
    /\ \A d \in decoders : loaded[d.object] > 0
    /\ codecsInfo > 0 => infos = Len(handlers) /\ \A d \in Loaders : loaded[d] > 0

(* Nothing is left of a failed attempt to open the file, nor of anything   *)
(* once ~Fuse7z_lib7zip has run: no archive, wrapper or callback, no open  *)
(* file, each object is closed as often as it was opened, and no list of   *)
(* codecs, if the archives hold the list before they can refuse it.        *)
NothingStays ==
  /\ step \in {"try", "thrown", "destructor", "gone"} =>
       /\ inArchive = 0 /\ wrap = 0 /\ codecsInfo = 0 /\ openCallback = 0
       /\ installation.codecs # "declined" => lists = 0
  /\ step = "gone" => ~open /\ infos = 0 /\ \A d \in Dll : loaded[d] = 0

(* Each object is loaded once per handler kept for it: a plugin that does  *)
(* not initialize is closed at once.                                       *)
OneLoadPerHandler ==
  \A d \in Dll : loaded[d] = Cardinality(HandlersOf(d))

(* A decoder made through the list is of the method it was asked for, in   *)
(* an object that may have methods the list leaves out.                    *)
DecodersFitMethods == \A d \in decoders : d.asked = d.made

(* The handlers are told the length of the file, the same by GetSize as by *)
(* going to its end, below the range of int; and the first one finds the   *)
(* stream at its start.                                                    *)
SizeTold ==
  /\ step # "fopen" /\ open /\ file.length < INTS \div 2 =>
       GetSize(m_nFileSize) = file.length
  /\ step \in {"initialize", "scan"} => position = 0

(* The objects an installation has, in the order they are loaded.          *)
Order == <<SevenZip>> \o installation.plugins

Format(a) == Offer(Order[a[1]]).formats[a[2]]

(* The formats it really offers, of objects that can make an archive, as    *)
(* <<place in Order, number in the object>>.                                *)
Offered ==
  UNION {LET d == Order[n] IN
         {a \in {n} \X (1 .. NumFormats(Offer(d))) :
            /\ IsInitialized(d) /\ Offer(d).handles /\ Offer(d).counts
            /\ Offer(d).creates /\ Format(a).readable} : n \in 1 .. Len(Order)}

Before(a, b) == a[1] < b[1] \/ (a[1] = b[1] /\ a[2] < b[2])

Usable ==
  /\ file.opens /\ file.counted
  /\ installation.found /\ Accepted /\ IsInitialized(SevenZip)

(* A file is mounted if the first of the offered formats that list the     *)
(* extension of its name can read it: formats with other extensions and    *)
(* unreadable ones do not matter, nor does what comes later.               *)
OpensWhatFits ==
  (step = "thrown" /\ Usable) =>
    \A ext \in Extensions(file.path) :
      LET fitting == {a \in Offered : Names(Format(a).exts, ext)}
      IN  \A a \in fitting :
            (\A b \in fitting : ~Before(b, a)) => Format(a).name \notin file.readBy

(* README: all archive formats supported by 7-zip can be accessed.  Every  *)
(* file that some offered format can read is mounted.                      *)
MountsWhatIsSupported ==
  (step = "thrown" /\ Usable) => \A a \in Offered : Format(a).name \notin file.readBy
=============================================================================
