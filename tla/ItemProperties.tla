--------------------------- MODULE ItemProperties ---------------------------
(***************************************************************************)
(* How an item's properties become the members of its node: the getters of *)
(* C7ZipArchiveItemImpl, which take apart a PROPVARIANT of the archive     *)
(* handler, and the conversions the indexing loop of Fuse7z_lib7zip makes. *)
(*                                                                         *)
(* Unsigned arithmetic wraps at WIDTH.  NULL stands for a getter that      *)
(* returns false, JUNK for memory that nothing has set.                    *)
(***************************************************************************)
EXTENDS Integers

CONSTANTS
  GAIN,      \* 10000000, FILETIME units in a second
  BIAS,      \* the FILETIME of 1970
  NSEC,      \* nanoseconds in a FILETIME unit, 100
  WIDTH,     \* 2^64
  NULL, JUNK

(* "error" is GetProperty answering something other than S_OK.             *)
VarType == {"EMPTY", "BOOL", "UI4", "UI8", "FILETIME", "error"}

PropVariant == [vt : VarType, val : 0 .. WIDTH - 1]

(* bias = secpy * gain * 369 + secpy * 2438356 + 5184000 is below 2^64.    *)
ASSUME ItemPropertiesAssumption ==
  /\ GAIN \in Nat \ {0}
  /\ NSEC \in Nat \ {0}
  /\ WIDTH \in Nat \ {0}
  /\ BIAS \in 0 .. WIDTH - 1
  /\ {NULL, JUNK} \cap Int = {}

GetUInt64Property(p) == IF p.vt \in {"UI4", "UI8"} THEN p.val ELSE NULL

GetFileTimeProperty(p) == IF p.vt = "FILETIME" THEN p.val ELSE NULL

(* IsArchiveItemFolder's error leaves isDir false.                         *)
IsDir(p) == p.vt = "BOOL" /\ p.val # 0

(* unsigned long long to off_t, which is signed.                           *)
OffT(n) == IF n = JUNK \/ n < WIDTH \div 2 THEN n ELSE n - WIDTH

SinceEpoch(t) == (t - BIAS) % WIDTH

(* Mutant of Nsec: the remainder is taken of the time itself.              *)
NsecUnbiased(t) == (t % GAIN) * NSEC

Sec(t) == SinceEpoch(t) \div GAIN
Nsec(t) == (SinceEpoch(t) % GAIN) * NSEC

Timespec(t) ==
  IF t = JUNK THEN [sec |-> JUNK, nsec |-> JUNK]
  ELSE [sec |-> Sec(t), nsec |-> Nsec(t)]

(* Does ts say the time t, to the unit?                                    *)
Says(ts, t) ==
  /\ ts.nsec \in 0 .. GAIN * NSEC - 1
  /\ ts.sec * (GAIN * NSEC) + ts.nsec = (t - BIAS) * NSEC
=============================================================================
