------------------------------ MODULE InStream ------------------------------
(***************************************************************************)
(* Fuse7zInStream over a C FILE: where a call leaves the position in a     *)
(* file of len bytes, and what the stream says of the file's length.       *)
(***************************************************************************)
EXTENDS Integers

CONSTANTS
  INTS,   \* 2^32, the values of an int
  ULLS    \* 2^64, of an unsigned long long

ASSUME InStreamAssumption ==
  /\ INTS \in Nat \ {0} /\ INTS % 2 = 0
  /\ ULLS \in Nat \ {0} /\ INTS <= ULLS

(* A long stored in an int.                                                *)
AsInt(n) == ((n + (INTS \div 2)) % INTS) - (INTS \div 2)

SEEK_SET == 0
SEEK_CUR == 1
SEEK_END == 2

(* Where fseek goes, from position in a file of len bytes; a target before *)
(* the start fails and leaves the position.                                *)
Seek(position, len, offset, seekOrigin) ==
  LET target == offset + (CASE seekOrigin = SEEK_SET -> 0
                            [] seekOrigin = SEEK_CUR -> position
                            [] seekOrigin = SEEK_END -> len)
  IN  IF target < 0 THEN position ELSE target

(* fread takes size bytes, or what is left of the file.                    *)
Read(position, len, size) ==
  IF position + size <= len THEN position + size
  ELSE IF position <= len THEN len ELSE position

(* GetSize widens the int to an unsigned long long.                        *)
GetSize(m_nFileSize) == m_nFileSize % ULLS

(* Mutant of Measured: the file is rewound before it is measured.          *)
MeasuredRewound(len) == AsInt(Seek(Seek(0, len, 0, SEEK_END), len, 0, SEEK_SET))

(* The constructor: to the end, and ftell.                                 *)
Measured(len) == AsInt(Seek(0, len, 0, SEEK_END))
=============================================================================
