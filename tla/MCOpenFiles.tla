----------------------------- MODULE MCOpenFiles -----------------------------
(* Instances of OpenFiles: files of nought, one, two and too many bytes.    *)
EXTENDS OpenFiles, TLC

CONSTANTS empty, short, long, huge

SizeOf == (empty :> 0) @@ (short :> 1) @@ (long :> 2) @@ (huge :> 3)

Sizes == [f \in File |-> SizeOf[f]]

Interchangeable == Permutations(Handle) \cup Permutations(Stream)
=============================================================================
