-------------------------- MODULE MCItemExtraction --------------------------
(* Four items: one as long as its declared size, an empty one declared too  *)
(* long, one declared too short, and one of more than two chunks.           *)
EXTENDS ItemExtraction

Lengths == <<2, 0, 3, 5>>
Claimed == <<2, 1, 2, 6>>
=============================================================================
