--------------------------- MODULE MCFsBlobStore ---------------------------
(* Small instances of FsBlobStore for TLC. *)
EXTENDS FsBlobStore, TLC

CONSTANTS d1, piece

MCContent == [d \in Digest |-> IF d = d1 THEN <<piece, piece>> ELSE <<piece>>]

Symmetric == Permutations(Thread)
=============================================================================
