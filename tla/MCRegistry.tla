----------------------------- MODULE MCRegistry -----------------------------
(* Instances of Registry for TLC. *)
EXTENDS Registry, TLC

CONSTANTS d1, d2, piece

(* As manifests, d2 names d1 as its subject. *)
MCSubject == [d \in Digest |-> IF d = d2 THEN d1 ELSE NoDigest]

(* As blobs, d1 is the digest of two pieces and d2 of one. *)
MCContent == [d \in Digest |-> IF d = d1 THEN <<piece, piece>> ELSE <<piece>>]

(* Slots serve requests of any client, and no slot or media type is named anywhere. *)
Symmetric ==
    Permutations(BlobRequest) \cup Permutations(ManifestRequest) \cup Permutations(MediaType)
=============================================================================
