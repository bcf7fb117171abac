------------------------------- MODULE Paths -------------------------------
(***************************************************************************)
(* The paths of the file system blob store, below its prefix: a sequence   *)
(* of components, of which the repository name gives the first ones.       *)
(***************************************************************************)
EXTENDS Naturals, Sequences

(* d has the fields algorithm and hex, the two parts of a digest. *)
BlobPath(namespace, d) == namespace \o <<d.algorithm, d.hex>>

StagingPath(namespace, id) == namespace \o <<".staging", id>>

(* The file system needs a directory at p to have a file at q. *)
Under(p, q) == Len(p) < Len(q) /\ \A i \in 1 .. Len(p) : p[i] = q[i]
=============================================================================
