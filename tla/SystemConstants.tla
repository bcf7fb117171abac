-------------------------- MODULE SystemConstants --------------------------
(* What the parts of the registry share: the names they use, and the         *)
(* failures of their environment.                                            *)

CONSTANTS
    Namespace,     \* repository names
    Digest,        \* digests; a digest stands for the one content it is of
    NoNamespace,   \* a request without a source, an upload that was never started
    NoDigest,      \* a manifest without a subject, a column of a missing row
    Faults         \* the failures of the environment that may happen

ASSUME SystemAssumption ==
    /\ NoNamespace \notin Namespace
    /\ NoDigest \notin Digest
    /\ Faults \subseteq {"metastore", "disk", "disconnect", "crash"}

(* The primary key of the tables, and what a blob path is made of. *)
Key == Namespace \X Digest
=============================================================================
