----------------------------- MODULE BlobStore -----------------------------
(***************************************************************************)
(* What a blob store promises its callers (internal/blobstore/contract.go): *)
(* each call is one step on the set of committed blobs and on the upload   *)
(* sessions.  A call that fails for a reason of its own (I/O, a body of    *)
(* the wrong size or digest) leaves blobVars unchanged.                    *)
(*                                                                         *)
(* The bytes of an upload session are a sequence of pieces, a piece being  *)
(* the body of one PATCH.                                                  *)
(***************************************************************************)
EXTENDS SystemConstants, Naturals, Sequences

CONSTANTS
    Upload,            \* upload ids: fresh UUIDs, used once
    Piece,             \* bodies of PATCH requests
    Content,           \* the pieces each digest is the digest of
    MaxUploadLength,   \* bound: pieces appended to one session
    VacuumRunning      \* whether StartVacuumProcess was called

ASSUME BlobStoreAssumption ==
    /\ MaxUploadLength \in Nat
    /\ Content \in [Digest -> Seq(Piece)]
    /\ \A d, e \in Digest : Content[d] = Content[e] => d = e
    /\ VacuumRunning \in BOOLEAN

VARIABLES
    files,    \* keys (namespace, digest) at whose blob path there is a file
    uploads   \* upload sessions

blobVars == <<files, uploads>>

Session == [state : {"unused", "open", "gone"},
            ns : Namespace \cup {NoNamespace}, data : Seq(Piece)]

BlobTypeOK ==
    /\ files \subseteq Key
    /\ uploads \in [Upload -> Session]

BlobInit ==
    /\ files = {}
    /\ uploads = [u \in Upload |-> [state |-> "unused", ns |-> NoNamespace, data |-> <<>>]]

-----------------------------------------------------------------------------
(* Committed blobs *)

Stored(n, d) == <<n, d>> \in files

(* PutBlob of a body that matches d, before anyone committed d. *)
PutBlob(n, d) ==
    /\ ~Stored(n, d)
    /\ files' = files \cup {<<n, d>>}
    /\ UNCHANGED uploads

(* DeleteBlob: with no worker pool it fails and removes nothing. *)
DeleteBlob(n, d) ==
    /\ files' = IF VacuumRunning THEN files \ {<<n, d>>} ELSE files
    /\ UNCHANGED uploads

-----------------------------------------------------------------------------
(* Upload sessions.  A session is found under the namespace it was started in. *)

UploadKnown(n, u) == uploads[u].state = "open" /\ uploads[u].ns = n

(* Mutant: the offset of the last byte instead of the next one. *)
LastOffset(u) == Len(uploads[u].data) - 1

UploadOffset(u) == Len(uploads[u].data)

InitiateBlobUpload(n, u) ==
    /\ uploads[u].state = "unused"
    /\ uploads' = [uploads EXCEPT ![u] = [state |-> "open", ns |-> n, data |-> <<>>]]
    /\ UNCHANGED files

(* The bytes of p reach the file, whether or not the call then succeeds. *)
AppendPiece(u, p) ==
    /\ UploadOffset(u) < MaxUploadLength
    /\ uploads' = [uploads EXCEPT ![u].data = Append(@, p)]
    /\ UNCHANGED files

(* The staged bytes are those of d, and as many as the caller expects. *)
Verified(u, d, size) ==
    /\ UploadOffset(u) = size
    /\ uploads[u].data = Content[d]

(* The staged file is removed. *)
EndUpload(u) == [uploads EXCEPT ![u] = [state |-> "gone", ns |-> @.ns, data |-> <<>>]]

(* Mutant: the staged file is removed although it was never linked. *)
CommitUnlinked(n, u, d) ==
    /\ uploads' = EndUpload(u)
    /\ UNCHANGED files

(* Commit of a verified upload: the session ends; its bytes become the blob  *)
(* of d unless that blob is there already (ErrBlobCommitted).                *)
CommitStaged(n, u, d) ==
    /\ files' = files \cup {<<n, d>>}
    /\ uploads' = EndUpload(u)

(* CancelBlobUpload: removing a session that is not there is a no-op. *)
CancelBlobUpload(n, u) ==
    /\ uploads' = IF UploadKnown(n, u) THEN EndUpload(u) ELSE uploads
    /\ UNCHANGED files

-----------------------------------------------------------------------------
(* The store on its own, driven by arbitrary callers *)

BlobNext ==
    \/ \E n \in Namespace, d \in Digest : PutBlob(n, d) \/ DeleteBlob(n, d)
    \/ \E n \in Namespace, u \in Upload :
          \/ InitiateBlobUpload(n, u)
          \/ UploadKnown(n, u) /\ \E p \in Piece : AppendPiece(u, p)
          \/ UploadKnown(n, u) /\ \E d \in Digest :
                Verified(u, d, UploadOffset(u)) /\ CommitStaged(n, u, d)
          \/ CancelBlobUpload(n, u)

BlobSpec == BlobInit /\ [][BlobNext]_blobVars
=============================================================================
