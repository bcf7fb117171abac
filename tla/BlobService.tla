---------------------------- MODULE BlobService ----------------------------
(***************************************************************************)
(* The blob service (internal/blob) as the REST handlers drive it: a slot  *)
(* of BlobRequest is a goroutine serving one request after another, and an *)
(* action is one call it makes of the metadata store or of the blob store, *)
(* with the code between that call and the next.  pc names the next call.  *)
(***************************************************************************)
EXTENDS Metastore, BlobStore

CONSTANTS
    BlobRequest,   \* request slots
    BlobOps,       \* operations the clients of a run use
    NoUploadID     \* a request that names no upload

ASSUME BlobServiceAssumption ==
    /\ BlobOps \subseteq {"Head", "Get", "Range", "Monolithic", "Mount", "Initiate",
                          "Append", "Commit", "Status", "Cancel"}
    /\ NoUploadID \notin Upload

VARIABLE blobReq   \* the request in each slot

FirstCall == [op \in {"Head", "Get", "Range", "Monolithic", "Mount", "Initiate",
                      "Append", "Commit", "Status", "Cancel"} |->
    CASE op \in {"Head", "Get", "Range"} -> "stat"
      [] op = "Monolithic" -> "put"
      [] op = "Mount"      -> "mountSource"
      [] op = "Initiate"   -> "initiate"
      [] op = "Append"     -> "append"
      [] op = "Commit"     -> "offset"
      [] op = "Status"     -> "status"
      [] op = "Cancel"     -> "cancelStat"]

BlobPC == {"idle", "done", "stat", "open", "put", "statExisting", "register", "cleanup",
           "mountSource", "mountOpen", "fallback", "initiate", "append", "offset",
           "finalChunk", "finalize", "discard", "status", "cancelStat", "cancel"}

BlobReply == {"none", "ok", "accepted", "nameUnknown", "blobUnknown", "uploadUnknown",
              "rejected", "rangeInvalid", "truncated", "error"}

BlobRequestRecord ==
    [op : DOMAIN FirstCall \cup {"none"}, pc : BlobPC, reply : BlobReply,
     ns : Namespace \cup {NoNamespace}, dg : Digest \cup {NoDigest},
     src : Namespace \cup {NoNamespace}, up : Upload \cup {NoUploadID},
     offset : Nat,      \* totalSize of CommitUpload
     mine : BOOLEAN,    \* PutBlob or FinalizeBlobUpload returned nil: this request made the file
     alive : BOOLEAN]   \* the request context is not cancelled

Request(op, pc, reply, n, d, s, u) ==
    [op |-> op, pc |-> pc, reply |-> reply, ns |-> n, dg |-> d, src |-> s, up |-> u,
     offset |-> 0, mine |-> FALSE, alive |-> TRUE]

NoRequest == Request("none", "idle", "none", NoNamespace, NoDigest, NoNamespace, NoUploadID)

BlobReqTypeOK == blobReq \in [BlobRequest -> BlobRequestRecord]

BlobReqInit == blobReq = [r \in BlobRequest |-> NoRequest]

-----------------------------------------------------------------------------
At(r, pc) == blobReq[r].pc = pc
Op(r) == blobReq[r].op
Ns(r) == blobReq[r].ns
Dg(r) == blobReq[r].dg
Src(r) == blobReq[r].src
Up(r) == blobReq[r].up
Alive(r) == blobReq[r].alive

Goto(r, pc) == blobReq' = [blobReq EXCEPT ![r].pc = pc]

(* The file is this request's; the transaction is next. *)
GotoRegister(r) ==
    blobReq' = [blobReq EXCEPT ![r] = [@ EXCEPT !.pc = "register", !.mine = TRUE]]

GotoAt(r, pc, offset) ==
    blobReq' = [blobReq EXCEPT ![r] = [@ EXCEPT !.pc = pc, !.offset = offset]]

Answer(r, reply) ==
    blobReq' = [blobReq EXCEPT ![r] =
        Request(Op(r), "done", reply, Ns(r), Dg(r), NoNamespace, NoUploadID)]

ReadOnly == UNCHANGED <<metaVars, blobVars>>

(* Atomic and NamespaceExists return an error: the context is cancelled, or the *)
(* database fails.                                                              *)
MetaCanFail(r) == ~Alive(r) \/ "metastore" \in Faults

DiskCanFail == "disk" \in Faults

-----------------------------------------------------------------------------
(* What a request names, by operation. *)
WellAddressed(op, d, s, u) ==
    /\ op # "Mount" => s = NoNamespace
    /\ op \in {"Append", "Commit", "Status", "Cancel"} <=> u # NoUploadID
    /\ op \in {"Initiate", "Append", "Status", "Cancel"} <=> d = NoDigest

NewRequest(op, n, d, s, u) ==
    IF NamespaceExists(n)
    THEN Request(op, FirstCall[op], "none", n, d, s, u)
    ELSE Request(op, "done", "nameUnknown", n, d, NoNamespace, NoUploadID)

RefusedRequest(op, n, d) == Request(op, "done", "error", n, d, NoNamespace, NoUploadID)

(* A request arrives in a free slot; its first call is NamespaceExists, which    *)
(* may fail.                                                                     *)
BlobArrive(r) ==
    /\ blobReq[r].pc \in {"idle", "done"}
    /\ \E op \in BlobOps, n \in Namespace, d \in Digest \cup {NoDigest},
          s \in Namespace \cup {NoNamespace}, u \in Upload \cup {NoUploadID} :
          /\ WellAddressed(op, d, s, u)
          /\ \/ blobReq' = [blobReq EXCEPT ![r] = NewRequest(op, n, d, s, u)]
             \/ /\ Faults \cap {"metastore", "disconnect"} # {}
                /\ blobReq' = [blobReq EXCEPT ![r] = RefusedRequest(op, n, d)]
    /\ ReadOnly

(* The client goes away: the server cancels the request's context. *)
Disconnect(r) ==
    /\ "disconnect" \in Faults
    /\ blobReq[r].pc \notin {"idle", "done"}
    /\ Alive(r)
    /\ blobReq' = [blobReq EXCEPT ![r].alive = FALSE]
    /\ ReadOnly

-----------------------------------------------------------------------------
(* StatBlob, GetBlob and GetBlobRange *)

StatRegistered(r) ==
    /\ At(r, "stat")
    /\ \/ /\ Alive(r)
          /\ IF StatNamespaceBlob(Ns(r), Dg(r))
             THEN \/ Op(r) = "Head" /\ Answer(r, "ok")
                  \/ Op(r) # "Head" /\ Goto(r, "open")
                  \/ Op(r) = "Range" /\ Answer(r, "rangeInvalid")
             ELSE Answer(r, "blobUnknown")
       \/ MetaCanFail(r) /\ Answer(r, "error")
    /\ ReadOnly

(* GetBlobRange opens the file in its own goroutine, after the 206 status is sent: *)
(* its "error" is a 206 that the disk breaks off.                                  *)
OpenBlob(r) ==
    /\ At(r, "open")
    /\ \/ Stored(Ns(r), Dg(r)) /\ Answer(r, "ok")
       \/ ~Stored(Ns(r), Dg(r)) /\ Op(r) = "Get" /\ Answer(r, "blobUnknown")
       \/ ~Stored(Ns(r), Dg(r)) /\ Op(r) = "Range" /\ Answer(r, "truncated")
       \/ DiskCanFail /\ Answer(r, "error")
    /\ ReadOnly

-----------------------------------------------------------------------------
(* MonolithicUpload, and the copy of MountBlob *)

PutFile(r) ==
    /\ At(r, "put")
    /\ PutBlob(Ns(r), Dg(r))
    /\ GotoRegister(r)
    /\ UNCHANGED metaVars

PutFileCommitted(r) ==
    /\ At(r, "put")
    /\ Stored(Ns(r), Dg(r))
    /\ Goto(r, "statExisting")
    /\ ReadOnly

(* The body is short, long, or of another digest; or the disk fails. *)
PutFileFails(r) ==
    /\ At(r, "put")
    /\ \/ Op(r) = "Monolithic" /\ Answer(r, "rejected")
       \/ DiskCanFail /\ Answer(r, "error")
    /\ ReadOnly

StatExisting(r) ==
    /\ At(r, "statExisting")
    /\ \/ Stored(Ns(r), Dg(r)) /\ Goto(r, "register")
       \/ (~Stored(Ns(r), Dg(r)) \/ DiskCanFail) /\ Answer(r, "error")
    /\ ReadOnly

(* Mutant: the error of the transaction is dropped. *)
RegisterUnchecked(r) ==
    /\ At(r, "register")
    /\ \/ Alive(r) /\ InsertNamespaceBlob(Ns(r), Dg(r))
       \/ MetaCanFail(r) /\ UNCHANGED metaVars
    /\ Answer(r, "ok")
    /\ UNCHANGED blobVars

(* The transaction that registers the blob, the last call of every upload but a  *)
(* mount, which closes the file of its source and answers the error of that.     *)
Register(r) ==
    /\ At(r, "register")
    /\ Alive(r)
    /\ InsertNamespaceBlob(Ns(r), Dg(r))
    /\ \/ Answer(r, "ok")
       \/ Op(r) = "Mount" /\ DiskCanFail /\ Answer(r, "error")
    /\ UNCHANGED blobVars

(* Mutant: as PutManifest, no cleanup. *)
RegisterFailsNoCleanup(r) ==
    /\ At(r, "register")
    /\ MetaCanFail(r) \/ ~ForeignKeyHolds(Ns(r))
    /\ Answer(r, "error")
    /\ ReadOnly

(* It fails: MountBlob deletes only a file it made, the other two delete always. *)
RegisterFails(r) ==
    /\ At(r, "register")
    /\ MetaCanFail(r) \/ ~ForeignKeyHolds(Ns(r))
    /\ IF Op(r) = "Mount" /\ ~blobReq[r].mine
       THEN Answer(r, "error")
       ELSE Goto(r, "cleanup")
    /\ ReadOnly

(* DeleteBlob looks at the context first. *)
Cleanup(r) ==
    /\ At(r, "cleanup")
    /\ \/ Alive(r) /\ DeleteBlob(Ns(r), Dg(r))
       \/ (~Alive(r) \/ DiskCanFail) /\ UNCHANGED blobVars
    /\ Answer(r, "error")
    /\ UNCHANGED metaVars

-----------------------------------------------------------------------------
(* MountBlob: the source is looked up as a namespace and as a file. *)

MountSource(r) ==
    /\ At(r, "mountSource")
    /\ \/ /\ Alive(r)
          /\ Goto(r, IF NamespaceExists(Src(r)) THEN "mountOpen" ELSE "fallback")
       \/ MetaCanFail(r) /\ Answer(r, "error")
    /\ ReadOnly

MountOpen(r) ==
    /\ At(r, "mountOpen")
    /\ \/ Goto(r, IF Stored(Src(r), Dg(r)) THEN "put" ELSE "fallback")
       \/ DiskCanFail /\ Answer(r, "error")
    /\ ReadOnly

(* ErrMountFailed: the handler starts an upload session instead. *)
MountFallback(r) ==
    /\ At(r, "fallback")
    /\ \/ Alive(r) /\ NamespaceExists(Ns(r)) /\ Goto(r, "initiate")
       \/ Alive(r) /\ ~NamespaceExists(Ns(r)) /\ Answer(r, "nameUnknown")
       \/ MetaCanFail(r) /\ Answer(r, "error")
    /\ ReadOnly

-----------------------------------------------------------------------------
(* Upload sessions *)

Initiate(r) ==
    /\ At(r, "initiate")
    /\ \/ Answer(r, "accepted") /\ \E u \in Upload : InitiateBlobUpload(Ns(r), u)
       \/ Answer(r, "error") /\ UNCHANGED blobVars
    /\ UNCHANGED metaVars

AppendChunk(r) ==
    /\ At(r, "append")
    /\ UploadKnown(Ns(r), Up(r))
    /\ \/ /\ \E p \in Piece : AppendPiece(Up(r), p)
          /\ Answer(r, "accepted") \/ Answer(r, "error")
       \/ Answer(r, "rangeInvalid") /\ UNCHANGED blobVars
       \/ Answer(r, "error") /\ UNCHANGED blobVars
    /\ UNCHANGED metaVars

(* CommitUpload, appendFinalChunk: the offset the session has now... *)
CommitOffset(r) ==
    /\ At(r, "offset")
    /\ UploadKnown(Ns(r), Up(r))
    /\ \/ \E next \in {"finalChunk", "finalize"} :
             GotoAt(r, next, UploadOffset(Up(r)))
       \/ DiskCanFail /\ Answer(r, "error")
    /\ ReadOnly

(* ...and the body of the PUT appended there, if no other request was faster. *)
FinalChunk(r) ==
    /\ At(r, "finalChunk")
    /\ UploadKnown(Ns(r), Up(r))
    /\ \/ /\ UploadOffset(Up(r)) = blobReq[r].offset
          /\ \E p \in Piece : AppendPiece(Up(r), p)
          /\ \/ GotoAt(r, "finalize", blobReq[r].offset + 1)
             \/ Answer(r, "error")
       \/ Answer(r, "error") /\ UNCHANGED blobVars   \* body cut short, or offset is stale
    /\ UNCHANGED metaVars

(* FinalizeBlobUpload returns nil, or ErrBlobCommitted, which handleFinalizeError *)
(* does not know.                                                                 *)
Finalize(r) ==
    /\ At(r, "finalize")
    /\ UploadKnown(Ns(r), Up(r))
    /\ Verified(Up(r), Dg(r), blobReq[r].offset)
    /\ CommitStaged(Ns(r), Up(r), Dg(r))
    /\ IF Stored(Ns(r), Dg(r))
       THEN Answer(r, "error")
       ELSE GotoRegister(r)
    /\ UNCHANGED metaVars

(* Mutant: a commit that does not find the size it expects cancels the session too. *)
FinalizeFailsForAll(r) ==
    /\ At(r, "finalize")
    /\ UploadKnown(Ns(r), Up(r))
    /\ \/ ~Verified(Up(r), Dg(r), blobReq[r].offset) /\ Goto(r, "discard")
       \/ DiskCanFail /\ Answer(r, "error")
    /\ ReadOnly

(* ErrSizeInvalid: another request was faster, and the session is left to it. *)
FinalizeFails(r) ==
    /\ At(r, "finalize")
    /\ UploadKnown(Ns(r), Up(r))
    /\ \/ UploadOffset(Up(r)) # blobReq[r].offset /\ Answer(r, "rejected")
       \/ /\ UploadOffset(Up(r)) = blobReq[r].offset
          /\ ~Verified(Up(r), Dg(r), blobReq[r].offset)
          /\ Goto(r, "discard")
       \/ DiskCanFail /\ Answer(r, "error")
    /\ ReadOnly

(* A digest mismatch ends the session, if its file can be removed. *)
Discard(r) ==
    /\ At(r, "discard")
    /\ \/ CancelBlobUpload(Ns(r), Up(r))
       \/ DiskCanFail /\ UNCHANGED blobVars
    /\ Answer(r, "rejected")
    /\ UNCHANGED metaVars

GetUploadStatus(r) ==
    /\ At(r, "status")
    /\ UploadKnown(Ns(r), Up(r))
    /\ \/ Answer(r, "ok")
       \/ DiskCanFail /\ Answer(r, "error")
    /\ ReadOnly

CancelStat(r) ==
    /\ At(r, "cancelStat")
    /\ UploadKnown(Ns(r), Up(r))
    /\ \/ Goto(r, "cancel")
       \/ DiskCanFail /\ Answer(r, "error")
    /\ ReadOnly

CancelUpload(r) ==
    /\ At(r, "cancel")
    /\ \/ CancelBlobUpload(Ns(r), Up(r)) /\ Answer(r, "ok")
       \/ DiskCanFail /\ UNCHANGED blobVars /\ Answer(r, "error")
    /\ UNCHANGED metaVars

UploadUnknown(r) ==
    /\ blobReq[r].pc \in {"append", "offset", "finalChunk", "finalize", "status", "cancelStat"}
    /\ ~UploadKnown(Ns(r), Up(r))
    /\ Answer(r, "uploadUnknown")
    /\ ReadOnly

-----------------------------------------------------------------------------
(* What the goroutine of slot r does by itself once a request is in it. *)
BlobServe(r) ==
    \/ StatRegistered(r) \/ OpenBlob(r)
    \/ PutFile(r) \/ PutFileCommitted(r) \/ PutFileFails(r) \/ StatExisting(r)
    \/ Register(r) \/ RegisterFails(r) \/ Cleanup(r)
    \/ MountSource(r) \/ MountOpen(r) \/ MountFallback(r)
    \/ Initiate(r) \/ AppendChunk(r)
    \/ CommitOffset(r) \/ FinalChunk(r) \/ Finalize(r) \/ FinalizeFails(r) \/ Discard(r)
    \/ GetUploadStatus(r) \/ CancelStat(r) \/ CancelUpload(r) \/ UploadUnknown(r)

BlobServiceNext ==
    \E r \in BlobRequest : BlobArrive(r) \/ Disconnect(r) \/ BlobServe(r)
=============================================================================
