--------------------------- MODULE RegistryTypes ---------------------------
(***************************************************************************)
(* Type correctness of Registry, for every value of the constants.         *)
(***************************************************************************)
EXTENDS Registry, TLAPS

(* What a request in progress needs for its next call: a namespace, and, at the *)
(* calls that take one, a digest, an upload or a media type.                    *)
Targeted(q) ==
    /\ q.pc \notin {"idle", "done"} => q.ns \in Namespace
    /\ q.pc \in {"stat", "open", "put", "statExisting", "register", "cleanup",
                 "mountSource", "mountOpen", "offset", "finalChunk",
                 "finalize", "discard"} => q.dg \in Digest
    /\ q.pc \in {"append", "offset", "finalChunk", "finalize", "discard",
                 "status", "cancelStat", "cancel"} => q.up \in Upload

MTargeted(q) ==
    q.pc \notin {"idle", "done"} =>
        /\ q.ns \in Namespace
        /\ q.dg \in Digest
        /\ q.pc \in {"putBody", "store"} => q.mediaType \in MediaType

BlobReqInv == BlobReqTypeOK /\ \A r \in BlobRequest : Targeted(blobReq[r])
ManReqInv  == ManReqTypeOK /\ \A r \in ManifestRequest : MTargeted(manReq[r])

TypeInv == MetaTypeOK /\ BlobTypeOK /\ BlobReqInv /\ ManReqInv

-----------------------------------------------------------------------------
(* One slot changes *)

LEMMA SlotType ==
    ASSUME BlobReqInv, NEW r \in BlobRequest, NEW q \in BlobRequestRecord, Targeted(q),
           blobReq' = [blobReq EXCEPT ![r] = q]
    PROVE  BlobReqInv'
BY DEF BlobReqInv, BlobReqTypeOK, Targeted

LEMMA MSlotType ==
    ASSUME ManReqInv, NEW r \in ManifestRequest, NEW q \in ManifestRequestRecord, MTargeted(q),
           manReq' = [manReq EXCEPT ![r] = q]
    PROVE  ManReqInv'
BY DEF ManReqInv, ManReqTypeOK, MTargeted

LEMMA NoRequestType ==
    /\ NoRequest \in BlobRequestRecord /\ Targeted(NoRequest)
    /\ NoManifestRequest \in ManifestRequestRecord /\ MTargeted(NoManifestRequest)
BY DEF NoRequest, Request, BlobRequestRecord, BlobPC, BlobReply, Targeted,
       NoManifestRequest, MRequest, ManifestRequestRecord, ManifestPC, ManifestReply, MTargeted

LEMMA AnswerType ==
    ASSUME BlobReqInv, NEW r \in BlobRequest, NEW reply \in BlobReply, Answer(r, reply)
    PROVE  BlobReqInv'
<1> DEFINE q == Request(Op(r), "done", reply, Ns(r), Dg(r), NoNamespace, NoUploadID)
<1>1. /\ Op(r) \in DOMAIN FirstCall \cup {"none"}
      /\ Ns(r) \in Namespace \cup {NoNamespace}
      /\ Dg(r) \in Digest \cup {NoDigest}
  BY DEF BlobReqInv, BlobReqTypeOK, BlobRequestRecord, Op, Ns, Dg
<1>2. q \in BlobRequestRecord /\ Targeted(q)
  BY <1>1 DEF Request, BlobRequestRecord, BlobPC, Targeted
<1>3. blobReq' = [blobReq EXCEPT ![r] = q]
  BY DEF Answer
<1> QED BY <1>2, <1>3, SlotType

LEMMA GotoType ==
    ASSUME BlobReqInv, NEW r \in BlobRequest, NEW pc \in BlobPC, Goto(r, pc),
           Targeted([blobReq[r] EXCEPT !.pc = pc])
    PROVE  BlobReqInv'
<1> DEFINE q == [blobReq[r] EXCEPT !.pc = pc]
<1>1. q \in BlobRequestRecord
  BY DEF BlobReqInv, BlobReqTypeOK, BlobRequestRecord
<1>2. blobReq' = [blobReq EXCEPT ![r] = q]
  BY DEF Goto
<1> QED BY <1>1, <1>2, SlotType

LEMMA GotoRegisterType ==
    ASSUME BlobReqInv, NEW r \in BlobRequest, GotoRegister(r),
           blobReq[r].pc \in {"put", "finalize"}
    PROVE  BlobReqInv'
<1> DEFINE q == [blobReq[r] EXCEPT !.pc = "register", !.mine = TRUE]
<1>1. q \in BlobRequestRecord /\ Targeted(q)
  BY DEF BlobReqInv, BlobReqTypeOK, BlobRequestRecord, BlobPC, Targeted
<1>2. blobReq' = [blobReq EXCEPT ![r] = q]
  BY DEF GotoRegister
<1> QED BY <1>1, <1>2, SlotType

LEMMA GotoAtType ==
    ASSUME BlobReqInv, NEW r \in BlobRequest, NEW offset \in Nat,
           NEW pc \in {"finalChunk", "finalize"}, GotoAt(r, pc, offset),
           blobReq[r].pc \in {"offset", "finalChunk"}
    PROVE  BlobReqInv'
<1> DEFINE q == [blobReq[r] EXCEPT !.pc = pc, !.offset = offset]
<1>0. blobReq[r] \in BlobRequestRecord /\ Targeted(blobReq[r]) /\ pc \in BlobPC
  BY DEF BlobReqInv, BlobReqTypeOK, BlobPC
<1>a. q \in BlobRequestRecord
  BY <1>0 DEF BlobRequestRecord
<1>b. /\ q.ns = blobReq[r].ns /\ q.dg = blobReq[r].dg /\ q.up = blobReq[r].up
      /\ q.pc = pc
  BY <1>0 DEF BlobRequestRecord
<1>c. Targeted(q)
  BY <1>0, <1>b DEF Targeted
<1>1. q \in BlobRequestRecord /\ Targeted(q)
  BY <1>a, <1>c
<1>2. blobReq' = [blobReq EXCEPT ![r] = q]
  BY DEF GotoAt
<1> QED BY <1>1, <1>2, SlotType

LEMMA MAnswerType ==
    ASSUME ManReqInv, NEW r \in ManifestRequest, NEW reply \in ManifestReply, MAnswer(r, reply)
    PROVE  ManReqInv'
<1> DEFINE q == MRequest(MOp(r), "done", reply, MNs(r), MDg(r), NoMediaType)
<1>1. /\ MOp(r) \in DOMAIN ManifestFirstCall \cup {"none"}
      /\ MNs(r) \in Namespace \cup {NoNamespace}
      /\ MDg(r) \in Digest \cup {NoDigest}
  BY DEF ManReqInv, ManReqTypeOK, ManifestRequestRecord, MOp, MNs, MDg
<1>2. q \in ManifestRequestRecord /\ MTargeted(q)
  BY <1>1 DEF MRequest, ManifestRequestRecord, ManifestPC, MTargeted
<1>3. manReq' = [manReq EXCEPT ![r] = q]
  BY DEF MAnswer
<1> QED BY <1>2, <1>3, MSlotType

LEMMA MGotoType ==
    ASSUME ManReqInv, NEW r \in ManifestRequest, NEW pc \in ManifestPC, MGoto(r, pc),
           MTargeted([manReq[r] EXCEPT !.pc = pc])
    PROVE  ManReqInv'
<1> DEFINE q == [manReq[r] EXCEPT !.pc = pc]
<1>1. q \in ManifestRequestRecord
  BY DEF ManReqInv, ManReqTypeOK, ManifestRequestRecord
<1>2. manReq' = [manReq EXCEPT ![r] = q]
  BY DEF MGoto
<1> QED BY <1>1, <1>2, MSlotType

LEMMA ArriveType ==
    ASSUME BlobReqInv, NEW r \in BlobRequest, BlobArrive(r)
    PROVE  BlobReqInv'
<1> USE SystemAssumption, BlobServiceAssumption
<1>1. PICK op \in BlobOps, n \in Namespace, d \in Digest \cup {NoDigest},
           s \in Namespace \cup {NoNamespace}, u \in Upload \cup {NoUploadID} :
          /\ WellAddressed(op, d, s, u)
          /\ \E q \in {NewRequest(op, n, d, s, u), RefusedRequest(op, n, d)} :
                blobReq' = [blobReq EXCEPT ![r] = q]
  BY DEF BlobArrive
<1>2. /\ op \in DOMAIN FirstCall
      /\ FirstCall[op] \in BlobPC
      /\ op \in {"Append", "Commit", "Status", "Cancel"}
            <=> FirstCall[op] \in {"append", "offset", "status", "cancelStat"}
      /\ op \in {"Initiate", "Append", "Status", "Cancel"}
            <=> FirstCall[op] \in {"initiate", "append", "status", "cancelStat"}
      /\ FirstCall[op] \notin {"finalChunk", "finalize", "discard", "cancel"}
  BY DEF FirstCall, BlobPC
<1>0. PICK q \in {NewRequest(op, n, d, s, u), RefusedRequest(op, n, d)} :
             blobReq' = [blobReq EXCEPT ![r] = q]
  BY <1>1
<1>3. /\ q \in BlobRequestRecord
      /\ q.ns = n
      /\ q.pc \in {FirstCall[op], "done"}
      /\ q.pc # "done" => q.dg = d /\ q.up = u
  <2>1. CASE q = NewRequest(op, n, d, s, u)
    BY <1>2, <2>1 DEF NewRequest, Request, BlobRequestRecord, BlobReply, BlobPC
  <2>2. CASE q = RefusedRequest(op, n, d)
    BY <1>2, <2>2 DEF RefusedRequest, Request, BlobRequestRecord, BlobReply, BlobPC
  <2> QED BY <2>1, <2>2
<1>4. Targeted(q)
  <2>1. q.pc = "done" => Targeted(q)
    BY DEF Targeted
  <2>2. q.pc # "done" => Targeted(q)
    BY <1>1, <1>2, <1>3 DEF Targeted, WellAddressed
  <2> QED BY <2>1, <2>2
<1> QED BY <1>0, <1>3, <1>4, SlotType

LEMMA ManifestArriveType ==
    ASSUME ManReqInv, NEW r \in ManifestRequest, ManifestArrive(r)
    PROVE  ManReqInv'
<1> USE MetastoreAssumption, ManifestServiceAssumption
<1>1. PICK op \in ManifestOps, n \in Namespace, d \in Digest, m \in MediaType \cup {NoMediaType} :
          /\ op = "PutManifest" <=> m # NoMediaType
          /\ \E q \in {NewManifestRequest(op, n, d, m), RefusedManifestRequest(op, n, d)} :
                manReq' = [manReq EXCEPT ![r] = q]
  BY DEF ManifestArrive
<1>2. /\ op \in DOMAIN ManifestFirstCall
      /\ ManifestFirstCall[op] \in ManifestPC
      /\ ManifestFirstCall[op] = "putBody" => op = "PutManifest"
      /\ ManifestFirstCall[op] # "store"
  BY DEF ManifestFirstCall, ManifestPC
<1>0. PICK q \in {NewManifestRequest(op, n, d, m), RefusedManifestRequest(op, n, d)} :
             manReq' = [manReq EXCEPT ![r] = q]
  BY <1>1
<1>3. /\ q \in ManifestRequestRecord
      /\ q.ns = n /\ q.dg = d
      /\ q.pc \in {ManifestFirstCall[op], "done"}
      /\ q.pc # "done" => q.mediaType = m
  <2>1. CASE q = NewManifestRequest(op, n, d, m)
    BY <1>2, <2>1 DEF NewManifestRequest, MRequest, ManifestRequestRecord, ManifestReply,
                      ManifestPC
  <2>2. CASE q = RefusedManifestRequest(op, n, d)
    BY <1>2, <2>2 DEF RefusedManifestRequest, MRequest, ManifestRequestRecord, ManifestReply,
                      ManifestPC
  <2> QED BY <2>1, <2>2
<1>4. MTargeted(q)
  <2>1. q.pc = "done" => MTargeted(q)
    BY <1>3 DEF MTargeted
  <2>2. q.pc # "done" => MTargeted(q)
    BY <1>1, <1>2, <1>3 DEF MTargeted
  <2> QED BY <2>1, <2>2
<1> QED BY <1>0, <1>3, <1>4, MSlotType

LEMMA DisconnectType ==
    ASSUME BlobReqInv, NEW r \in BlobRequest, Disconnect(r)
    PROVE  BlobReqInv'
<1> DEFINE q == [blobReq[r] EXCEPT !.alive = FALSE]
<1>1. q \in BlobRequestRecord /\ Targeted(q)
  BY DEF BlobReqInv, BlobReqTypeOK, BlobRequestRecord, Targeted
<1>2. blobReq' = [blobReq EXCEPT ![r] = q]
  BY DEF Disconnect
<1> QED BY <1>1, <1>2, SlotType

LEMMA ManifestDisconnectType ==
    ASSUME ManReqInv, NEW r \in ManifestRequest, ManifestDisconnect(r)
    PROVE  ManReqInv'
<1> DEFINE q == [manReq[r] EXCEPT !.alive = FALSE]
<1>1. q \in ManifestRequestRecord /\ MTargeted(q)
  BY DEF ManReqInv, ManReqTypeOK, ManifestRequestRecord, MTargeted
<1>2. manReq' = [manReq EXCEPT ![r] = q]
  BY DEF ManifestDisconnect
<1> QED BY <1>1, <1>2, MSlotType

-----------------------------------------------------------------------------
(* The two stores *)

LEMMA ReadOnlyType ==
    ASSUME MetaTypeOK, BlobTypeOK, ReadOnly
    PROVE  MetaTypeOK' /\ BlobTypeOK'
BY DEF ReadOnly, metaVars, blobVars, MetaTypeOK, BlobTypeOK

LEMMA PutDeleteType ==
    ASSUME BlobTypeOK, NEW n \in Namespace, NEW d \in Digest,
           PutBlob(n, d) \/ DeleteBlob(n, d) \/ UNCHANGED blobVars
    PROVE  BlobTypeOK'
BY DEF BlobTypeOK, PutBlob, DeleteBlob, Key, blobVars

LEMMA InitiateType ==
    ASSUME BlobTypeOK, NEW n \in Namespace, NEW u \in Upload, InitiateBlobUpload(n, u)
    PROVE  BlobTypeOK'
<1>1. <<>> \in Seq(Piece)
  OBVIOUS
<1> QED BY <1>1 DEF BlobTypeOK, InitiateBlobUpload, Session

LEMMA AppendType ==
    ASSUME BlobTypeOK, NEW u \in Upload, NEW p \in Piece, AppendPiece(u, p)
    PROVE  BlobTypeOK'
<1>1. Append(uploads[u].data, p) \in Seq(Piece)
  BY DEF BlobTypeOK, Session
<1> QED BY <1>1 DEF BlobTypeOK, AppendPiece, Session

LEMMA EndUploadType ==
    ASSUME BlobTypeOK, NEW u \in Upload
    PROVE  EndUpload(u) \in [Upload -> Session]
<1>1. <<>> \in Seq(Piece)
  OBVIOUS
<1> QED BY <1>1 DEF BlobTypeOK, EndUpload, Session

LEMMA NamespaceType ==
    ASSUME MetaTypeOK, NEW n \in Namespace, CreateNamespace(n) \/ DeleteNamespace(n)
    PROVE  MetaTypeOK'
BY DEF MetaTypeOK, CreateNamespace, DeleteNamespace

LEMMA StoreType ==
    ASSUME MetaTypeOK, NEW n \in Namespace, NEW d \in Digest, NEW m \in MediaType,
           StoreManifest(n, d, m)
    PROVE  MetaTypeOK'
<1>1. InsertedManifest(n, d, m) \in ManifestRow
  BY DEF MetaTypeOK, Key, InsertedManifest, ManifestRow, Lifecycle
<1>2. UpsertedReferrer(n, d, m) \in ReferrerRow
  BY MetastoreAssumption DEF MetaTypeOK, Key, UpsertedReferrer, ReferrerRow
<1> QED BY <1>1, <1>2 DEF MetaTypeOK, StoreManifest

LEMMA RemoveType ==
    ASSUME MetaTypeOK, NEW n \in Namespace, NEW d \in Digest, RemoveManifest(n, d)
    PROVE  MetaTypeOK'
<1>1. Tombstone(manifests[<<n, d>>]) \in ManifestRow
  BY DEF MetaTypeOK, Key, Tombstone, ManifestRow, Lifecycle
<1>2. NoReferrer \in ReferrerRow
  BY DEF NoReferrer, ReferrerRow
<1> QED BY <1>1, <1>2 DEF MetaTypeOK, RemoveManifest

-----------------------------------------------------------------------------
(* The steps of the two services *)

Stores == MetaTypeOK /\ BlobTypeOK

LEMMA BlobServeType ==
    ASSUME Stores, BlobReqInv, NEW r \in BlobRequest, BlobServe(r)
    PROVE  Stores' /\ BlobReqInv'
<1> DEFINE n == Ns(r)  d == Dg(r)  u == Up(r)
<1> USE DEF Stores
<1>0. Targeted(blobReq[r]) /\ BlobReqTypeOK
  BY DEF BlobReqInv
<1>1. CASE StatRegistered(r) \/ OpenBlob(r) \/ PutFileCommitted(r) \/ PutFileFails(r)
           \/ StatExisting(r) \/ RegisterFails(r) \/ MountSource(r) \/ MountOpen(r)
           \/ MountFallback(r)
  <2>1. ReadOnly
    BY <1>1 DEF StatRegistered, OpenBlob, PutFileCommitted, PutFileFails, StatExisting,
                RegisterFails, MountSource, MountOpen, MountFallback
  <2>2. blobReq[r].pc \in {"stat", "open", "put", "statExisting", "register", "mountSource",
                           "mountOpen", "fallback"}
    BY <1>1 DEF StatRegistered, OpenBlob, PutFileCommitted, PutFileFails, StatExisting,
                RegisterFails, MountSource, MountOpen, MountFallback, At
  <2>3. \/ \E reply \in BlobReply : Answer(r, reply)
        \/ \E pc \in {"open", "statExisting", "register", "cleanup", "mountOpen", "put"} :
              Goto(r, pc) /\ blobReq[r].pc # "fallback"
        \/ \E pc \in {"fallback", "initiate"} : Goto(r, pc)
    BY <1>1 DEF StatRegistered, OpenBlob, PutFileCommitted, PutFileFails, StatExisting,
                RegisterFails, MountSource, MountOpen, MountFallback, At, BlobReply
  <2>4. ASSUME NEW pc \in {"open", "statExisting", "register", "cleanup", "mountOpen", "put"},
               blobReq[r].pc # "fallback"
        PROVE  Targeted([blobReq[r] EXCEPT !.pc = pc])
    BY <1>0, <2>2, <2>4 DEF Targeted, BlobReqTypeOK, BlobRequestRecord
  <2>5. ASSUME NEW pc \in {"fallback", "initiate"}
        PROVE  Targeted([blobReq[r] EXCEPT !.pc = pc])
    BY <1>0, <2>2 DEF Targeted, BlobReqTypeOK, BlobRequestRecord
  <2>6. BlobReqInv'
    BY <2>3, <2>4, <2>5, AnswerType, GotoType DEF BlobPC
  <2> QED BY <2>1, <2>6, ReadOnlyType
<1>2. CASE PutFile(r)
  <2>1. n \in Namespace /\ d \in Digest
    BY <1>0, <1>2 DEF PutFile, At, Ns, Dg, Targeted
  <2>2. Stores'
    BY <1>2, <2>1, PutDeleteType DEF PutFile, metaVars, MetaTypeOK
  <2> QED BY <1>2, <2>2, GotoRegisterType DEF PutFile, At
<1>3. CASE Register(r)
  <2>1. Stores'
    BY <1>3 DEF Register, InsertNamespaceBlob, MetaTypeOK, Lifecycle, BlobTypeOK, blobVars
  <2> QED BY <1>3, <2>1, AnswerType DEF Register, BlobReply
<1>4. CASE Cleanup(r)
  <2>1. Stores'
    BY <1>4 DEF Cleanup, DeleteBlob, metaVars, MetaTypeOK, BlobTypeOK, blobVars
  <2> QED BY <1>4, <2>1, AnswerType DEF Cleanup, BlobReply
<1>5. CASE Initiate(r)
  <2>1. n \in Namespace
    BY <1>0, <1>5 DEF Initiate, At, Ns, Targeted
  <2>2. BlobTypeOK'
    BY <1>5, <2>1, InitiateType DEF Initiate, BlobTypeOK, blobVars
  <2> QED BY <1>5, <2>2, AnswerType DEF Initiate, BlobReply, metaVars, MetaTypeOK
<1>6. CASE AppendChunk(r)
  <2>1. u \in Upload
    BY <1>0, <1>6 DEF AppendChunk, At, Up, Targeted
  <2>2. BlobTypeOK'
    BY <1>6, <2>1, AppendType DEF AppendChunk, BlobTypeOK, blobVars
  <2> QED BY <1>6, <2>2, AnswerType DEF AppendChunk, BlobReply, metaVars, MetaTypeOK
<1>7. CASE CommitOffset(r)
  <2>1. UploadOffset(u) \in Nat
    BY <1>0, <1>7 DEF CommitOffset, At, Up, Targeted, UploadOffset, BlobTypeOK, Session
  <2>2. BlobReqInv'
    BY <1>7, <2>1, GotoAtType, AnswerType DEF CommitOffset, At, BlobReply
  <2> QED BY <1>7, <2>2, ReadOnlyType DEF CommitOffset
<1>8. CASE FinalChunk(r)
  <2>1. u \in Upload
    BY <1>0, <1>8 DEF FinalChunk, At, Up, Targeted
  <2>2. BlobTypeOK'
    BY <1>8, <2>1, AppendType DEF FinalChunk, BlobTypeOK, blobVars
  <2>3. blobReq[r].offset + 1 \in Nat
    BY <1>0 DEF BlobReqTypeOK, BlobRequestRecord
  <2>4. BlobReqInv'
    BY <1>8, <2>3, AnswerType, GotoAtType DEF FinalChunk, At, BlobReply
  <2> QED BY <1>8, <2>2, <2>4 DEF FinalChunk, metaVars, MetaTypeOK
<1>9. CASE Finalize(r)
  <2>1. n \in Namespace /\ d \in Digest /\ u \in Upload
    BY <1>0, <1>9 DEF Finalize, At, Ns, Dg, Up, Targeted
  <2>2. BlobTypeOK'
    BY <1>9, <2>1, EndUploadType DEF Finalize, CommitStaged, BlobTypeOK, Key
  <2>3. BlobReqInv'
    BY <1>9, AnswerType, GotoRegisterType DEF Finalize, At, BlobReply
  <2> QED BY <1>9, <2>2, <2>3 DEF Finalize, metaVars, MetaTypeOK
<1>10. CASE FinalizeFails(r)
  <2>1. Targeted([blobReq[r] EXCEPT !.pc = "discard"])
    BY <1>0, <1>10 DEF FinalizeFails, At, Targeted, BlobReqTypeOK, BlobRequestRecord
  <2> QED BY <1>10, <2>1, ReadOnlyType, AnswerType, GotoType
          DEF FinalizeFails, BlobReply, BlobPC
<1>11. CASE Discard(r) \/ CancelUpload(r)
  <2>1. /\ n \in Namespace /\ u \in Upload
        /\ CancelBlobUpload(n, u) \/ UNCHANGED blobVars
    BY <1>0, <1>11 DEF Discard, CancelUpload, At, Ns, Up, Targeted
  <2>2. BlobTypeOK'
    BY <2>1, EndUploadType DEF CancelBlobUpload, BlobTypeOK, blobVars
  <2> QED BY <1>11, <2>2, AnswerType DEF Discard, CancelUpload, BlobReply, metaVars, MetaTypeOK
<1>12. CASE GetUploadStatus(r) \/ CancelStat(r) \/ UploadUnknown(r)
  <2>1. CancelStat(r) => Targeted([blobReq[r] EXCEPT !.pc = "cancel"])
    BY <1>0 DEF CancelStat, At, Targeted, BlobReqTypeOK, BlobRequestRecord
  <2> QED BY <1>12, <2>1, ReadOnlyType, AnswerType, GotoType
          DEF GetUploadStatus, CancelStat, UploadUnknown, BlobReply, BlobPC
<1> QED
  BY <1>1, <1>2, <1>3, <1>4, <1>5, <1>6, <1>7, <1>8, <1>9, <1>10, <1>11, <1>12 DEF BlobServe

LEMMA ManifestServeType ==
    ASSUME Stores, ManReqInv, NEW r \in ManifestRequest, ManifestServe(r)
    PROVE  Stores' /\ ManReqInv'
<1> DEFINE n == MNs(r)  d == MDg(r)
<1> USE DEF Stores
<1>0. MTargeted(manReq[r]) /\ ManReqTypeOK
  BY DEF ManReqInv
<1>1. CASE StoreFails(r) \/ ResolveManifest(r) \/ OpenBody(r) \/ RemoveFails(r) \/ List(r)
  <2>2. MAt(r, "lookup") => MTargeted([manReq[r] EXCEPT !.pc = "openBody"])
    BY <1>0 DEF MAt, MTargeted, ManReqTypeOK, ManifestRequestRecord
  <2>3. MReadOnly
    BY <1>1 DEF StoreFails, ResolveManifest, OpenBody, RemoveFails, List
  <2>4. Stores'
    BY <2>3, ReadOnlyType DEF MReadOnly, ReadOnly
  <2> QED BY <1>1, <2>2, <2>4, MAnswerType, MGotoType
          DEF StoreFails, ResolveManifest, OpenBody, RemoveFails, List, ManifestReply, ManifestPC
<1>2. CASE PutBody(r)
  <2>1. MTargeted([manReq[r] EXCEPT !.pc = "store"])
    BY <1>0, <1>2 DEF PutBody, MAt, MTargeted, ManReqTypeOK, ManifestRequestRecord
  <2>2. n \in Namespace /\ d \in Digest
    BY <1>0, <1>2 DEF PutBody, MAt, MNs, MDg, MTargeted
  <2>3. Stores'
    BY <1>2, <2>2, PutDeleteType DEF PutBody, metaVars, MetaTypeOK
  <2> QED BY <1>2, <2>1, <2>3, MAnswerType, MGotoType DEF PutBody, ManifestReply, ManifestPC
<1>3. CASE Store(r)
  <2>1. n \in Namespace /\ d \in Digest /\ manReq[r].mediaType \in MediaType
    BY <1>0, <1>3 DEF Store, MAt, MNs, MDg, MTargeted
  <2>2. Stores'
    BY <1>3, <2>1, StoreType DEF Store, BlobTypeOK, blobVars
  <2> QED BY <1>3, <2>2, MAnswerType DEF Store, ManifestReply
<1>4. CASE Remove(r)
  <2>1. MTargeted([manReq[r] EXCEPT !.pc = "deleteBody"])
    BY <1>0, <1>4 DEF Remove, MAt, MTargeted, ManReqTypeOK, ManifestRequestRecord
  <2>2. n \in Namespace /\ d \in Digest
    BY <1>0, <1>4 DEF Remove, MAt, MNs, MDg, MTargeted
  <2>3. Stores'
    BY <1>4, <2>2, RemoveType DEF Remove, BlobTypeOK, blobVars
  <2> QED BY <1>4, <2>1, <2>3, MGotoType DEF Remove, ManifestPC
<1>5. CASE DeleteBody(r)
  <2>1. Stores'
    BY <1>5 DEF DeleteBody, DeleteBlob, metaVars, MetaTypeOK, BlobTypeOK, blobVars
  <2> QED BY <1>5, <2>1, MAnswerType DEF DeleteBody, ManifestReply
<1> QED BY <1>1, <1>2, <1>3, <1>4, <1>5 DEF ManifestServe

-----------------------------------------------------------------------------
LEMMA InitType == Init => TypeInv
<1> SUFFICES ASSUME Init PROVE TypeInv
  OBVIOUS
<1> USE DEF Init
<1>1. MetaTypeOK
  BY DEF MetaInit, MetaTypeOK, Lifecycle, NoManifest, ManifestRow, NoReferrer, ReferrerRow
<1>2. BlobTypeOK
  <2>1. <<>> \in Seq(Piece)
    OBVIOUS
  <2> QED BY <2>1 DEF BlobInit, BlobTypeOK, Session
<1>3. BlobReqInv /\ ManReqInv
  BY NoRequestType DEF BlobReqInit, BlobReqInv, BlobReqTypeOK, ManReqInit, ManReqInv, ManReqTypeOK
<1> QED BY <1>1, <1>2, <1>3 DEF TypeInv

LEMMA NextType ==
    ASSUME TypeInv, [Next]_vars
    PROVE  TypeInv'
<1> USE DEF TypeInv
<1>1. CASE BlobServiceNext /\ UNCHANGED manReq
  <2>1. ManReqInv'
    BY <1>1 DEF ManReqInv, ManReqTypeOK, MTargeted
  <2>2. PICK r \in BlobRequest : BlobArrive(r) \/ Disconnect(r) \/ BlobServe(r)
    BY <1>1 DEF BlobServiceNext
  <2>3. CASE BlobArrive(r) \/ Disconnect(r)
    BY <2>1, <2>3, ArriveType, DisconnectType, ReadOnlyType DEF BlobArrive, Disconnect
  <2>4. CASE BlobServe(r)
    BY <2>1, <2>4, BlobServeType DEF Stores
  <2> QED BY <2>2, <2>3, <2>4
<1>2. CASE ManifestServiceNext /\ UNCHANGED blobReq
  <2>1. BlobReqInv'
    BY <1>2 DEF BlobReqInv, BlobReqTypeOK, Targeted
  <2>2. PICK r \in ManifestRequest : ManifestArrive(r) \/ ManifestDisconnect(r) \/ ManifestServe(r)
    BY <1>2 DEF ManifestServiceNext
  <2>3. CASE ManifestArrive(r) \/ ManifestDisconnect(r)
    BY <2>1, <2>3, ManifestArriveType, ManifestDisconnectType, ReadOnlyType
       DEF ManifestArrive, ManifestDisconnect, MReadOnly, ReadOnly
  <2>4. CASE ManifestServe(r)
    BY <2>1, <2>4, ManifestServeType DEF Stores
  <2> QED BY <2>2, <2>3, <2>4
<1>3. CASE \E n \in Namespace : CreateNamespaceRequest(n) \/ DeleteNamespaceRequest(n)
  <2>1. MetaTypeOK' /\ UNCHANGED <<blobVars, blobReq, manReq>>
    BY <1>3, NamespaceType DEF CreateNamespaceRequest, DeleteNamespaceRequest
  <2> QED BY <2>1 DEF blobVars, BlobTypeOK, BlobReqInv, BlobReqTypeOK, Targeted,
                      ManReqInv, ManReqTypeOK, MTargeted
<1>4. CASE Crash
  <2>1. BlobReqInv' /\ ManReqInv'
    BY <1>4, NoRequestType DEF Crash, BlobReqInv, BlobReqTypeOK, ManReqInv, ManReqTypeOK
  <2> QED BY <1>4, <2>1, ReadOnlyType DEF Crash, ReadOnly
<1>5. CASE UNCHANGED vars
  BY <1>5 DEF vars, metaVars, blobVars, MetaTypeOK, BlobTypeOK, BlobReqInv, BlobReqTypeOK,
              Targeted, ManReqInv, ManReqTypeOK, MTargeted
<1> QED BY <1>1, <1>2, <1>3, <1>4, <1>5 DEF Next

(* The inductive invariant behind the types: a request that waits for a call of  *)
(* a store names everything that the call needs.                                 *)
THEOREM TypeInvariant == Spec => []TypeInv
BY InitType, NextType, PTL DEF Spec

(* Every variable keeps its type: the tables hold rows of the schema, the paths  *)
(* and sessions of the blob store are well formed, and so is every request.      *)
THEOREM TypeCorrect == Spec => []TypeOK
<1>1. TypeInv => TypeOK
  BY DEF TypeInv, TypeOK, BlobReqInv, ManReqInv
<1> QED BY <1>1, TypeInvariant, PTL
=============================================================================
