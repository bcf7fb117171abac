--------------------------- MODULE RegistryProofs ---------------------------
(***************************************************************************)
(* The safety of Registry, for every value of the constants.               *)
(***************************************************************************)
EXTENDS RegistryTypes

(* What a step may do to the tables: nothing, or one transaction.              *)
LEMMA MetaEffect ==
    ASSUME TypeInv, [Next]_vars
    PROVE  [MetaNext]_metaVars
<1>1. CASE BlobServiceNext
  <2>1. PICK r \in BlobRequest : BlobArrive(r) \/ Disconnect(r) \/ BlobServe(r)
    BY <1>1 DEF BlobServiceNext
  <2>2. CASE Register(r)
    <3>1. Ns(r) \in Namespace /\ Dg(r) \in Digest
      BY <2>2 DEF TypeInv, BlobReqInv, Targeted, Register, At, Ns, Dg
    <3> QED BY <2>2, <3>1 DEF Register, MetaNext
  <2>3. CASE ~Register(r)
    BY <2>1, <2>3
       DEF BlobArrive, Disconnect, BlobServe, StatRegistered, OpenBlob, PutFile, PutFileCommitted,
           PutFileFails, StatExisting, RegisterFails, Cleanup, MountSource, MountOpen,
           MountFallback, Initiate, AppendChunk, CommitOffset, FinalChunk, Finalize,
           FinalizeFails, Discard, GetUploadStatus, CancelStat, CancelUpload, UploadUnknown,
           ReadOnly
  <2> QED BY <2>2, <2>3
<1>2. CASE ManifestServiceNext
  <2>1. PICK r \in ManifestRequest :
           ManifestArrive(r) \/ ManifestDisconnect(r) \/ ManifestServe(r)
    BY <1>2 DEF ManifestServiceNext
  <2>2. CASE Store(r) \/ Remove(r)
    <3>1. MNs(r) \in Namespace /\ MDg(r) \in Digest
      BY <2>2 DEF TypeInv, ManReqInv, MTargeted, Store, Remove, MAt, MNs, MDg
    <3>2. Store(r) => manReq[r].mediaType \in MediaType
      BY DEF TypeInv, ManReqInv, MTargeted, Store, MAt
    <3> QED BY <2>2, <3>1, <3>2 DEF Store, Remove, MetaNext
  <2>3. CASE ~(Store(r) \/ Remove(r))
    BY <2>1, <2>3
       DEF ManifestArrive, ManifestDisconnect, ManifestServe, PutBody, StoreFails,
           ResolveManifest, OpenBody, RemoveFails, DeleteBody, List, MReadOnly
  <2> QED BY <2>2, <2>3
<1>3. CASE \E n \in Namespace : CreateNamespaceRequest(n) \/ DeleteNamespaceRequest(n)
  BY <1>3 DEF CreateNamespaceRequest, DeleteNamespaceRequest, MetaNext
<1>4. CASE Crash \/ UNCHANGED vars
  BY <1>4 DEF Crash, vars
<1> QED BY <1>1, <1>2, <1>3, <1>4 DEF Next

-----------------------------------------------------------------------------
(* The tables *)

LEMMA ForeignKeysStep ==
    ASSUME MetaTypeOK, ForeignKeys, [MetaNext]_metaVars
    PROVE  ForeignKeys'
<1> USE DEF ForeignKeys, Referenced, NamespaceExists, MetaTypeOK, Key
<1>1. CASE \E n \in Namespace : CreateNamespace(n) \/ DeleteNamespace(n)
  BY <1>1 DEF CreateNamespace, DeleteNamespace, CanDeleteNamespace
<1>2. CASE \E n \in Namespace, d \in Digest : InsertNamespaceBlob(n, d)
  BY <1>2 DEF InsertNamespaceBlob, ForeignKeyHolds
<1>3. CASE \E n \in Namespace, d \in Digest, m \in MediaType : StoreManifest(n, d, m)
  BY <1>3 DEF StoreManifest, ForeignKeyHolds
<1>4. CASE \E n \in Namespace, d \in Digest : RemoveManifest(n, d)
  <2>1. PICK n \in Namespace, d \in Digest : RemoveManifest(n, d)
    BY <1>4
  <2>2. manifests[<<n, d>>] # NoManifest
    BY <2>1 DEF RemoveManifest, GetManifestByDigest, NoManifest
  <2>3. NamespaceExists(n)
    BY <2>2
  <2> QED BY <2>1, <2>3 DEF RemoveManifest
<1>5. CASE UNCHANGED metaVars
  BY <1>5 DEF metaVars
<1> QED BY <1>1, <1>2, <1>3, <1>4, <1>5 DEF MetaNext

(* No table ever holds a row of a namespace that does not exist, however the     *)
(* requests that write rows interleave with the deletion of namespaces.          *)
THEOREM ForeignKeysHold == Spec => []ForeignKeys
<1>1. Init => ForeignKeys
  BY DEF Init, MetaInit, ForeignKeys, Referenced, Key
<1>2. ASSUME TypeInv, ForeignKeys, [Next]_vars
      PROVE  ForeignKeys'
  BY <1>2, MetaEffect, ForeignKeysStep DEF TypeInv
<1> QED BY <1>1, <1>2, TypeInvariant, PTL DEF Spec

(* What became of the rows of one key. *)
LEMMA RowEffect ==
    ASSUME MetaTypeOK, [MetaNext]_metaVars, NEW n \in Namespace, NEW d \in Digest
    PROVE  \/ /\ manifests'[<<n, d>>] = manifests[<<n, d>>]
              /\ referrers'[<<n, d>>] = referrers[<<n, d>>]
           \/ \E m \in MediaType :
                 /\ manifests'[<<n, d>>] = InsertedManifest(n, d, m)
                 /\ referrers'[<<n, d>>] = UpsertedReferrer(n, d, m)
           \/ /\ manifests[<<n, d>>].lifecycle = "active"
              /\ manifests'[<<n, d>>] = Tombstone(manifests[<<n, d>>])
              /\ referrers'[<<n, d>>] = NoReferrer
<1> USE DEF MetaTypeOK, Key
<1>1. CASE UNCHANGED <<manifests, referrers>>
  BY <1>1
<1>2. CASE \E x \in Namespace, e \in Digest, m \in MediaType : StoreManifest(x, e, m)
  <2>1. PICK x \in Namespace, e \in Digest, m \in MediaType : StoreManifest(x, e, m)
    BY <1>2
  <2>2. CASE x = n /\ e = d
    BY <2>1, <2>2 DEF StoreManifest
  <2>3. CASE <<x, e>> # <<n, d>>
    BY <2>1, <2>3 DEF StoreManifest
  <2> QED BY <2>2, <2>3
<1>3. CASE \E x \in Namespace, e \in Digest : RemoveManifest(x, e)
  <2>1. PICK x \in Namespace, e \in Digest : RemoveManifest(x, e)
    BY <1>3
  <2>2. CASE x = n /\ e = d
    BY <2>1, <2>2 DEF RemoveManifest, GetManifestByDigest
  <2>3. CASE <<x, e>> # <<n, d>>
    BY <2>1, <2>3 DEF RemoveManifest
  <2> QED BY <2>2, <2>3
<1> QED
  BY <1>1, <1>2, <1>3
     DEF MetaNext, metaVars, CreateNamespace, DeleteNamespace, InsertNamespaceBlob

(* Overlapping puts never replace a manifest's media type, nor undo a deletion.  *)
THEOREM ManifestRowsAreFinal == Spec => ManifestRowsFinal
<1>1. ASSUME TypeInv, [Next]_vars, NEW n \in Namespace, NEW d \in Digest,
             manifests[<<n, d>>] # NoManifest
      PROVE  /\ manifests'[<<n, d>>].mediaType = manifests[<<n, d>>].mediaType
             /\ manifests'[<<n, d>>].lifecycle
                   \in {manifests[<<n, d>>].lifecycle, "pending_deletion"}
  <2>1. manifests[<<n, d>>] \in ManifestRow
    BY <1>1 DEF TypeInv, MetaTypeOK, Key
  <2>2. \/ manifests'[<<n, d>>] = manifests[<<n, d>>]
        \/ manifests'[<<n, d>>] = Tombstone(manifests[<<n, d>>])
    BY <1>1, MetaEffect, RowEffect DEF TypeInv, InsertedManifest
  <2> QED BY <2>1, <2>2 DEF Tombstone, ManifestRow
<1>2. TypeInv /\ [Next]_vars => RowsFinal
  BY <1>1 DEF RowsFinal
<1> QED BY <1>2, TypeInvariant, PTL DEF Spec, ManifestRowsFinal

(* The referrers index and the manifests never disagree: whatever puts and       *)
(* deletes overlap, a readable manifest is listed under its subject.             *)
THEOREM ReferrersAreIndexed == Spec => []ReferrersIndexed
<1> USE DEF ReferrersIndexed, GetManifestByDigest, ListReferrers
<1>1. Init => ReferrersIndexed
  BY SystemAssumption DEF Init, MetaInit, Key, NoManifest, NoReferrer
<1>2. ASSUME TypeInv, ReferrersIndexed, [Next]_vars
      PROVE  ReferrersIndexed'
  <2> SUFFICES ASSUME NEW n \in Namespace, NEW d \in Digest
               PROVE  /\ manifests'[<<n, d>>].lifecycle = "active" /\ Subject[d] # NoDigest
                            => referrers'[<<n, d>>].subject = Subject[d]
                      /\ \A s \in Digest : referrers'[<<n, d>>].subject = s
                            => s = Subject[d] /\ manifests'[<<n, d>>] # NoManifest
    OBVIOUS
  <2>1. /\ manifests[<<n, d>>].lifecycle = "active" /\ Subject[d] # NoDigest
              => referrers[<<n, d>>].subject = Subject[d]
        /\ \A s \in Digest : referrers[<<n, d>>].subject = s
              => s = Subject[d] /\ manifests[<<n, d>>] # NoManifest
    BY <1>2, MetastoreAssumption
  <2>2. CASE /\ manifests'[<<n, d>>] = manifests[<<n, d>>]
             /\ referrers'[<<n, d>>] = referrers[<<n, d>>]
    BY <2>1, <2>2
  <2>3. CASE \E m \in MediaType : /\ manifests'[<<n, d>>] = InsertedManifest(n, d, m)
                                  /\ referrers'[<<n, d>>] = UpsertedReferrer(n, d, m)
    <3>1. manifests'[<<n, d>>] # NoManifest
      BY <2>3 DEF InsertedManifest, NoManifest
    <3> QED BY <2>1, <2>3, <3>1 DEF UpsertedReferrer
  <2>4. CASE /\ manifests'[<<n, d>>] = Tombstone(manifests[<<n, d>>])
             /\ referrers'[<<n, d>>] = NoReferrer
    <3>1. manifests'[<<n, d>>].lifecycle # "active"
      BY <1>2, <2>4 DEF Tombstone, TypeInv, MetaTypeOK, Key, ManifestRow
    <3> QED BY <2>4, <3>1, SystemAssumption DEF NoReferrer
  <2> QED BY <1>2, <2>2, <2>3, <2>4, MetaEffect, RowEffect DEF TypeInv
<1> QED BY <1>1, <1>2, TypeInvariant, PTL DEF Spec

-----------------------------------------------------------------------------
(* The bytes *)

(* Which steps change the committed files, and how. *)
LEMMA FilesEffect ==
    ASSUME [Next]_vars
    PROVE  \/ UNCHANGED files
           \/ \E r \in BlobRequest :
                 (PutFile(r) \/ Finalize(r)) /\ files' = files \cup {<<Ns(r), Dg(r)>>}
           \/ \E r \in BlobRequest :
                 Cleanup(r) /\ VacuumRunning /\ files' = files \ {<<Ns(r), Dg(r)>>}
           \/ \E r \in ManifestRequest :
                 PutBody(r) /\ MGoto(r, "store") /\ files' = files \cup {<<MNs(r), MDg(r)>>}
           \/ \E r \in ManifestRequest :
                 DeleteBody(r) /\ VacuumRunning /\ files' = files \ {<<MNs(r), MDg(r)>>}
<1>1. CASE BlobServiceNext
  <2>1. PICK r \in BlobRequest : BlobArrive(r) \/ Disconnect(r) \/ BlobServe(r)
    BY <1>1 DEF BlobServiceNext
  <2>2. CASE PutFile(r) \/ Finalize(r)
    BY <2>2 DEF PutFile, PutBlob, Finalize, CommitStaged
  <2>3. CASE Cleanup(r)
    BY <2>3 DEF Cleanup, DeleteBlob, blobVars
  <2>4. CASE ~(PutFile(r) \/ Finalize(r) \/ Cleanup(r))
    BY <2>1, <2>4
       DEF BlobArrive, Disconnect, BlobServe, StatRegistered, OpenBlob, PutFileCommitted,
           PutFileFails, StatExisting, Register, RegisterFails, MountSource, MountOpen,
           MountFallback, Initiate, AppendChunk, CommitOffset, FinalChunk, FinalizeFails,
           Discard, GetUploadStatus, CancelStat, CancelUpload, UploadUnknown, ReadOnly,
           blobVars, InitiateBlobUpload, AppendPiece, CancelBlobUpload
  <2> QED BY <2>2, <2>3, <2>4
<1>2. CASE ManifestServiceNext
  BY <1>2
     DEF ManifestServiceNext, ManifestArrive, ManifestDisconnect, ManifestServe, PutBody, Store,
         StoreFails, ResolveManifest, OpenBody, Remove, RemoveFails, DeleteBody, List,
         MReadOnly, blobVars, PutBlob, DeleteBlob
<1>3. CASE \E n \in Namespace : CreateNamespaceRequest(n) \/ DeleteNamespaceRequest(n)
  BY <1>3 DEF CreateNamespaceRequest, DeleteNamespaceRequest, blobVars
<1>4. CASE Crash \/ UNCHANGED vars
  BY <1>4 DEF Crash, vars, blobVars
<1> QED BY <1>1, <1>2, <1>3, <1>4 DEF Next

(* Which steps change table namespace_blobs, and how. *)
LEMMA RegisterEffect ==
    ASSUME [Next]_vars
    PROVE  \/ UNCHANGED namespaceBlobs
           \/ \E r \in BlobRequest : Register(r)
<1>1. CASE BlobServiceNext
  <2>1. PICK r \in BlobRequest : BlobArrive(r) \/ Disconnect(r) \/ BlobServe(r)
    BY <1>1 DEF BlobServiceNext
  <2>2. CASE ~Register(r)
    BY <2>1, <2>2
       DEF BlobArrive, Disconnect, BlobServe, StatRegistered, OpenBlob, PutFile, PutFileCommitted,
           PutFileFails, StatExisting, RegisterFails, Cleanup, MountSource, MountOpen,
           MountFallback, Initiate, AppendChunk, CommitOffset, FinalChunk, Finalize,
           FinalizeFails, Discard, GetUploadStatus, CancelStat, CancelUpload, UploadUnknown,
           ReadOnly, metaVars
  <2> QED BY <2>2
<1>2. CASE ManifestServiceNext
  BY <1>2
     DEF ManifestServiceNext, ManifestArrive, ManifestDisconnect, ManifestServe, PutBody, Store,
         StoreFails, ResolveManifest, OpenBody, Remove, RemoveFails, DeleteBody, List,
         MReadOnly, metaVars, StoreManifest, RemoveManifest
<1>3. CASE \E n \in Namespace : CreateNamespaceRequest(n) \/ DeleteNamespaceRequest(n)
  BY <1>3 DEF CreateNamespaceRequest, DeleteNamespaceRequest, CreateNamespace, DeleteNamespace
<1>4. CASE Crash \/ UNCHANGED vars
  BY <1>4 DEF Crash, vars, metaVars
<1> QED BY <1>1, <1>2, <1>3, <1>4 DEF Next

(* Which steps change table manifests. *)
LEMMA ManifestEffect ==
    ASSUME [Next]_vars
    PROVE  \/ UNCHANGED manifests
           \/ \E r \in ManifestRequest : Store(r) \/ Remove(r)
<1>1. CASE BlobServiceNext
  BY <1>1
     DEF BlobServiceNext, BlobArrive, Disconnect, BlobServe, StatRegistered, OpenBlob, PutFile,
         PutFileCommitted, PutFileFails, StatExisting, Register, RegisterFails, Cleanup,
         MountSource, MountOpen, MountFallback, Initiate, AppendChunk, CommitOffset,
         FinalChunk, Finalize, FinalizeFails, Discard, GetUploadStatus, CancelStat,
         CancelUpload, UploadUnknown, ReadOnly, metaVars, InsertNamespaceBlob
<1>2. CASE ManifestServiceNext
  BY <1>2
     DEF ManifestServiceNext, ManifestArrive, ManifestDisconnect, ManifestServe, PutBody,
         StoreFails, ResolveManifest, OpenBody, RemoveFails, DeleteBody, List,
         MReadOnly, metaVars
<1>3. CASE \E n \in Namespace : CreateNamespaceRequest(n) \/ DeleteNamespaceRequest(n)
  BY <1>3 DEF CreateNamespaceRequest, DeleteNamespaceRequest, CreateNamespace, DeleteNamespace
<1>4. CASE Crash \/ UNCHANGED vars
  BY <1>4 DEF Crash, vars, metaVars
<1> QED BY <1>1, <1>2, <1>3, <1>4 DEF Next

-----------------------------------------------------------------------------
(* What a step does to the requests: it moves one slot, or resets them all. *)

LEMMA Answered ==
    ASSUME BlobReqTypeOK, NEW r \in BlobRequest, NEW reply, Answer(r, reply)
    PROVE  /\ blobReq'[r].pc = "done" /\ blobReq'[r].reply = reply
           /\ blobReq'[r].op = blobReq[r].op
           /\ blobReq'[r].ns = blobReq[r].ns
           /\ blobReq'[r].dg = blobReq[r].dg
           /\ \A x \in BlobRequest \ {r} : blobReq'[x] = blobReq[x]
BY DEF BlobReqTypeOK, Answer, Request, Op, Ns, Dg

LEMMA Gone ==
    ASSUME BlobReqTypeOK, NEW r \in BlobRequest, NEW pc, Goto(r, pc)
    PROVE  /\ blobReq'[r].pc = pc
           /\ blobReq'[r].op = blobReq[r].op
           /\ blobReq'[r].ns = blobReq[r].ns
           /\ blobReq'[r].dg = blobReq[r].dg
           /\ blobReq'[r].mine = blobReq[r].mine
           /\ blobReq'[r].alive = blobReq[r].alive
           /\ blobReq'[r].reply = blobReq[r].reply
           /\ \A x \in BlobRequest \ {r} : blobReq'[x] = blobReq[x]
BY DEF BlobReqTypeOK, Goto, BlobRequestRecord

LEMMA GoneToRegister ==
    ASSUME BlobReqTypeOK, NEW r \in BlobRequest, GotoRegister(r)
    PROVE  /\ blobReq'[r].pc = "register"
           /\ blobReq'[r].mine = TRUE
           /\ blobReq'[r].op = blobReq[r].op
           /\ blobReq'[r].ns = blobReq[r].ns
           /\ blobReq'[r].dg = blobReq[r].dg
           /\ blobReq'[r].alive = blobReq[r].alive
           /\ blobReq'[r].reply = blobReq[r].reply
           /\ \A x \in BlobRequest \ {r} : blobReq'[x] = blobReq[x]
BY DEF BlobReqTypeOK, GotoRegister, BlobRequestRecord

LEMMA GoneAt ==
    ASSUME BlobReqTypeOK, NEW r \in BlobRequest, NEW pc, NEW offset, GotoAt(r, pc, offset)
    PROVE  /\ blobReq'[r].pc = pc
           /\ blobReq'[r].op = blobReq[r].op
           /\ blobReq'[r].ns = blobReq[r].ns
           /\ blobReq'[r].dg = blobReq[r].dg
           /\ blobReq'[r].alive = blobReq[r].alive
           /\ blobReq'[r].reply = blobReq[r].reply
           /\ \A x \in BlobRequest \ {r} : blobReq'[x] = blobReq[x]
BY DEF BlobReqTypeOK, GotoAt, BlobRequestRecord

LEMMA Arrived ==
    ASSUME BlobReqTypeOK, NEW r \in BlobRequest, BlobArrive(r)
    PROVE  /\ \E op \in BlobOps : blobReq'[r].op = op /\ blobReq'[r].pc \in {FirstCall[op], "done"}
           /\ blobReq'[r].alive = TRUE
           /\ \A x \in BlobRequest \ {r} : blobReq'[x] = blobReq[x]
BY DEF BlobReqTypeOK, BlobArrive, NewRequest, RefusedRequest, Request

LEMMA Disconnected ==
    ASSUME BlobReqTypeOK, NEW r \in BlobRequest, Disconnect(r)
    PROVE  /\ blobReq'[r].pc = blobReq[r].pc
           /\ blobReq'[r].op = blobReq[r].op
           /\ blobReq'[r].ns = blobReq[r].ns
           /\ blobReq'[r].dg = blobReq[r].dg
           /\ blobReq'[r].mine = blobReq[r].mine
           /\ blobReq'[r].reply = blobReq[r].reply
           /\ \A x \in BlobRequest \ {r} : blobReq'[x] = blobReq[x]
BY DEF BlobReqTypeOK, Disconnect, BlobRequestRecord

LEMMA OtherSlots ==
    ASSUME BlobReqTypeOK, NEW r \in BlobRequest, BlobArrive(r) \/ Disconnect(r) \/ BlobServe(r),
           NEW x \in BlobRequest \ {r}
    PROVE  blobReq'[x] = blobReq[x]
<1>1. CASE BlobArrive(r) \/ Disconnect(r)
  BY <1>1, Arrived, Disconnected
<1>2. CASE StatRegistered(r) \/ OpenBlob(r) \/ PutFileCommitted(r) \/ PutFileFails(r)
           \/ StatExisting(r) \/ Register(r) \/ RegisterFails(r) \/ Cleanup(r)
  BY <1>2, Answered, Gone
     DEF StatRegistered, OpenBlob, PutFileCommitted, PutFileFails, StatExisting, Register,
         RegisterFails, Cleanup
<1>3. CASE MountSource(r) \/ MountOpen(r) \/ MountFallback(r) \/ Initiate(r) \/ AppendChunk(r)
  BY <1>3, Answered, Gone DEF MountSource, MountOpen, MountFallback, Initiate, AppendChunk
<1>4. CASE PutFile(r) \/ CommitOffset(r) \/ FinalChunk(r) \/ Finalize(r)
  BY <1>4, Answered, GoneAt, GoneToRegister DEF PutFile, CommitOffset, FinalChunk, Finalize
<1>5. CASE FinalizeFails(r) \/ Discard(r) \/ GetUploadStatus(r) \/ CancelStat(r)
           \/ CancelUpload(r) \/ UploadUnknown(r)
  BY <1>5, Answered, Gone
     DEF FinalizeFails, Discard, GetUploadStatus, CancelStat, CancelUpload, UploadUnknown
<1> QED BY <1>1, <1>2, <1>3, <1>4, <1>5 DEF BlobServe

(* How a request gets to the transaction that registers its blob. *)
LEMMA ReachRegister ==
    ASSUME TypeInv, [Next]_vars, NEW x \in BlobRequest, blobReq'[x].pc = "register"
    PROVE  \/ /\ blobReq[x].pc = "register"
              /\ blobReq'[x].ns = blobReq[x].ns /\ blobReq'[x].dg = blobReq[x].dg
              /\ blobReq'[x].mine = blobReq[x].mine
           \/ /\ StatExisting(x) /\ Goto(x, "register") /\ Stored(Ns(x), Dg(x))
           \/ /\ PutFile(x) \/ Finalize(x)
              /\ GotoRegister(x)
<1>0. BlobReqTypeOK
  BY DEF TypeInv, BlobReqInv
<1>1. CASE BlobServiceNext
  <2>1. PICK r \in BlobRequest : BlobArrive(r) \/ Disconnect(r) \/ BlobServe(r)
    BY <1>1 DEF BlobServiceNext
  <2>2. CASE BlobArrive(r)
    <3>1. \A op \in BlobOps : FirstCall[op] # "register"
      BY BlobServiceAssumption DEF FirstCall
    <3> QED BY <1>0, <2>2, <3>1, Arrived
  <2>3. CASE Disconnect(r)
    BY <1>0, <2>3, Disconnected
  <2>4. CASE PutFile(r) \/ Finalize(r) \/ StatExisting(r)
    <3>1. CASE x # r
      BY <1>0, <2>4, <3>1, GoneToRegister, Answered, Gone DEF PutFile, Finalize, StatExisting
    <3>2. CASE x = r /\ (PutFile(r) \/ Finalize(r))
      BY <1>0, <3>2, Answered DEF PutFile, Finalize
    <3>3. CASE x = r /\ StatExisting(r)
      BY <1>0, <3>3, Answered DEF StatExisting
    <3> QED BY <2>4, <3>1, <3>2, <3>3
  <2>5. CASE BlobServe(r) /\ ~(PutFile(r) \/ Finalize(r) \/ StatExisting(r))
    BY <1>0, <2>5, Answered, Gone, GoneAt
       DEF BlobServe, StatRegistered, OpenBlob, PutFileCommitted, PutFileFails, Register,
           RegisterFails, Cleanup, MountSource, MountOpen, MountFallback, Initiate,
           AppendChunk, CommitOffset, FinalChunk, FinalizeFails, Discard, GetUploadStatus,
           CancelStat, CancelUpload, UploadUnknown
  <2> QED BY <2>1, <2>2, <2>3, <2>4, <2>5
<1>2. CASE UNCHANGED blobReq
  BY <1>2
<1>3. CASE Crash
  BY <1>3 DEF Crash, NoRequest, Request
<1> QED
  BY <1>1, <1>2, <1>3
     DEF Next, CreateNamespaceRequest, DeleteNamespaceRequest, vars

(* The same of the manifest service. *)

LEMMA MAnswered ==
    ASSUME ManReqTypeOK, NEW r \in ManifestRequest, NEW reply, MAnswer(r, reply)
    PROVE  /\ manReq'[r].pc = "done" /\ manReq'[r].reply = reply
           /\ \A x \in ManifestRequest \ {r} : manReq'[x] = manReq[x]
BY DEF ManReqTypeOK, MAnswer, MRequest

LEMMA MGone ==
    ASSUME ManReqTypeOK, NEW r \in ManifestRequest, NEW pc, MGoto(r, pc)
    PROVE  /\ manReq'[r].pc = pc
           /\ manReq'[r].ns = manReq[r].ns
           /\ manReq'[r].dg = manReq[r].dg
           /\ manReq'[r].reply = manReq[r].reply
           /\ \A x \in ManifestRequest \ {r} : manReq'[x] = manReq[x]
BY DEF ManReqTypeOK, MGoto, ManifestRequestRecord

LEMMA MOtherSlots ==
    ASSUME ManReqTypeOK, NEW r \in ManifestRequest, ManifestServe(r),
           NEW x \in ManifestRequest \ {r}
    PROVE  manReq'[x] = manReq[x]
BY MAnswered, MGone
   DEF ManifestServe, PutBody, Store, StoreFails, ResolveManifest, OpenBody, Remove, RemoveFails,
       DeleteBody, List

LEMMA MArrived ==
    ASSUME ManReqTypeOK, NEW r \in ManifestRequest, ManifestArrive(r)
    PROVE  /\ manReq'[r].pc \notin {"store", "deleteBody"}
           /\ \A x \in ManifestRequest \ {r} : manReq'[x] = manReq[x]
<1>1. \A op \in ManifestOps : ManifestFirstCall[op] \notin {"store", "deleteBody"}
  BY ManifestServiceAssumption DEF ManifestFirstCall
<1> QED BY <1>1 DEF ManReqTypeOK, ManifestArrive, NewManifestRequest,
                    RefusedManifestRequest, MRequest

LEMMA MDisconnected ==
    ASSUME ManReqTypeOK, NEW r \in ManifestRequest, ManifestDisconnect(r)
    PROVE  /\ manReq'[r].pc = manReq[r].pc
           /\ manReq'[r].ns = manReq[r].ns
           /\ manReq'[r].dg = manReq[r].dg
           /\ manReq'[r].reply = manReq[r].reply
           /\ \A x \in ManifestRequest \ {r} : manReq'[x] = manReq[x]
BY DEF ManReqTypeOK, ManifestDisconnect, ManifestRequestRecord

-----------------------------------------------------------------------------
(* When nobody removes a committed file *)

(* No transaction that registers a blob can fail: the database and the clients   *)
(* stay, and no namespace is deleted between a request's check and its write.    *)
RegistrationsHold ==
    "metastore" \notin Faults /\ "disconnect" \notin Faults /\ "Delete" \notin NamespaceOps

NoCleanup ==
    \A r \in BlobRequest :
        /\ blobReq[r].alive
        /\ blobReq[r].pc # "cleanup"
        /\ blobReq[r].pc \notin {"idle", "done"} => NamespaceExists(blobReq[r].ns)

LEMMA ArrivedAt ==
    ASSUME BlobReqTypeOK, NEW r \in BlobRequest, BlobArrive(r)
    PROVE  /\ blobReq'[r].alive /\ blobReq'[r].pc # "cleanup"
           /\ blobReq'[r].pc # "done" => NamespaceExists(blobReq'[r].ns)
<1>1. \A op \in BlobOps : FirstCall[op] # "cleanup"
  BY BlobServiceAssumption DEF FirstCall
<1> QED BY <1>1 DEF BlobReqTypeOK, BlobArrive, NewRequest, RefusedRequest, Request

(* Serving a request keeps its namespace and its context; only a registration    *)
(* that fails leads to the cleanup.                                              *)
LEMMA ServeKeeps ==
    ASSUME BlobReqTypeOK, NEW r \in BlobRequest, BlobServe(r)
    PROVE  /\ blobReq[r].alive => blobReq'[r].alive
           /\ blobReq'[r].ns = blobReq[r].ns
           /\ blobReq[r].pc \notin {"idle", "done"}
           /\ blobReq'[r].pc = "cleanup" => RegisterFails(r)
<1>0. blobReq[r].pc \notin {"idle", "done"}
  BY DEF BlobServe, StatRegistered, OpenBlob, PutFile, PutFileCommitted, PutFileFails,
         StatExisting, Register, RegisterFails, Cleanup, MountSource, MountOpen, MountFallback,
         Initiate, AppendChunk, CommitOffset, FinalChunk, Finalize, FinalizeFails, Discard,
         GetUploadStatus, CancelStat, CancelUpload, UploadUnknown, At
<1>1. CASE \E reply : Answer(r, reply)
  BY <1>0, <1>1 DEF Answer, Request, BlobReqTypeOK, Ns
<1>2. CASE \E pc : Goto(r, pc) /\ pc # "cleanup"
  BY <1>0, <1>2, Gone
<1>3. CASE GotoRegister(r)
  BY <1>0, <1>3, GoneToRegister
<1>4. CASE CommitOffset(r) \/ FinalChunk(r)
  BY <1>0, <1>1, <1>4, GoneAt DEF CommitOffset, FinalChunk
<1>5. CASE RegisterFails(r)
  BY <1>0, <1>1, <1>5, Gone DEF RegisterFails
<1>6. CASE PutFile(r) \/ Finalize(r) \/ PutFileCommitted(r) \/ PutFileFails(r)
           \/ StatExisting(r) \/ StatRegistered(r) \/ OpenBlob(r) \/ Register(r) \/ Cleanup(r)
  BY <1>1, <1>2, <1>3, <1>0, <1>6
     DEF PutFile, Finalize, PutFileCommitted, PutFileFails, StatExisting, StatRegistered,
         OpenBlob, Register, Cleanup
<1>7. CASE MountSource(r) \/ MountOpen(r) \/ MountFallback(r) \/ Initiate(r) \/ AppendChunk(r)
           \/ FinalizeFails(r) \/ Discard(r) \/ GetUploadStatus(r) \/ CancelStat(r)
           \/ CancelUpload(r) \/ UploadUnknown(r)
  BY <1>1, <1>2, <1>0, <1>7
     DEF MountSource, MountOpen, MountFallback, Initiate, AppendChunk, FinalizeFails, Discard,
         GetUploadStatus, CancelStat, CancelUpload, UploadUnknown
<1> QED BY <1>4, <1>5, <1>6, <1>7 DEF BlobServe

LEMMA NoCleanupStep ==
    ASSUME RegistrationsHold, TypeInv, NoCleanup, [Next]_vars
    PROVE  NoCleanup'
<1>0. BlobReqTypeOK
  BY DEF TypeInv, BlobReqInv
<1>1. namespaces \subseteq namespaces'
  <2>1. ~\E n \in Namespace : DeleteNamespaceRequest(n)
    BY DEF DeleteNamespaceRequest, RegistrationsHold
  <2>2. CASE \E n \in Namespace : CreateNamespaceRequest(n)
    BY <2>2 DEF CreateNamespaceRequest, CreateNamespace
  <2>3. CASE BlobServiceNext
    BY <2>3
       DEF BlobServiceNext, BlobArrive, Disconnect, BlobServe, StatRegistered, OpenBlob,
           PutFile, PutFileCommitted, PutFileFails, StatExisting, Register, RegisterFails,
           Cleanup, MountSource, MountOpen, MountFallback, Initiate, AppendChunk,
           CommitOffset, FinalChunk, Finalize, FinalizeFails, Discard, GetUploadStatus,
           CancelStat, CancelUpload, UploadUnknown, ReadOnly, metaVars, InsertNamespaceBlob
  <2>4. CASE ManifestServiceNext
    BY <2>4
       DEF ManifestServiceNext, ManifestArrive, ManifestDisconnect, ManifestServe, PutBody,
           Store, StoreFails, ResolveManifest, OpenBody, Remove, RemoveFails, DeleteBody,
           List, MReadOnly, metaVars, StoreManifest, RemoveManifest
  <2>5. CASE Crash \/ UNCHANGED vars
    BY <2>5 DEF Crash, vars, metaVars
  <2> QED BY <2>1, <2>2, <2>3, <2>4, <2>5 DEF Next
<1>2. CASE BlobServiceNext
  <2>1. PICK r \in BlobRequest : BlobArrive(r) \/ BlobServe(r)
    BY <1>2 DEF BlobServiceNext, Disconnect, RegistrationsHold
  <2>2. \A x \in BlobRequest \ {r} : blobReq'[x] = blobReq[x]
    BY <1>0, <2>1, OtherSlots
  <2>3. /\ blobReq'[r].alive /\ blobReq'[r].pc # "cleanup"
        /\ blobReq'[r].pc # "done" => blobReq'[r].ns \in namespaces'
    <3>1. CASE BlobArrive(r)
      BY <1>0, <1>1, <3>1, ArrivedAt DEF NamespaceExists
    <3>2. CASE BlobServe(r)
      <4>1. ~RegisterFails(r)
        BY DEF RegisterFails, MetaCanFail, ForeignKeyHolds, NoCleanup, RegistrationsHold, At,
               Alive, Ns
      <4> QED BY <1>0, <1>1, <3>2, <4>1, ServeKeeps DEF NoCleanup, NamespaceExists
    <3> QED BY <2>1, <3>1, <3>2
  <2> QED BY <1>1, <2>2, <2>3 DEF NoCleanup, NamespaceExists
<1>3. CASE UNCHANGED blobReq
  BY <1>1, <1>3 DEF NoCleanup, NamespaceExists
<1>4. CASE Crash
  BY <1>4 DEF Crash, NoCleanup, NoRequest, Request
<1> QED
  BY <1>2, <1>3, <1>4
     DEF Next, CreateNamespaceRequest, DeleteNamespaceRequest, vars

(* No manifest is being deleted, and none was. *)
NoDeletes ==
    /\ \A r \in ManifestRequest : manReq[r].pc \notin {"remove", "deleteBody"}
    /\ \A n \in Namespace, d \in Digest :
          manifests[<<n, d>>] = NoManifest \/ manifests[<<n, d>>].lifecycle = "active"

LEMMA NoDeletesStep ==
    ASSUME "DeleteManifest" \notin ManifestOps, TypeInv, NoDeletes, [Next]_vars
    PROVE  NoDeletes'
<1>0. MetaTypeOK /\ ManReqTypeOK /\ [MetaNext]_metaVars
  BY MetaEffect DEF TypeInv, ManReqInv
<1>1. CASE ManifestServiceNext
  <2>1. PICK r \in ManifestRequest :
           ManifestArrive(r) \/ ManifestDisconnect(r) \/ ManifestServe(r)
    BY <1>1 DEF ManifestServiceNext
  <2>2. ~Remove(r)
    BY DEF Remove, MAt, NoDeletes
  <2>3. CASE ManifestArrive(r)
    <3>1. \A op \in ManifestOps : ManifestFirstCall[op] \notin {"remove", "deleteBody"}
      BY ManifestServiceAssumption DEF ManifestFirstCall
    <3>2. manReq'[r].pc \notin {"remove", "deleteBody"}
      BY <1>0, <2>3, <3>1 DEF ManReqTypeOK, ManifestArrive, NewManifestRequest,
                              RefusedManifestRequest, MRequest
    <3>3. UNCHANGED manifests
      BY <2>3 DEF ManifestArrive, MReadOnly, metaVars
    <3> QED BY <1>0, <2>3, <3>2, <3>3, MArrived DEF NoDeletes
  <2>4. CASE ManifestDisconnect(r)
    BY <1>0, <2>4, MDisconnected DEF NoDeletes, ManifestDisconnect, MReadOnly, metaVars
  <2>5. CASE ManifestServe(r)
    <3>1. \A x \in ManifestRequest : manReq'[x].pc \notin {"remove", "deleteBody"}
      BY <1>0, <2>2, <2>5, MAnswered, MGone
         DEF NoDeletes, ManifestServe, PutBody, Store, StoreFails, ResolveManifest, OpenBody,
             RemoveFails, DeleteBody, List
    <3>2. CASE UNCHANGED manifests
      BY <3>1, <3>2 DEF NoDeletes
    <3>3. CASE Store(r)
      <4>1. \A n \in Namespace, d \in Digest :
               \/ manifests'[<<n, d>>] = NoManifest
               \/ manifests'[<<n, d>>].lifecycle = "active"
        BY <1>0, <3>3 DEF Store, StoreManifest, InsertedManifest, NoDeletes, MetaTypeOK, Key
      <4> QED BY <3>1, <4>1 DEF NoDeletes
    <3>4. UNCHANGED manifests \/ Store(r)
      BY <2>2, <2>5
         DEF ManifestServe, PutBody, StoreFails, ResolveManifest, OpenBody, RemoveFails,
             DeleteBody, List, MReadOnly, metaVars
    <3> QED BY <3>2, <3>3, <3>4
  <2> QED BY <2>1, <2>3, <2>4, <2>5
<1>2. CASE ~ManifestServiceNext
  <2>1. UNCHANGED manifests
    <3>1. ~\E r \in ManifestRequest : Store(r) \/ Remove(r)
      BY <1>2 DEF ManifestServiceNext, ManifestServe
    <3> QED BY <3>1, ManifestEffect
  <2>2. UNCHANGED manReq \/ Crash
    BY <1>2 DEF Next, CreateNamespaceRequest, DeleteNamespaceRequest, vars
  <2> QED BY <2>1, <2>2 DEF NoDeletes, Crash, NoManifestRequest, MRequest
<1> QED BY <1>1, <1>2

(* Nobody removes the bytes of a registered blob: there is no worker pool, or    *)
(* neither of the two requests that delete bytes ever gets to it.                *)
NothingRemoved ==
    \/ ~VacuumRunning
    \/ RegistrationsHold /\ "DeleteManifest" \notin ManifestOps

Unremoved ==
    VacuumRunning => NoCleanup /\ NoDeletes

LEMMA UnremovedInit ==
    Init => NoCleanup /\ NoDeletes
BY DEF Init, MetaInit, BlobReqInit, ManReqInit, NoRequest, Request, NoManifestRequest, MRequest,
       NoCleanup, NoDeletes, Key, NoManifest

LEMMA UnremovedStep ==
    ASSUME NothingRemoved, TypeInv, Unremoved, [Next]_vars
    PROVE  Unremoved'
BY NoCleanupStep, NoDeletesStep DEF NothingRemoved, Unremoved

-----------------------------------------------------------------------------
(* A blob and its bytes *)

(* A request about to register a blob has its bytes in the store. *)
BytesBeforeRow ==
    \A r \in BlobRequest :
        blobReq[r].pc = "register" => Stored(blobReq[r].ns, blobReq[r].dg)

LEMMA BytesStep ==
    ASSUME TypeInv, RegisteredHasBytes, BytesBeforeRow, Unremoved, [Next]_vars
    PROVE  RegisteredHasBytes' /\ BytesBeforeRow'
<1>1. files \subseteq files'
  <2>1. VacuumRunning => ~\E r \in BlobRequest : Cleanup(r)
    BY DEF Unremoved, NoCleanup, Cleanup, At
  <2>2. VacuumRunning => ~\E r \in ManifestRequest : DeleteBody(r)
    BY DEF Unremoved, NoDeletes, DeleteBody, MAt
  <2> QED BY <2>1, <2>2, FilesEffect
<1>2. BytesBeforeRow'
  <2> SUFFICES ASSUME NEW x \in BlobRequest, blobReq'[x].pc = "register"
               PROVE  <<blobReq'[x].ns, blobReq'[x].dg>> \in files'
    BY DEF BytesBeforeRow, Stored
  <2>0. BlobReqTypeOK
    BY DEF TypeInv, BlobReqInv
  <2>1. CASE blobReq[x].pc = "register" /\ blobReq'[x].ns = blobReq[x].ns
                                        /\ blobReq'[x].dg = blobReq[x].dg
    BY <1>1, <2>1 DEF BytesBeforeRow, Stored
  <2>2. CASE Goto(x, "register") /\ Stored(Ns(x), Dg(x))
    BY <1>1, <2>0, <2>2, Gone DEF Stored, Ns, Dg
  <2>3. CASE (PutFile(x) \/ Finalize(x)) /\ GotoRegister(x)
    <3>1. <<Ns(x), Dg(x)>> \in files'
      BY <2>3 DEF PutFile, PutBlob, Finalize, CommitStaged
    <3> QED BY <2>0, <2>3, <3>1, GoneToRegister DEF Ns, Dg
  <2> QED BY <2>1, <2>2, <2>3, ReachRegister
<1>3. RegisteredHasBytes'
  <2> SUFFICES ASSUME NEW n \in Namespace, NEW d \in Digest,
                      namespaceBlobs'[<<n, d>>] = "active"
               PROVE  <<n, d>> \in files'
    BY DEF RegisteredHasBytes, StatNamespaceBlob, Stored
  <2>1. CASE namespaceBlobs[<<n, d>>] = "active"
    BY <1>1, <2>1 DEF RegisteredHasBytes, StatNamespaceBlob, Stored
  <2>2. CASE namespaceBlobs[<<n, d>>] # "active"
    <3>1. PICK r \in BlobRequest : Register(r)
      BY <2>2, RegisterEffect
    <3>2. Ns(r) = n /\ Dg(r) = d
      BY <2>2, <3>1 DEF Register, InsertNamespaceBlob, TypeInv, MetaTypeOK, Key
    <3>3. <<n, d>> \in files
      BY <3>1, <3>2 DEF Register, At, BytesBeforeRow, Stored, Ns, Dg
    <3> QED BY <1>1, <3>3
  <2> QED BY <2>1, <2>2
<1> QED BY <1>2, <1>3

(* Every blob the metadata store answers for has its bytes: no failure,          *)
(* disconnect, crash or concurrent upload parts them as long as there is no      *)
(* worker pool, as shipped; with one, as long as no registration can fail and no *)
(* manifest is deleted, for these are what removes bytes of others.              *)
THEOREM RegisteredKeepsBytes ==
    ASSUME NothingRemoved
    PROVE  Spec => []RegisteredHasBytes
<1>1. Init => RegisteredHasBytes /\ BytesBeforeRow /\ Unremoved
  BY UnremovedInit
     DEF Init, MetaInit, BlobReqInit, NoRequest, Request, Key, RegisteredHasBytes,
         StatNamespaceBlob, BytesBeforeRow, Unremoved
<1>2. ASSUME TypeInv, RegisteredHasBytes, BytesBeforeRow, Unremoved, [Next]_vars
      PROVE  RegisteredHasBytes' /\ BytesBeforeRow' /\ Unremoved'
  BY <1>2, BytesStep, UnremovedStep
<1> QED BY <1>1, <1>2, TypeInvariant, PTL DEF Spec

-----------------------------------------------------------------------------
(* A manifest and its bytes *)

(* How a request gets to the transaction of PutManifest, and past the one of     *)
(* DeleteManifest.                                                               *)
LEMMA ReachStoreOrDelete ==
    ASSUME TypeInv, [Next]_vars, NEW x \in ManifestRequest,
           manReq'[x].pc \in {"store", "deleteBody"}
    PROVE  \/ /\ manReq'[x].pc = manReq[x].pc
              /\ manReq'[x].ns = manReq[x].ns /\ manReq'[x].dg = manReq[x].dg
           \/ PutBody(x) /\ MGoto(x, "store")
           \/ Remove(x)
<1>0. ManReqTypeOK
  BY DEF TypeInv, ManReqInv
<1>1. CASE ManifestServiceNext
  <2>1. PICK r \in ManifestRequest :
           ManifestArrive(r) \/ ManifestDisconnect(r) \/ ManifestServe(r)
    BY <1>1 DEF ManifestServiceNext
  <2>2. CASE ManifestArrive(r) \/ ManifestDisconnect(r)
    BY <1>0, <2>2, MArrived, MDisconnected
  <2>3. CASE PutBody(r) \/ Remove(r)
    <3>1. CASE x # r
      BY <1>0, <2>3, <3>1, MAnswered, MGone DEF PutBody, Remove
    <3>2. CASE x = r
      BY <1>0, <2>3, <3>2, MAnswered DEF PutBody
    <3> QED BY <3>1, <3>2
  <2>4. CASE ManifestServe(r) /\ ~(PutBody(r) \/ Remove(r))
    BY <1>0, <2>4, MAnswered, MGone
       DEF ManifestServe, Store, StoreFails, ResolveManifest, OpenBody, RemoveFails,
           DeleteBody, List
  <2> QED BY <2>1, <2>2, <2>3, <2>4
<1>2. CASE UNCHANGED manReq
  BY <1>2
<1>3. CASE Crash
  BY <1>3 DEF Crash, NoManifestRequest, MRequest
<1> QED
  BY <1>1, <1>2, <1>3
     DEF Next, CreateNamespaceRequest, DeleteNamespaceRequest, vars

(* A key whose row is active, or is about to become active, has its bytes: the   *)
(* second half is what makes the first inductive.                                *)
BytesBeforeManifest ==
    \A n \in Namespace, d \in Digest :
        \/ manifests[<<n, d>>].lifecycle = "active"
        \/ /\ manifests[<<n, d>>] = NoManifest
           /\ \E r \in ManifestRequest :
                 manReq[r].pc = "store" /\ manReq[r].ns = n /\ manReq[r].dg = d
        => <<n, d>> \in files

(* Bytes are only deleted under a row that is pending deletion, and stays so.    *)
DeletesTombstones ==
    \A r \in ManifestRequest :
        manReq[r].pc = "deleteBody" =>
            manifests[<<manReq[r].ns, manReq[r].dg>>].lifecycle = "pending_deletion"

(* Without uploads no request ever gets to the cleanup of a failed one.          *)
NoPush == BlobOps \cap PushOps = {}

NoPushInProgress ==
    \A r \in BlobRequest :
        blobReq[r].pc \in {"idle", "done", "stat", "open", "initiate", "append", "status",
                           "cancelStat", "cancel"}

LEMMA NoPushStep ==
    ASSUME NoPush, TypeInv, NoPushInProgress, [Next]_vars
    PROVE  NoPushInProgress'
<1>0. BlobReqTypeOK
  BY DEF TypeInv, BlobReqInv
<1> SUFFICES ASSUME NEW x \in BlobRequest
             PROVE  blobReq'[x].pc \in {"idle", "done", "stat", "open", "initiate", "append",
                                        "status", "cancelStat", "cancel"}
  BY DEF NoPushInProgress
<1>1. CASE BlobServiceNext
  <2>1. PICK r \in BlobRequest : BlobArrive(r) \/ Disconnect(r) \/ BlobServe(r)
    BY <1>1 DEF BlobServiceNext
  <2>2. CASE x # r
    <3>1. blobReq'[x] = blobReq[x]
      BY <1>0, <2>1, <2>2, OtherSlots
    <3> QED BY <3>1 DEF NoPushInProgress
  <2>3. CASE x = r
    <3>1. CASE BlobArrive(r)
      <4>1. \A op \in BlobOps :
               FirstCall[op] \in {"stat", "initiate", "append", "status", "cancelStat"}
        BY BlobServiceAssumption DEF FirstCall, NoPush, PushOps
      <4> QED BY <1>0, <2>3, <3>1, <4>1, Arrived
    <3>2. CASE Disconnect(r)
      BY <1>0, <2>3, <3>2, Disconnected DEF NoPushInProgress
    <3>3. CASE BlobServe(r)
      BY <1>0, <2>3, <3>3, Answered, Gone
         DEF NoPushInProgress, BlobServe, StatRegistered, OpenBlob, PutFile, PutFileCommitted,
             PutFileFails, StatExisting, Register, RegisterFails, Cleanup, MountSource,
             MountOpen, MountFallback, Initiate, AppendChunk, CommitOffset, FinalChunk,
             Finalize, FinalizeFails, Discard, GetUploadStatus, CancelStat, CancelUpload,
             UploadUnknown, At
    <3> QED BY <2>1, <3>1, <3>2, <3>3
  <2> QED BY <2>2, <2>3
<1>2. CASE UNCHANGED blobReq
  BY <1>2 DEF NoPushInProgress
<1>3. CASE Crash
  BY <1>3 DEF Crash, NoRequest, Request
<1> QED
  BY <1>1, <1>2, <1>3
     DEF Next, CreateNamespaceRequest, DeleteNamespaceRequest, vars

(* The two halves of the argument, given that no upload's cleanup removes files. *)
LEMMA ManifestBytesStep ==
    ASSUME TypeInv, BytesBeforeManifest, DeletesTombstones, [Next]_vars,
           VacuumRunning => \A r \in BlobRequest : ~At(r, "cleanup")
    PROVE  BytesBeforeManifest' /\ DeletesTombstones'
<1> USE DEF BytesBeforeManifest, DeletesTombstones
<1>0. MetaTypeOK /\ ManReqTypeOK /\ [MetaNext]_metaVars
  BY MetaEffect DEF TypeInv, ManReqInv
<1>1. ASSUME NEW n \in Namespace, NEW d \in Digest,
             manifests[<<n, d>>].lifecycle = "pending_deletion"
      PROVE  manifests'[<<n, d>>].lifecycle = "pending_deletion"
  <2>1. \/ manifests'[<<n, d>>] = manifests[<<n, d>>]
        \/ manifests'[<<n, d>>] = Tombstone(manifests[<<n, d>>])
    <3>1. manifests[<<n, d>>] # NoManifest
      BY <1>1 DEF NoManifest
    <3>2. \A m \in MediaType : InsertedManifest(n, d, m) = manifests[<<n, d>>]
      BY <3>1 DEF InsertedManifest
    <3> QED BY <1>0, <3>2, RowEffect
  <2>2. manifests[<<n, d>>] \in ManifestRow
    BY <1>0 DEF MetaTypeOK, Key
  <2> QED BY <1>1, <2>1, <2>2 DEF Tombstone, ManifestRow
<1>2. DeletesTombstones'
  <2> SUFFICES ASSUME NEW x \in ManifestRequest, manReq'[x].pc = "deleteBody"
               PROVE  manifests'[<<manReq'[x].ns, manReq'[x].dg>>].lifecycle = "pending_deletion"
    OBVIOUS
  <2>1. CASE /\ manReq'[x].pc = manReq[x].pc
             /\ manReq'[x].ns = manReq[x].ns /\ manReq'[x].dg = manReq[x].dg
    <3>1. manReq[x].ns \in Namespace /\ manReq[x].dg \in Digest
      BY <2>1 DEF TypeInv, ManReqInv, MTargeted
    <3> QED BY <1>1, <2>1, <3>1
  <2>2. CASE PutBody(x) /\ MGoto(x, "store")
    BY <1>0, <2>2, MGone
  <2>3. CASE Remove(x)
    <3>1. MNs(x) \in Namespace /\ MDg(x) \in Digest
      BY <2>3 DEF TypeInv, ManReqInv, MTargeted, Remove, MAt, MNs, MDg
    <3>2. manifests'[<<MNs(x), MDg(x)>>] = Tombstone(manifests[<<MNs(x), MDg(x)>>])
      BY <1>0, <2>3, <3>1 DEF Remove, RemoveManifest, MetaTypeOK, Key
    <3>3. manifests[<<MNs(x), MDg(x)>>] \in ManifestRow
      BY <1>0, <3>1 DEF MetaTypeOK, Key
    <3>4. manReq'[x].ns = MNs(x) /\ manReq'[x].dg = MDg(x)
      BY <1>0, <2>3, MGone DEF Remove, MNs, MDg
    <3> QED BY <3>2, <3>3, <3>4 DEF Tombstone, ManifestRow
  <2> QED BY <2>1, <2>2, <2>3, ReachStoreOrDelete
<1>3. BytesBeforeManifest'
  <2> SUFFICES ASSUME NEW n \in Namespace, NEW d \in Digest,
                      \/ manifests'[<<n, d>>].lifecycle = "active"
                      \/ /\ manifests'[<<n, d>>] = NoManifest
                         /\ \E r \in ManifestRequest :
                               manReq'[r].pc = "store" /\ manReq'[r].ns = n /\ manReq'[r].dg = d
               PROVE  <<n, d>> \in files'
    OBVIOUS
  <2>1. manifests[<<n, d>>].lifecycle # "pending_deletion"
    BY <1>1 DEF NoManifest
  <2>2. <<n, d>> \in files => <<n, d>> \in files'
    <3>1. ~\E r \in ManifestRequest : DeleteBody(r) /\ <<MNs(r), MDg(r)>> = <<n, d>>
      BY <2>1 DEF DeleteBody, MAt, MNs, MDg
    <3>2. ~\E r \in BlobRequest : Cleanup(r) /\ VacuumRunning
      BY DEF Cleanup
    <3> QED BY <3>1, <3>2, FilesEffect
  <2>3. CASE manifests[<<n, d>>].lifecycle = "active"
    BY <2>2, <2>3
  <2>4. CASE manifests[<<n, d>>].lifecycle # "active"
    <3>1. manifests[<<n, d>>] \in ManifestRow
      BY <1>0 DEF MetaTypeOK, Key
    <3>2. manifests[<<n, d>>].lifecycle = "absent"
      BY <2>1, <2>4, <3>1 DEF ManifestRow, Lifecycle
    <3>3. CASE manifests'[<<n, d>>].lifecycle = "active"
      <4>1. PICK r \in ManifestRequest : Store(r) \/ Remove(r)
        BY <2>4, <3>3, ManifestEffect
      <4>2. ~Remove(r)
        <5> SUFFICES ASSUME Remove(r) PROVE FALSE
          OBVIOUS
        <5>1. CASE <<MNs(r), MDg(r)>> = <<n, d>>
          BY <2>4, <5>1 DEF Remove, RemoveManifest, GetManifestByDigest
        <5>2. CASE <<MNs(r), MDg(r)>> # <<n, d>>
          BY <1>0, <2>4, <3>3, <5>2 DEF Remove, RemoveManifest, MetaTypeOK
        <5> QED BY <5>1, <5>2
      <4>3. Store(r) /\ MNs(r) = n /\ MDg(r) = d
        BY <1>0, <2>4, <3>3, <4>1, <4>2 DEF Store, StoreManifest, MetaTypeOK, Key
      <4>4. manifests[<<n, d>>] = NoManifest
        BY <1>0, <2>4, <3>3, <4>3 DEF Store, StoreManifest, InsertedManifest, MetaTypeOK, Key
      <4>5. <<n, d>> \in files
        BY <4>3, <4>4 DEF Store, MAt, MNs, MDg
      <4> QED BY <2>2, <4>5
    <3>4. CASE manifests'[<<n, d>>].lifecycle # "active"
      <4>1. PICK r \in ManifestRequest :
               manReq'[r].pc = "store" /\ manReq'[r].ns = n /\ manReq'[r].dg = d
        BY <3>4
      <4>2. manifests'[<<n, d>>] = NoManifest
        BY <3>4
      <4>3. manifests[<<n, d>>] = NoManifest
        <5>1. \/ manifests'[<<n, d>>] = manifests[<<n, d>>]
              \/ \E m \in MediaType : manifests'[<<n, d>>] = InsertedManifest(n, d, m)
              \/ manifests[<<n, d>>].lifecycle = "active"
          BY <1>0, RowEffect
        <5> QED BY <2>4, <4>2, <5>1 DEF InsertedManifest
      <4>4. CASE /\ manReq'[r].pc = manReq[r].pc
                 /\ manReq'[r].ns = manReq[r].ns /\ manReq'[r].dg = manReq[r].dg
        BY <2>2, <4>1, <4>3, <4>4
      <4>5. CASE PutBody(r) /\ MGoto(r, "store")
        <5>1. MNs(r) = n /\ MDg(r) = d
          BY <1>0, <4>1, <4>5, MGone DEF MNs, MDg
        <5>2. <<n, d>> \in files'
          BY <1>0, <4>1, <4>5, <5>1, MAnswered DEF PutBody, PutBlob, Stored, blobVars
        <5> QED BY <5>2
      <4>6. CASE Remove(r)
        BY <1>0, <4>1, <4>6, MGone DEF Remove
      <4> QED BY <4>1, <4>4, <4>5, <4>6, ReachStoreOrDelete
    <3> QED BY <3>3, <3>4
  <2> QED BY <2>3, <2>4
<1> QED BY <1>2, <1>3

(* A readable manifest has its bytes, whichever puts and deletes of its digest   *)
(* overlap: a deletion's late DeleteBlob can only hit a row that stays deleted.  *)
THEOREM ManifestKeepsBytes ==
    ASSUME ~VacuumRunning \/ NoPush \/ RegistrationsHold
    PROVE  Spec => []ActiveManifestHasBytes
<1> DEFINE Inv == /\ BytesBeforeManifest /\ DeletesTombstones
                  /\ NoPush => NoPushInProgress
                  /\ RegistrationsHold => NoCleanup
<1>1. Init => Inv
  BY UnremovedInit
     DEF Init, MetaInit, BlobReqInit, ManReqInit, NoRequest, Request, NoManifestRequest,
         MRequest, Key, NoManifest, BytesBeforeManifest, DeletesTombstones, NoPushInProgress
<1>2. TypeInv /\ Inv /\ [Next]_vars => Inv'
  <2> SUFFICES ASSUME TypeInv, Inv, [Next]_vars PROVE Inv'
    OBVIOUS
  <2>1. NoPush => NoPushInProgress'
    BY NoPushStep
  <2>2. RegistrationsHold => NoCleanup'
    BY NoCleanupStep
  <2>3. VacuumRunning => \A r \in BlobRequest : ~At(r, "cleanup")
    BY DEF NoPushInProgress, NoCleanup, At
  <2>4. BytesBeforeManifest' /\ DeletesTombstones'
    BY <2>3, ManifestBytesStep
  <2> QED BY <2>1, <2>2, <2>4 DEF NoPush, RegistrationsHold
<1>3. Inv => ActiveManifestHasBytes
  BY DEF BytesBeforeManifest, ActiveManifestHasBytes, GetManifestByDigest, Stored
<1> HIDE DEF Inv
<1> QED BY <1>1, <1>2, <1>3, TypeInvariant, PTL DEF Spec

(* No request has an answer before it is done. *)
Unanswered ==
    \A r \in ManifestRequest :
        manReq[r].pc \notin {"idle", "done"} => manReq[r].reply = "none"

LEMMA UnansweredStep ==
    ASSUME TypeInv, Unanswered, [Next]_vars
    PROVE  Unanswered'
<1>0. ManReqTypeOK
  BY DEF TypeInv, ManReqInv
<1>1. CASE ManifestServiceNext
  <2>1. PICK r \in ManifestRequest :
           ManifestArrive(r) \/ ManifestDisconnect(r) \/ ManifestServe(r)
    BY <1>1 DEF ManifestServiceNext
  <2>2. CASE ManifestArrive(r)
    <3>1. manReq'[r].pc # "done" => manReq'[r].reply = "none"
      BY <1>0, <2>2 DEF ManReqTypeOK, ManifestArrive, NewManifestRequest,
                        RefusedManifestRequest, MRequest
    <3> QED BY <1>0, <2>2, <3>1, MArrived DEF Unanswered
  <2>3. CASE ManifestDisconnect(r)
    BY <1>0, <2>3, MDisconnected DEF Unanswered
  <2>4. CASE ManifestServe(r)
    <3>1. manReq'[r].pc = "done" \/ manReq'[r].reply = manReq[r].reply
      BY <1>0, <2>4, MAnswered, MGone
         DEF ManifestServe, PutBody, Store, StoreFails, ResolveManifest, OpenBody, Remove,
             RemoveFails, DeleteBody, List
    <3>2. manReq[r].pc \notin {"idle", "done"}
      BY <2>4
         DEF ManifestServe, PutBody, Store, StoreFails, ResolveManifest, OpenBody, Remove,
             RemoveFails, DeleteBody, List, MAt
    <3> QED BY <1>0, <2>4, <3>1, <3>2, MOtherSlots DEF Unanswered
  <2> QED BY <2>1, <2>2, <2>3, <2>4
<1>2. CASE ~ManifestServiceNext
  BY <1>2
     DEF Next, CreateNamespaceRequest, DeleteNamespaceRequest, Crash, vars, Unanswered,
         NoManifestRequest, MRequest
<1> QED BY <1>1, <1>2

(* A put that is answered "ok" can be read back, as long as no manifest is ever  *)
(* deleted: a row pending deletion is the only way a put goes wrong.             *)
THEOREM PutsAreReadable ==
    ASSUME "DeleteManifest" \notin ManifestOps
    PROVE  Spec => PutManifestIsReadable
<1>1. Init => NoDeletes /\ Unanswered
  BY UnremovedInit DEF Init, ManReqInit, NoManifestRequest, MRequest, Unanswered
<1>2. TypeInv /\ NoDeletes /\ Unanswered /\ [Next]_vars => NoDeletes' /\ Unanswered'
  BY NoDeletesStep, UnansweredStep
<1>3. ASSUME TypeInv, NoDeletes, Unanswered, [Next]_vars,
             NEW r \in ManifestRequest, MAt(r, "store"), manReq'[r].reply = "ok"
      PROVE  GetManifestByDigest(MNs(r), MDg(r))'
  <2>0. MetaTypeOK /\ ManReqTypeOK
    BY <1>3 DEF TypeInv, ManReqInv
  <2>1. MNs(r) \in Namespace /\ MDg(r) \in Digest /\ manReq[r].reply = "none"
    BY <1>3 DEF TypeInv, ManReqInv, MTargeted, Unanswered, MAt, MNs, MDg
  <2>2. Store(r)
    <3>1. PICK x \in ManifestRequest :
             ManifestArrive(x) \/ ManifestDisconnect(x) \/ ManifestServe(x)
      BY <1>3, <2>1
         DEF Next, ManifestServiceNext, CreateNamespaceRequest, DeleteNamespaceRequest, Crash,
             vars, NoManifestRequest, MRequest
    <3>2. ManifestServe(r)
      BY <1>3, <2>0, <2>1, <3>1, MArrived, MDisconnected, MOtherSlots DEF ManifestArrive, MAt
    <3> QED
      BY <1>3, <2>0, <3>2, MAnswered
         DEF ManifestServe, PutBody, StoreFails, ResolveManifest, OpenBody, Remove, RemoveFails,
             DeleteBody, List, MAt
  <2>3. manifests'[<<MNs(r), MDg(r)>>].lifecycle = "active"
    <3>1. PICK m : manifests'[<<MNs(r), MDg(r)>>] = InsertedManifest(MNs(r), MDg(r), m)
      BY <2>0, <2>1, <2>2 DEF Store, StoreManifest, MetaTypeOK, Key
    <3> QED BY <1>3, <2>1, <3>1 DEF NoDeletes, InsertedManifest
  <2>4. MNs(r)' = MNs(r) /\ MDg(r)' = MDg(r)
    BY <2>0, <2>2 DEF Store, MAnswer, MRequest, MNs, MDg, ManReqTypeOK
  <2> QED BY <2>3, <2>4 DEF GetManifestByDigest
<1>4. TypeInv /\ NoDeletes /\ Unanswered /\ [Next]_vars
         => \A r \in ManifestRequest : MAt(r, "store") /\ manReq'[r].reply = "ok"
               => GetManifestByDigest(MNs(r), MDg(r))'
  BY <1>3
<1> QED BY <1>1, <1>2, <1>4, TypeInvariant, PTL DEF Spec, PutManifestIsReadable
-----------------------------------------------------------------------------
(* No bytes without a row *)

(* A file without a row is one that a request made, and still has to register    *)
(* or to delete.                                                                 *)
Owned(n, d) ==
    \E r \in BlobRequest :
        /\ blobReq[r].pc \in {"register", "cleanup"} /\ blobReq[r].mine
        /\ blobReq[r].ns = n /\ blobReq[r].dg = d

FilesAccounted ==
    \A n \in Namespace, d \in Digest :
        <<n, d>> \in files => namespaceBlobs[<<n, d>>] = "active" \/ Owned(n, d)

(* What the clients and the environment must not do: put manifests, disconnect.  *)
Undisturbed ==
    /\ \A r \in BlobRequest : blobReq[r].alive
    /\ \A r \in ManifestRequest : manReq[r].pc # "putBody"

(* The request that owns a file keeps it until it is registered or deleted.      *)
LEMMA OwnerStep ==
    ASSUME TypeInv, Undisturbed, VacuumRunning, Faults \subseteq {"metastore"}, [Next]_vars,
           NEW n \in Namespace, NEW d \in Digest, Owned(n, d)
    PROVE  <<n, d>> \notin files' \/ namespaceBlobs'[<<n, d>>] = "active" \/ Owned(n, d)'
<1>0. BlobReqTypeOK
  BY DEF TypeInv, BlobReqInv
<1>1. PICK w \in BlobRequest : /\ blobReq[w].pc \in {"register", "cleanup"} /\ blobReq[w].mine
                               /\ blobReq[w].ns = n /\ blobReq[w].dg = d
  BY DEF Owned
<1>2. CASE blobReq'[w] = blobReq[w]
  BY <1>1, <1>2 DEF Owned
<1>3. CASE BlobServiceNext
  <2>1. PICK r \in BlobRequest : BlobArrive(r) \/ Disconnect(r) \/ BlobServe(r)
    BY <1>3 DEF BlobServiceNext
  <2>2. CASE w # r
    BY <1>0, <1>2, <2>1, <2>2, OtherSlots
  <2>3. CASE w = r
    <3>1. CASE Register(w)
      <4>1. namespaceBlobs'[<<n, d>>] = "active"
        BY <1>1, <3>1 DEF Register, InsertNamespaceBlob, Ns, Dg, TypeInv, MetaTypeOK, Key
      <4> QED BY <4>1
    <3>2. CASE RegisterFails(w)
      <4>1. Goto(w, "cleanup")
        BY <1>1, <3>2 DEF RegisterFails
      <4> QED BY <1>0, <1>1, <4>1, Gone DEF Owned
    <3>3. CASE Cleanup(w)
      <4>1. DeleteBlob(n, d)
        BY <1>1, <3>3 DEF Cleanup, Undisturbed, Alive, DiskCanFail, Ns, Dg
      <4> QED BY <4>1 DEF DeleteBlob
    <3>4. ~Disconnect(w)
      BY DEF Disconnect
    <3> QED
      BY <1>1, <2>1, <2>3, <3>1, <3>2, <3>3, <3>4
         DEF BlobArrive, BlobServe, StatRegistered, OpenBlob, PutFile, PutFileCommitted,
             PutFileFails, StatExisting, MountSource, MountOpen, MountFallback, Initiate,
             AppendChunk, CommitOffset, FinalChunk, Finalize, FinalizeFails, Discard,
             GetUploadStatus, CancelStat, CancelUpload, UploadUnknown, At
  <2> QED BY <2>2, <2>3
<1> QED
  BY <1>2, <1>3 DEF Next, CreateNamespaceRequest, DeleteNamespaceRequest, Crash, vars

LEMMA FilesAccountedStep ==
    ASSUME TypeInv, Undisturbed, FilesAccounted, VacuumRunning, Faults \subseteq {"metastore"},
           [Next]_vars
    PROVE  FilesAccounted'
<1> SUFFICES ASSUME NEW n \in Namespace, NEW d \in Digest, <<n, d>> \in files'
             PROVE  namespaceBlobs'[<<n, d>>] = "active" \/ Owned(n, d)'
  BY DEF FilesAccounted
<1>0. BlobReqTypeOK
  BY DEF TypeInv, BlobReqInv
<1>1. CASE namespaceBlobs[<<n, d>>] = "active"
  <2>1. CASE \E r \in BlobRequest : Register(r)
    BY <1>1, <2>1 DEF Register, InsertNamespaceBlob, TypeInv, MetaTypeOK, Key
  <2> QED BY <1>1, <2>1, RegisterEffect
<1>2. CASE Owned(n, d)
  BY <1>2, OwnerStep
<1>3. CASE <<n, d>> \notin files
  <2>1. ~\E r \in ManifestRequest : PutBody(r)
    BY DEF PutBody, MAt, Undisturbed
  <2>2. PICK r \in BlobRequest :
           (PutFile(r) \/ Finalize(r)) /\ files' = files \cup {<<Ns(r), Dg(r)>>}
    BY <1>3, <2>1, FilesEffect
  <2>3. Ns(r) = n /\ Dg(r) = d
    BY <1>3, <2>2
  <2>4. GotoRegister(r)
    BY <1>3, <2>2, <2>3 DEF PutFile, Finalize, Stored
  <2> QED BY <1>0, <2>3, <2>4, GoneToRegister DEF Owned, Ns, Dg
<1> QED BY <1>1, <1>2, <1>3 DEF FilesAccounted

LEMMA UndisturbedStep ==
    ASSUME TypeInv, Undisturbed, Faults \subseteq {"metastore"}, "PutManifest" \notin ManifestOps,
           [Next]_vars
    PROVE  Undisturbed'
<1>0. BlobReqTypeOK /\ ManReqTypeOK
  BY DEF TypeInv, BlobReqInv, ManReqInv
<1>1. CASE BlobServiceNext /\ UNCHANGED manReq
  <2>1. PICK r \in BlobRequest : BlobArrive(r) \/ BlobServe(r)
    BY <1>1 DEF BlobServiceNext, Disconnect
  <2>2. \A x \in BlobRequest \ {r} : blobReq'[x] = blobReq[x]
    BY <1>0, <2>1, OtherSlots
  <2>3. blobReq'[r].alive
    <3>1. CASE \E reply : Answer(r, reply)
      BY <1>0, <3>1 DEF Answer, Request, BlobReqTypeOK
    <3>2. CASE \E pc : Goto(r, pc)
      BY <1>0, <3>2, Gone DEF Undisturbed
    <3>3. CASE BlobArrive(r)
      BY <1>0, <3>3, Arrived
    <3>4. CASE PutFile(r) \/ Finalize(r)
      BY <1>0, <3>1, <3>4, GoneToRegister DEF PutFile, Finalize, Undisturbed
    <3>5. CASE CommitOffset(r) \/ FinalChunk(r)
      BY <1>0, <3>1, <3>5, GoneAt DEF CommitOffset, FinalChunk, Undisturbed
    <3>6. CASE BlobServe(r)
      BY <3>1, <3>2, <3>4, <3>5, <3>6
         DEF BlobServe, StatRegistered, OpenBlob, PutFileCommitted, PutFileFails, StatExisting,
             Register, RegisterFails, Cleanup, MountSource, MountOpen, MountFallback, Initiate,
             AppendChunk, FinalizeFails, Discard, GetUploadStatus, CancelStat, CancelUpload,
             UploadUnknown
    <3> QED BY <2>1, <3>3, <3>6
  <2> QED BY <1>1, <2>2, <2>3 DEF Undisturbed
<1>2. CASE ManifestServiceNext /\ UNCHANGED blobReq
  <2>1. PICK r \in ManifestRequest : ManifestArrive(r) \/ ManifestServe(r)
    BY <1>2 DEF ManifestServiceNext, ManifestDisconnect
  <2>2. CASE ManifestArrive(r)
    <3>1. \A op \in ManifestOps : ManifestFirstCall[op] # "putBody"
      BY ManifestServiceAssumption DEF ManifestFirstCall
    <3>2. manReq'[r].pc # "putBody"
      BY <1>0, <2>2, <3>1 DEF ManReqTypeOK, ManifestArrive, NewManifestRequest,
                              RefusedManifestRequest, MRequest
    <3> QED BY <1>0, <1>2, <2>2, <3>2, MArrived DEF Undisturbed
  <2>3. CASE ManifestServe(r)
    BY <1>0, <1>2, <2>3, MAnswered, MGone
       DEF Undisturbed, ManifestServe, PutBody, Store, StoreFails, ResolveManifest, OpenBody,
           Remove, RemoveFails, DeleteBody, List
  <2> QED BY <2>1, <2>2, <2>3
<1>3. CASE UNCHANGED <<blobReq, manReq>>
  BY <1>3 DEF Undisturbed
<1> QED
  BY <1>1, <1>2, <1>3
     DEF Next, CreateNamespaceRequest, DeleteNamespaceRequest, Crash, vars

(* With a worker pool, and as long as no deletion itself fails (no disk error,   *)
(* no cancelled context, no crash), uploads and mounts never leave a file that   *)
(* has no row, whichever of them overlap and whichever transactions fail.        *)
THEOREM UploadsLeaveNoOrphan ==
    ASSUME VacuumRunning, Faults \subseteq {"metastore"}, "PutManifest" \notin ManifestOps
    PROVE  Spec => []NoOrphanAtRest
<1>1. Init => Undisturbed /\ FilesAccounted
  BY DEF Init, BlobInit, BlobReqInit, ManReqInit, NoRequest, Request, NoManifestRequest,
         MRequest, Undisturbed, FilesAccounted
<1>2. TypeInv /\ Undisturbed /\ FilesAccounted /\ [Next]_vars => (Undisturbed /\ FilesAccounted)'
  BY UndisturbedStep, FilesAccountedStep
<1>3. FilesAccounted => NoOrphanAtRest
  BY DEF FilesAccounted, Owned, NoOrphanAtRest, AtRest, Stored, StatNamespaceBlob
<1> QED BY <1>1, <1>2, <1>3, TypeInvariant, PTL DEF Spec

-----------------------------------------------------------------------------
(* Upload sessions *)

(* Which steps change the upload sessions, and how. *)
LEMMA UploadsEffect ==
    ASSUME [Next]_vars
    PROVE  \/ UNCHANGED uploads
           \/ \E r \in BlobRequest :
                 \/ \E u \in Upload : InitiateBlobUpload(Ns(r), u)
                 \/ AppendChunk(r) /\ \E p \in Piece : AppendPiece(Up(r), p)
                 \/ FinalChunk(r) /\ \E p \in Piece : AppendPiece(Up(r), p)
                 \/ Finalize(r) /\ uploads' = EndUpload(Up(r))
                 \/ (Discard(r) \/ CancelUpload(r)) /\ CancelBlobUpload(Ns(r), Up(r))
<1>1. CASE BlobServiceNext
  <2>1. PICK r \in BlobRequest : BlobArrive(r) \/ Disconnect(r) \/ BlobServe(r)
    BY <1>1 DEF BlobServiceNext
  <2>2. CASE Initiate(r) \/ AppendChunk(r) \/ FinalChunk(r)
    BY <2>2 DEF Initiate, AppendChunk, FinalChunk, blobVars
  <2>3. CASE Finalize(r) \/ Discard(r) \/ CancelUpload(r)
    BY <2>3 DEF Finalize, CommitStaged, Discard, CancelUpload, blobVars
  <2>4. CASE PutFile(r) \/ Cleanup(r) \/ Register(r)
    BY <2>4 DEF PutFile, PutBlob, Cleanup, DeleteBlob, Register, blobVars
  <2>5. CASE ~(\/ Initiate(r) \/ AppendChunk(r) \/ FinalChunk(r) \/ Finalize(r)
               \/ Discard(r) \/ CancelUpload(r) \/ PutFile(r) \/ Cleanup(r) \/ Register(r))
    BY <2>1, <2>5
       DEF BlobArrive, Disconnect, BlobServe, StatRegistered, OpenBlob, PutFileCommitted,
           PutFileFails, StatExisting, RegisterFails, MountSource, MountOpen, MountFallback,
           CommitOffset, FinalizeFails, GetUploadStatus, CancelStat, UploadUnknown, ReadOnly,
           blobVars
  <2> QED BY <2>2, <2>3, <2>4, <2>5
<1>2. CASE ManifestServiceNext
  BY <1>2
     DEF ManifestServiceNext, ManifestArrive, ManifestDisconnect, ManifestServe, PutBody, Store,
         StoreFails, ResolveManifest, OpenBody, Remove, RemoveFails, DeleteBody, List,
         MReadOnly, blobVars, PutBlob, DeleteBlob
<1>3. CASE \E n \in Namespace : CreateNamespaceRequest(n) \/ DeleteNamespaceRequest(n)
  BY <1>3 DEF CreateNamespaceRequest, DeleteNamespaceRequest, blobVars
<1>4. CASE Crash \/ UNCHANGED vars
  BY <1>4 DEF Crash, vars, blobVars
<1> QED BY <1>1, <1>2, <1>3, <1>4 DEF Next

(* An append keeps what was measured before it. *)
LEMMA PrefixKept ==
    ASSUME NEW S, NEW s \in Seq(S), NEW p \in S, NEW k \in Nat, k <= Len(s)
    PROVE  k <= Len(Append(s, p)) /\ SubSeq(Append(s, p), 1, k) = SubSeq(s, 1, k)
OBVIOUS

LEMMA AppendKeeps ==
    ASSUME uploads \in [Upload -> Session], NEW u \in Upload, NEW x, NEW p, AppendPiece(x, p)
    PROVE  /\ uploads'[u].state = uploads[u].state
           /\ \/ uploads'[u] = uploads[u]
              \/ uploads'[u].data = Append(uploads[u].data, p)
<1>1. CASE x = u
  <2>1. uploads'[u] = [uploads[u] EXCEPT !.data = Append(uploads[u].data, p)]
    BY <1>1 DEF AppendPiece
  <2> QED BY <2>1 DEF Session
<1>2. CASE x # u
  BY <1>2 DEF AppendPiece
<1> QED BY <1>1, <1>2

(* What may become of one session. *)
LEMMA SessionFate ==
    ASSUME TypeInv, [Next]_vars, NEW u \in Upload
    PROVE  \/ uploads'[u] = uploads[u]
           \/ uploads[u].state = "unused"
           \/ uploads'[u].state = "gone"
           \/ /\ uploads'[u].state = uploads[u].state
              /\ \E p \in Piece : uploads'[u].data = Append(uploads[u].data, p)
<1>0. uploads \in [Upload -> Session]
  BY DEF TypeInv, BlobTypeOK
<1>1. CASE UNCHANGED uploads
  BY <1>1
<1>2. CASE ~UNCHANGED uploads
  <2>1. PICK r \in BlobRequest :
           \/ \E x \in Upload : InitiateBlobUpload(Ns(r), x)
           \/ \E p \in Piece : AppendPiece(Up(r), p)
           \/ uploads' = EndUpload(Up(r))
           \/ CancelBlobUpload(Ns(r), Up(r))
    BY <1>2, UploadsEffect
  <2>2. CASE \E x \in Upload : InitiateBlobUpload(Ns(r), x)
    BY <1>0, <2>2 DEF InitiateBlobUpload
  <2>3. CASE \E p \in Piece : AppendPiece(Up(r), p)
    BY <1>0, <2>3, AppendKeeps
  <2>4. CASE uploads' = EndUpload(Up(r))
    BY <1>0, <2>4 DEF EndUpload
  <2>5. CASE CancelBlobUpload(Ns(r), Up(r))
    BY <1>2, <2>4, <2>5 DEF CancelBlobUpload
  <2> QED BY <2>1, <2>2, <2>3, <2>4, <2>5
<1> QED BY <1>1, <1>2

(* Which operation a request with a session is of. *)
SessionOp(q) ==
    /\ q.pc \in {"offset", "finalChunk", "finalize", "discard"} => q.op = "Commit"
    /\ q.pc \in {"cancelStat", "cancel"} => q.op = "Cancel"

(* A commit about to cancel its session found bytes there that are not those of  *)
(* its digest, and nothing appended since has changed them.                      *)
FoundWrong(q) ==
    /\ uploads[q.up].state # "unused"
    /\ uploads[q.up].state = "open" =>
          /\ q.offset <= Len(uploads[q.up].data)
          /\ SubSeq(uploads[q.up].data, 1, q.offset) # Content[q.dg]

SessionInv ==
    \A r \in BlobRequest :
        SessionOp(blobReq[r]) /\ (At(r, "discard") => FoundWrong(blobReq[r]))

LEMMA SessionOpStep ==
    ASSUME TypeInv, SessionInv, [Next]_vars, NEW x \in BlobRequest
    PROVE  SessionOp(blobReq'[x])
<1>0. BlobReqTypeOK /\ SessionOp(blobReq[x])
  BY DEF TypeInv, BlobReqInv, SessionInv
<1> USE DEF SessionOp
<1>1. CASE BlobArrive(x)
  <2>1. \A op \in BlobOps : /\ FirstCall[op] = "offset" => op = "Commit"
                            /\ FirstCall[op] = "cancelStat" => op = "Cancel"
                            /\ FirstCall[op] \notin {"finalChunk", "finalize", "discard", "cancel"}
    BY BlobServiceAssumption DEF FirstCall
  <2> QED BY <1>0, <1>1, <2>1, Arrived
<1>2. CASE Disconnect(x)
  BY <1>0, <1>2, Disconnected
<1>3. CASE \E reply : Answer(x, reply)
  BY <1>0, <1>3, Answered
<1>4. CASE CommitOffset(x) \/ FinalChunk(x)
  BY <1>0, <1>3, <1>4, GoneAt DEF CommitOffset, FinalChunk, At
<1>5. CASE FinalizeFails(x) \/ CancelStat(x)
  BY <1>0, <1>3, <1>5, Gone DEF FinalizeFails, CancelStat, At
<1>6. CASE PutFile(x) \/ Finalize(x)
  BY <1>0, <1>3, <1>6, GoneToRegister DEF PutFile, Finalize
<1>7. CASE \E pc \in {"open", "statExisting", "register", "cleanup", "mountOpen", "fallback",
                       "put", "initiate"} : Goto(x, pc)
  BY <1>0, <1>7, Gone
<1>8. CASE BlobServe(x)
  BY <1>3, <1>4, <1>5, <1>6, <1>7, <1>8
     DEF BlobServe, StatRegistered, OpenBlob, PutFileCommitted, PutFileFails, StatExisting,
         Register, RegisterFails, Cleanup, MountSource, MountOpen, MountFallback, Initiate,
         AppendChunk, Discard, GetUploadStatus, CancelUpload, UploadUnknown
<1>9. CASE blobReq'[x] = blobReq[x]
  BY <1>0, <1>9
<1>10. CASE BlobServiceNext
  <2>1. PICK r \in BlobRequest : BlobArrive(r) \/ Disconnect(r) \/ BlobServe(r)
    BY <1>10 DEF BlobServiceNext
  <2> QED BY <1>0, <1>1, <1>2, <1>8, <1>9, <2>1, OtherSlots
<1>11. CASE Crash
  BY <1>11 DEF Crash, NoRequest, Request
<1> QED
  BY <1>9, <1>10, <1>11 DEF Next, CreateNamespaceRequest, DeleteNamespaceRequest, vars

(* How a commit gets to the cancellation of its session. *)
LEMMA ReachDiscard ==
    ASSUME TypeInv, [Next]_vars, NEW x \in BlobRequest, blobReq'[x].pc = "discard"
    PROVE  /\ blobReq'[x].up = blobReq[x].up /\ blobReq'[x].dg = blobReq[x].dg
           /\ blobReq'[x].offset = blobReq[x].offset
           /\ \/ At(x, "discard")
              \/ /\ FinalizeFails(x) /\ UploadOffset(Up(x)) = blobReq[x].offset
                 /\ ~Verified(Up(x), Dg(x), blobReq[x].offset)
<1>0. BlobReqTypeOK
  BY DEF TypeInv, BlobReqInv
<1>1. ~\E reply : Answer(x, reply)
  BY <1>0, Answered
<1>2. CASE Disconnect(x)
  BY <1>0, <1>2 DEF Disconnect, BlobReqTypeOK, BlobRequestRecord, At
<1>3. ~BlobArrive(x)
  <2>1. \A op \in BlobOps : FirstCall[op] # "discard"
    BY BlobServiceAssumption DEF FirstCall
  <2> QED BY <1>0, <2>1, Arrived
<1>4. CASE FinalizeFails(x)
  <2>1. Goto(x, "discard")
    BY <1>1, <1>4 DEF FinalizeFails
  <2> QED BY <1>0, <1>1, <1>4, <2>1 DEF FinalizeFails, Goto, BlobReqTypeOK, BlobRequestRecord
<1>5. ~\E pc \in {"open", "statExisting", "register", "cleanup", "mountOpen", "fallback",
                  "put", "initiate", "cancel"} : Goto(x, pc)
  BY <1>0, Gone
<1>6. ~(PutFile(x) \/ Finalize(x) \/ CommitOffset(x) \/ FinalChunk(x))
  <2>1. ~GotoRegister(x)
    BY <1>0, GoneToRegister
  <2>2. ~\E pc \in {"finalChunk", "finalize"} : \E offset : GotoAt(x, pc, offset)
    BY <1>0, GoneAt
  <2> QED BY <1>1, <2>1, <2>2 DEF PutFile, Finalize, CommitOffset, FinalChunk
<1>7. BlobServe(x) => FinalizeFails(x)
  BY <1>1, <1>5, <1>6
     DEF BlobServe, StatRegistered, OpenBlob, PutFileCommitted, PutFileFails, StatExisting,
         Register, RegisterFails, Cleanup, MountSource, MountOpen, MountFallback, Initiate,
         AppendChunk, Discard, GetUploadStatus, CancelStat, CancelUpload, UploadUnknown
<1>8. CASE blobReq'[x] = blobReq[x]
  BY <1>8 DEF At
<1>9. CASE BlobServiceNext
  <2>1. PICK r \in BlobRequest : BlobArrive(r) \/ Disconnect(r) \/ BlobServe(r)
    BY <1>9 DEF BlobServiceNext
  <2> QED BY <1>0, <1>2, <1>3, <1>4, <1>7, <1>8, <2>1, OtherSlots
<1>10. ~Crash
  BY DEF Crash, NoRequest, Request
<1> QED
  BY <1>8, <1>9, <1>10 DEF Next, CreateNamespaceRequest, DeleteNamespaceRequest, vars

LEMMA SessionStep ==
    ASSUME TypeInv, SessionInv, [Next]_vars
    PROVE  SessionInv'
<1> SUFFICES ASSUME NEW x \in BlobRequest, blobReq'[x].pc = "discard"
             PROVE  FoundWrong(blobReq[x])'
  BY SessionOpStep DEF SessionInv, At, SessionOp
<1> DEFINE u == blobReq[x].up
           k == blobReq[x].offset
<1>1. /\ blobReq'[x].up = u /\ blobReq'[x].dg = blobReq[x].dg /\ blobReq'[x].offset = k
      /\ blobReq[x].pc \in {"finalize", "discard"}
  BY ReachDiscard DEF FinalizeFails, At
<1>2. u \in Upload /\ k \in Nat /\ uploads[u] \in Session
  BY <1>1 DEF TypeInv, BlobReqInv, BlobReqTypeOK, BlobRequestRecord, Targeted, BlobTypeOK
<1>3. FoundWrong(blobReq[x])
  <2>1. CASE At(x, "discard")
    BY <2>1 DEF SessionInv
  <2>2. CASE FinalizeFails(x) /\ UploadOffset(Up(x)) = k /\ ~Verified(Up(x), Dg(x), k)
    <3>1. /\ uploads[u].state = "open" /\ k = Len(uploads[u].data)
          /\ uploads[u].data # Content[blobReq[x].dg]
      BY <2>2 DEF FinalizeFails, UploadKnown, UploadOffset, Verified, Up, Dg
    <3>2. uploads[u].data \in Seq(Piece)
      BY <1>2 DEF Session
    <3>3. SubSeq(uploads[u].data, 1, k) = uploads[u].data
      BY <3>1, <3>2
    <3> QED BY <1>2, <3>1, <3>2, <3>3 DEF FoundWrong
  <2> QED BY <2>1, <2>2, ReachDiscard
<1>4. CASE uploads'[u] = uploads[u] \/ uploads'[u].state = "gone"
  BY <1>1, <1>3, <1>4 DEF FoundWrong
<1>5. CASE /\ uploads'[u].state = uploads[u].state
           /\ \E p \in Piece : uploads'[u].data = Append(uploads[u].data, p)
  <2>1. uploads[u].data \in Seq(Piece)
    BY <1>2 DEF Session
  <2> QED BY <1>1, <1>2, <1>3, <1>5, <2>1, PrefixKept DEF FoundWrong
<1> QED BY <1>2, <1>3, <1>4, <1>5, SessionFate DEF FoundWrong

(* A session is ended by its client, by the commit of all its bytes, or by a     *)
(* commit whose own bytes were wrong: never by a commit that another request's   *)
(* chunk overtook, at whichever of its calls.                                    *)
THEOREM SessionsAreKept == Spec => SessionsKept
<1>1. Init => SessionInv
  BY DEF Init, BlobReqInit, NoRequest, Request, SessionInv, SessionOp, At
<1>2. TypeInv /\ SessionInv /\ [Next]_vars => SessionInv'
  BY SessionStep
<1>3. ASSUME TypeInv, SessionInv, [Next]_vars, NEW u \in Upload,
             uploads[u].state = "open", uploads'[u].state # "open"
      PROVE  \E r \in BlobRequest : MayEnd(r, u)
  <2>0. BlobReqTypeOK /\ uploads \in [Upload -> Session]
    BY <1>3 DEF TypeInv, BlobReqInv, BlobTypeOK
  <2>1. ~\E x \in Upload : \E n : InitiateBlobUpload(n, x)
    BY <1>3, <2>0 DEF InitiateBlobUpload
  <2>2. ~\E x, p : AppendPiece(x, p)
    BY <1>3, <2>0, AppendKeeps
  <2>3. PICK r \in BlobRequest :
           \/ Finalize(r) /\ uploads' = EndUpload(Up(r))
           \/ (Discard(r) \/ CancelUpload(r)) /\ CancelBlobUpload(Ns(r), Up(r))
    BY <1>3, <2>1, <2>2, UploadsEffect
  <2>4. u = Up(r) /\ UploadKnown(Ns(r), u)
    BY <1>3, <2>0, <2>3 DEF EndUpload, CancelBlobUpload, Finalize
  <2>5. blobReq'[r].pc # blobReq[r].pc
    BY <2>0, <2>3, Answered, GoneToRegister DEF Finalize, Discard, CancelUpload, At
  <2>6. SessionOp(blobReq[r]) /\ (At(r, "discard") => FoundWrong(blobReq[r]))
    BY <1>3 DEF SessionInv
  <2>7. Up(r) = u /\ Ns(r) = uploads[u].ns /\ blobReq'[r] # blobReq[r]
    BY <2>4, <2>5 DEF UploadKnown
  <2>8. CASE Finalize(r)
    <3>1. Op(r) = "Commit" /\ At(r, "finalize")
      BY <2>6, <2>8 DEF Finalize, SessionOp, At, Op
    <3>2. uploads[u].data = Content[Dg(r)]
      BY <2>4, <2>8 DEF Finalize, Verified
    <3>3. Stored(Ns(r), Dg(r))'
      <4>1. Ns(r)' = Ns(r) /\ Dg(r)' = Dg(r)
        BY <2>0, <2>8, Answered, GoneToRegister DEF Finalize, Ns, Dg
      <4> QED BY <2>8, <4>1 DEF Finalize, CommitStaged, Stored
    <3> QED BY <2>7, <3>1, <3>2, <3>3 DEF MayEnd
  <2>9. CASE Discard(r)
    <3>1. Op(r) = "Commit" /\ At(r, "discard")
      BY <2>6, <2>9 DEF Discard, SessionOp, At, Op
    <3>2. FoundWrong(blobReq[r])
      BY <2>6, <3>1
    <3> QED BY <1>3, <2>7, <3>1, <3>2 DEF FoundWrong, MayEnd, Up, Dg
  <2>10. CASE CancelUpload(r)
    <3>1. Op(r) = "Cancel"
      BY <2>6, <2>10 DEF CancelUpload, SessionOp, At, Op
    <3> QED BY <2>7, <3>1 DEF MayEnd
  <2> QED BY <2>3, <2>8, <2>9, <2>10
<1>4. ASSUME TypeInv, SessionInv, [Next]_vars
      PROVE  \A u \in Upload : uploads[u].state = "open" /\ uploads'[u].state # "open"
                => \E r \in BlobRequest : MayEnd(r, u)
  BY <1>3, <1>4
<1> QED BY <1>1, <1>2, <1>4, TypeInvariant, PTL DEF Spec, SessionsKept
=============================================================================
